------------------------------ MODULE MergeBack ------------------------------
(***************************************************************************)
(* Forks of one topic and the merge-back review of what they propose       *)
(* (fork_service.py, merge_service.py and their endpoints), the topic's    *)
(* content.md on the server's disk, and the boot import that may read it   *)
(* back (import_seed.py).                                                  *)
(*                                                                         *)
(* A request is one transaction of PostgreSQL at READ COMMITTED: each      *)
(* statement sees what is committed when it starts, an update or delete    *)
(* waits for the transaction that holds its rows, foreign keys are         *)
(* enforced, and get_db commits when the handler has returned.  What a     *)
(* handler writes in a single statement at its end takes effect with the   *)
(* commit.  Reads that change nothing are left out, and so are requests    *)
(* refused without an effect: they are the steps' guards.                  *)
(*                                                                         *)
(* The rows of content_blocks that one parse of a markdown inserts form a  *)
(* batch, named by the text they came from.  The misconceptions of the     *)
(* parse come and go with them and are left out.                           *)
(***************************************************************************)
EXTENDS Naturals, FiniteSets

CONSTANTS
    Author,         \* users who fork
    Fork,           \* rows topic_forks may come to have ...
    Forker,         \* ... and the user who inserts each
    Suggestion,     \* rows merge_back_suggestions may come to have
    Conn,           \* requests the server works on at once
    Text,           \* markdown sources
    Shipped,        \* the content.md of the image
    Torn,           \* a content.md whose writing was cut short
    None,
    DiskDurable,    \* the seed directory outlives a restart
    RefreshOnBoot,  \* CONTENT_REFRESH_ON_BOOT
    Limit           \* bounds on what goes wrong, by kind

Budget == {"fault", "restart"}

ASSUME ConstantsAssumption ==
    /\ Forker \in [Fork -> Author]
    /\ Shipped \in Text /\ Torn \in Text /\ Shipped # Torn
    /\ None \notin Fork \cup Suggestion \cup Conn
    /\ DiskDurable \in BOOLEAN /\ RefreshOnBoot \in BOOLEAN
    /\ Limit \in [Budget -> Nat]

VARIABLES
    fork,    \* topic_forks
    sug,     \* merge_back_suggestions
    blocks,  \* the batches among the topic's content rows
    disk,    \* the topic's content.md
    call,    \* call[k]: the request on connection k
    spent    \* how much of Limit is used

vars == <<fork, sug, blocks, disk, call, spent>>

Batch == [by : Conn \cup {None}, sug : Suggestion \cup {None}, text : Text]
ForkRow == [state : {"unused", "live", "deleted"}, text : Text]
Status == {"none", "pending", "accepted", "rejected"}
SuggestionRow == [status : Status, fork : Fork \cup {None}, text : Text]

CallState ==
    [op    : {"none", "fork", "suggest", "accept", "reject"},
     phase : {"none", "read", "deleting", "applied"},
     fork  : Fork \cup {None},        \* the row it read or will insert
     sug   : Suggestion \cup {None},  \* the row it read or will insert
     text  : Text,                    \* the markdown it read
     seen  : SUBSET Batch]            \* what its DELETE saw

Idle == [op |-> "none", phase |-> "none", fork |-> None, sug |-> None,
         text |-> Shipped, seen |-> {}]

TypeOK ==
    /\ fork \in [Fork -> ForkRow]
    /\ sug \in [Suggestion -> SuggestionRow]
    /\ blocks \subseteq Batch
    /\ disk \in Text
    /\ call \in [Conn -> CallState]
    /\ spent \in [Budget -> Nat]

Imported(text) == {[by |-> None, sug |-> None, text |-> text]}

Init ==
    /\ fork = [f \in Fork |-> [state |-> "unused", text |-> Shipped]]
    /\ sug = [s \in Suggestion |->
                [status |-> "none", fork |-> None, text |-> Shipped]]
    /\ blocks = Imported(Shipped)
    /\ disk = Shipped
    /\ call = [k \in Conn |-> Idle]
    /\ spent = [b \in Budget |-> 0]

CanSpend(what) == spent[what] < Limit[what]
Spend(what) == spent' = [spent EXCEPT ![what] = @ + 1]
End(k) == call' = [call EXCEPT ![k] = Idle]

\* Ids are uuid4's: no two requests insert a row with the same one.
Fresh(id) == \A k \in Conn : call[k].fork # id /\ call[k].sug # id

-----------------------------------------------------------------------------
(***************************************************************************)
(* Forks.                                                                  *)
(***************************************************************************)

Mine(u) == {f \in Fork : Forker[f] = u /\ fork[f].state = "live"}

\* get_fork: scalar_one_or_none raises when two rows match, so the owner of
\* two forks can no longer reach either.
Reached(u) == IF Cardinality(Mine(u)) = 1 THEN Mine(u) ELSE {}

\* Mutant of Existing: only a fork nobody has edited is looked for.
ExistingPristine(u) == {f \in Mine(u) : fork[f].text = disk}

Existing(u) == Mine(u)

\* create_fork: the look-up, and the read of content.md.
ForkRead(k, f) ==
    /\ call[k] = Idle /\ fork[f].state = "unused" /\ Fresh(f)
    /\ Existing(Forker[f]) = {}
    /\ call' = [call EXCEPT ![k] =
                  [Idle EXCEPT !.op = "fork", !.phase = "read",
                               !.fork = f, !.text = disk]]
    /\ UNCHANGED <<fork, sug, blocks, disk, spent>>

\* ... and the insert: no constraint keeps two forks of a user apart.
ForkInsert(k) ==
    /\ call[k].op = "fork"
    /\ fork' = [fork EXCEPT ![call[k].fork] =
                  [state |-> "live", text |-> call[k].text]]
    /\ End(k)
    /\ UNCHANGED <<sug, blocks, disk, spent>>

\* update_fork_source: one row, one column.
Save(u, text) ==
    \E f \in Reached(u) :
        /\ fork[f].text # text
        /\ fork' = [fork EXCEPT ![f].text = text]
        /\ UNCHANGED <<sug, blocks, disk, call, spent>>

\* delete_fork: refused (IntegrityError) while suggestions point to it.
Delete(u) ==
    \E f \in Reached(u) :
        /\ \A s \in Suggestion : sug[s].fork # f
        /\ fork' = [fork EXCEPT ![f].state = "deleted"]
        /\ UNCHANGED <<sug, blocks, disk, call, spent>>

-----------------------------------------------------------------------------
(***************************************************************************)
(* Suggestions.                                                            *)
(***************************************************************************)

\* Mutant of Pending: the look-up forgets the fork's pending suggestions.
PendingNever(f) == {}

\* _get_pending_for_fork
Pending(f) == {s \in Suggestion : sug[s].fork = f /\ sug[s].status = "pending"}

\* suggest_from_fork up to its write: the saved source of the fork, and the
\* pending row to refresh (LIMIT 1) or the row to insert.  The ORM writes
\* nothing when the row already has that text.
SuggestRead(k, u) ==
    \E f \in Reached(u), s \in Suggestion :
        /\ call[k] = Idle
        /\ IF Pending(f) = {} THEN sug[s].status = "none" /\ Fresh(s)
             ELSE s \in Pending(f) /\ sug[s].text # fork[f].text
        /\ call' = [call EXCEPT ![k] =
                      [Idle EXCEPT !.op = "suggest", !.phase = "read",
                           !.fork = f, !.sug = s, !.text = fork[f].text]]
        /\ UNCHANGED <<fork, sug, blocks, disk, spent>>

\* Mutant of Refreshed: the refresh puts the row up for review again.
RefreshedPending(row, text) == [row EXCEPT !.text = text, !.status = "pending"]

\* The snapshot is updated in place, whatever has become of the row since.
Refreshed(row, text) == [row EXCEPT !.text = text]

\* Mutant of KeysHold: no foreign key on fork_id.
KeysHoldAlways(f) == TRUE

\* fork_id references topic_forks.
KeysHold(f) == fork[f].state = "live"

SuggestWrite(k) ==
    LET c == call[k]
        new == [status |-> "pending", fork |-> c.fork, text |-> c.text]
    IN  /\ c.op = "suggest"
        /\ \/ /\ sug[c.sug].status # "none"
              /\ sug' = [sug EXCEPT ![c.sug] = Refreshed(@, c.text)]
           \/ /\ sug[c.sug].status = "none" /\ KeysHold(c.fork)
              /\ sug' = [sug EXCEPT ![c.sug] = new]
        /\ End(k)
        /\ UNCHANGED <<fork, blocks, disk, spent>>

-----------------------------------------------------------------------------
(***************************************************************************)
(* Review.                                                                 *)
(***************************************************************************)

\* Mutant of Proposed: the fork as it is now, not the snapshot.
ProposedLive(s) == fork[sug[s].fork].text

Proposed(s) == sug[s].text

\* accept() and reject(): 409 unless the row is pending when it is read.
ReviewRead(k, s, op) ==
    /\ call[k] = Idle /\ sug[s].status = "pending"
    /\ call' = [call EXCEPT ![k] =
                  [Idle EXCEPT !.op = op, !.phase = "read",
                               !.sug = s, !.text = Proposed(s)]]
    /\ UNCHANGED <<fork, sug, blocks, disk, spent>>

\* apply_markdown_to_topic: its DELETE starts and sees the committed rows.
AcceptDelete(k) ==
    /\ call[k].op = "accept" /\ call[k].phase = "read"
    /\ call' = [call EXCEPT ![k].phase = "deleting", ![k].seen = blocks]
    /\ UNCHANGED <<fork, sug, blocks, disk, spent>>

\* Mutant of Holds: a transaction that waits for a row holds the others.
HoldsWaiting(k, batches) ==
    call[k].phase \in {"deleting", "applied"} /\ call[k].seen \cap batches # {}

\* Request k has deleted some of these rows and not committed.
Holds(k, batches) ==
    call[k].phase = "applied" /\ call[k].seen \cap batches # {}

\* Mutants of SourceWritten: the fork's own text; the batch and not its text.
SourceWrittenLive(c) == fork[sug[c.sug].fork].text
SourceWrittenBatch(c) == [text |-> c.text]

SourceWritten(c) == c.text

\* The DELETE ends, the new rows are inserted, and write_topic_source
\* replaces content.md at once, ahead of the commit.
AcceptApply(k) ==
    /\ call[k].phase = "deleting"
    /\ \A j \in Conn \ {k} : ~Holds(j, call[k].seen)
    /\ call' = [call EXCEPT ![k].phase = "applied"]
    /\ disk' = SourceWritten(call[k])
    /\ UNCHANGED <<fork, sug, blocks, spent>>

\* write_text raises, having opened the file or not: nothing catches it and
\* the transaction is rolled back.
AcceptUnwritten(k) ==
    /\ CanSpend("fault") /\ Spend("fault")
    /\ call[k].phase = "deleting"
    /\ \A j \in Conn \ {k} : ~Holds(j, call[k].seen)
    /\ disk' \in {disk, Torn}
    /\ End(k)
    /\ UNCHANGED <<fork, sug, blocks>>

Resolved(s, status) == sug' = [sug EXCEPT ![s].status = status]

AcceptCommit(k) ==
    LET c == call[k]
    IN  /\ c.phase = "applied"
        /\ blocks' = (blocks \ c.seen) \cup
                        {[by |-> k, sug |-> c.sug, text |-> c.text]}
        /\ Resolved(c.sug, "accepted")
        /\ End(k)
        /\ UNCHANGED <<fork, disk, spent>>

RejectCommit(k) ==
    /\ call[k].op = "reject"
    /\ Resolved(call[k].sug, "rejected")
    /\ End(k)
    /\ UNCHANGED <<fork, blocks, disk, spent>>

-----------------------------------------------------------------------------
\* The suggestion's insert finds its fork gone: a 500.
SuggestRefused(k) ==
    /\ call[k].op = "suggest"
    /\ sug[call[k].sug].status = "none" /\ ~KeysHold(call[k].fork)
    /\ End(k)
    /\ UNCHANGED <<fork, sug, blocks, disk, spent>>

\* A handler raises or its connection drops: get_db rolls back, and what was
\* written to content.md stays there.
Abort(k) ==
    /\ CanSpend("fault") /\ Spend("fault")
    /\ call[k] # Idle
    /\ End(k)
    /\ UNCHANGED <<fork, sug, blocks, disk>>

(***************************************************************************)
(* The server stops, wherever its requests are, and boots.  The import     *)
(* skips a topic that has content, unless it is told to refresh; on an     *)
(* ephemeral disk the image's files are back.                              *)
(***************************************************************************)
Restart ==
    /\ CanSpend("restart") /\ Spend("restart")
    /\ call' = [k \in Conn |-> Idle]
    /\ disk' = IF DiskDurable THEN disk ELSE Shipped
    /\ blocks' = IF RefreshOnBoot THEN Imported(disk') ELSE blocks
    /\ UNCHANGED <<fork, sug>>

-----------------------------------------------------------------------------
Draft == Text \ {Torn}

Owner(u) ==
    \/ \E text \in Draft : Save(u, text)
    \/ Delete(u)

Start(k) ==
    \/ \E f \in Fork : ForkRead(k, f)
    \/ \E u \in Author : SuggestRead(k, u)
    \/ \E s \in Suggestion : ReviewRead(k, s, "accept") \/ ReviewRead(k, s, "reject")

Serve(k) ==
    \/ ForkInsert(k) \/ SuggestWrite(k)
    \/ AcceptDelete(k) \/ AcceptApply(k) \/ AcceptCommit(k)
    \/ RejectCommit(k) \/ SuggestRefused(k)

Next ==
    \/ \E u \in Author : Owner(u)
    \/ \E k \in Conn : Start(k) \/ Serve(k) \/ AcceptUnwritten(k) \/ Abort(k)
    \/ Restart

Spec == Init /\ [][Next]_vars

\* The event loop goes on with every request, and PostgreSQL hands a row to
\* one of those that wait for it.
FairSpec == Spec /\ \A k \in Conn : WF_vars(Serve(k))
-----------------------------------------------------------------------------
(***************************************************************************)
(* Properties.                                                             *)
(***************************************************************************)

(***************************************************************************)
(* Requests taken one at a time serve the board of docs/forks.md: the      *)
(* snapshot a reviewer accepts is what the topic becomes, in the step that *)
(* resolves the suggestion, though handlers read, write the file and       *)
(* commit in separate steps, fail between them, and the fork goes on being *)
(* edited and forked again.                                                *)
(***************************************************************************)
Master == CHOOSE text \in Text : \E b \in blocks : b.text = text

Board == INSTANCE ReviewBoard
    WITH Proposal <- Suggestion, master <- Master,
         proposal <- [s \in Suggestion |->
                        [status |-> sug[s].status, text |-> sug[s].text]]

ServesTheBoard == Board!Spec

(***************************************************************************)
(* "One pending suggestion per fork" (models/merge_back.py), over every    *)
(* order of suggestions, reviews and failures: while requests are taken    *)
(* one at a time.                                                          *)
(***************************************************************************)
OnePending ==
    \A s, t \in Suggestion :
        /\ sug[s].status = "pending" /\ sug[t].status = "pending"
        /\ sug[s].fork = sug[t].fork
        => s = t

(***************************************************************************)
(* "One fork per (user, topic)" (models/fork.py), and with it the editor   *)
(* that get_fork opens: while requests are taken one at a time.            *)
(***************************************************************************)
OneFork == \A u \in Author : Cardinality(Mine(u)) <= 1

(***************************************************************************)
(* The 409 of accept() and reject(): a suggestion that was resolved is     *)
(* never up for review again, whatever the owner's and the reviewers'      *)
(* requests read before it was.                                            *)
(***************************************************************************)
Closed(s) == sug[s].status \in {"accepted", "rejected"}

Settled == [][\A s \in Suggestion : Closed(s) => Closed(s)']_vars

(***************************************************************************)
(* The review queue joins no fork and shows what it has: a suggestion's    *)
(* fork is there, though its owner may delete it while a request that will *)
(* insert the suggestion is under way.                                     *)
(***************************************************************************)
NoOrphan ==
    \A s \in Suggestion :
        sug[s].status # "none" => fork[sug[s].fork].state = "live"

(***************************************************************************)
(* content.md is "kept honest" (merge_service.py): outside the window      *)
(* between its writing and the commit it is the source of rows readers     *)
(* see, with two accepts that overlap and a stop inside the window too, if *)
(* the boot refreshes.                                                     *)
(***************************************************************************)
DiskIsShown ==
    (\A k \in Conn : call[k].phase # "applied") =>
        \E b \in blocks : b.text = disk

(***************************************************************************)
(* Accepts that wait for one another's rows do end: nobody is left in a    *)
(* cycle of waits.                                                         *)
(***************************************************************************)
RequestsEnd == \A k \in Conn : call[k] # Idle ~> call[k] = Idle

(***************************************************************************)
(* apply_markdown_to_topic "replace[s] a topic's content blocks +          *)
(* misconceptions atomically": what readers see comes from one source.     *)
(***************************************************************************)
OneSource == Cardinality(blocks) = 1

(***************************************************************************)
(* "a DB-only update is durable" (merge_service.py): once suggestions have *)
(* been accepted, readers see one of those.                                *)
(***************************************************************************)
MergedIsShown ==
    (\E s \in Suggestion : sug[s].status = "accepted") =>
        \E s \in Suggestion, b \in blocks :
            sug[s].status = "accepted" /\ b.text = sug[s].text
=============================================================================
