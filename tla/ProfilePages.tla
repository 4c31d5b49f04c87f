---------------------------- MODULE ProfilePages ----------------------------
(***************************************************************************)
(* The pages of one person: a fork (ForkView.tsx), the list of the forks   *)
(* (UserForks.tsx) and the snapshot of the progress (UserGraph.tsx).  All  *)
(* three load on the name in the URL, which may be the alias `me`, and     *)
(* only the snapshot cancels the load before.                              *)
(***************************************************************************)
EXTENDS Naturals, FiniteSets

CONSTANTS
    Person,      \* display names
    Me,          \* the alias
    NoPerson,
    Title,       \* topics that are forked
    MaxTurns    \* bound: navigations and loads

ASSUME ProfileAssumption ==
    /\ Me # NoPerson /\ {Me, NoPerson} \cap Person = {}
    /\ MaxTurns \in Nat

VARIABLES
    at,        \* the page: "fork", "list", "graph", or "left"
    addr,      \* the name in the URL
    viewer,    \* authStore.user
    sheet,      \* what the page shows: whose, which forks, loading, error
    calls,     \* requests not answered; live: not cancelled
    kept,      \* the server's forks
    turns

profileVars == <<at, addr, viewer, sheet, calls, kept, turns>>

Names == Person \cup {Me}
NoView == [of |-> NoPerson, items |-> {}, loading |-> TRUE, error |-> FALSE]
Kinds == {"fork", "list", "graph", "delete"}

ProfileTypeOK ==
    /\ at \in {"fork", "list", "graph", "left"}
    /\ addr \in Names
    /\ viewer \in Person \cup {NoPerson}
    /\ sheet \in [of : Names \cup {NoPerson}, items : SUBSET Title,
                 loading : BOOLEAN, error : BOOLEAN]
    /\ calls \subseteq [n : 1 .. MaxTurns, kind : Kinds, of : Names,
                        title : Title \cup {NoPerson}, live : BOOLEAN]
    /\ kept \in [Person -> SUBSET Title]
    /\ turns \in 0 .. MaxTurns

-----------------------------------------------------------------------------
\* effectiveUsername; the snapshot has no use for it.
Effective(a) == IF a = Me THEN viewer ELSE a
ViewingSelf == addr = Me \/ addr = viewer

\* Mutant of Cancelled: the effect returns no cleanup.
CancelledNot(c) == c

Cancelled(c) == [c EXCEPT !.live = FALSE]

Call(kind, of, title) ==
    [n |-> turns + 1, kind |-> kind, of |-> of, title |-> title, live |-> TRUE]

\* The effects on the name.  `before` is what the page shows when it stays
\* mounted; its requests go on, those of the snapshot cancelled.
OpenFork(a, before, open) ==
    /\ sheet' = [before EXCEPT !.loading = TRUE, !.error = FALSE]
    /\ calls' = open \cup {Call("fork", a, NoPerson)}

OpenList(a, before, open) ==
    IF Effective(a) = NoPerson
    THEN sheet' = [before EXCEPT !.loading = FALSE, !.error = TRUE] /\ calls' = open
    ELSE /\ sheet' = [before EXCEPT !.loading = TRUE, !.error = FALSE]
         /\ calls' = open \cup {Call("list", Effective(a), NoPerson)}

\* The reader's own snapshot is made of the store; the error stays.
OpenGraph(a, before, open) ==
    LET cut == {Cancelled(c) : c \in open}
    IN  IF a = Me
        THEN sheet' = [before EXCEPT !.of = Me, !.loading = FALSE] /\ calls' = cut
        ELSE sheet' = before /\ calls' = cut \cup {Call("graph", a, NoPerson)}

Opens(page, a, before, open) ==
    CASE page = "fork" -> OpenFork(a, before, open)
      [] page = "list" -> OpenList(a, before, open)
      [] page = "graph" -> OpenGraph(a, before, open)

\* Another page mounts afresh, and nothing hears the calls of the last one.
\* /u/me/topic is sent on to the reader's name, or away from the page.
VisitPage(page, a) ==
    /\ turns < MaxTurns /\ <<page, a>> # <<at, addr>>
    /\ turns' = turns + 1
    /\ IF page = "fork" /\ Effective(a) = NoPerson
       THEN at' = "left" /\ sheet' = NoView /\ calls' = {} /\ UNCHANGED addr
       ELSE /\ at' = page
            /\ addr' = IF page = "fork" THEN Effective(a) ELSE a
            /\ IF page = at THEN Opens(page, addr', sheet, calls)
               ELSE Opens(page, addr', NoView, {})
    /\ UNCHANGED <<viewer, kept>>

\* The list is loaded again under another effective name or another self;
\* the fork page redirects only from the alias.
SignAs(who) ==
    /\ turns < MaxTurns /\ who # viewer
    /\ turns' = turns + 1
    /\ viewer' = who
    /\ IF at # "list" \/ (addr # Me /\ addr \notin {who, viewer}) THEN UNCHANGED <<sheet, calls>>
       ELSE LET name == IF addr = Me THEN who ELSE addr
            IN  IF name = NoPerson
                THEN sheet' = [sheet EXCEPT !.loading = FALSE, !.error = TRUE] /\ UNCHANGED calls
                ELSE /\ sheet' = [sheet EXCEPT !.loading = TRUE, !.error = FALSE]
                     /\ calls' = calls \cup {Call("list", name, NoPerson)}
    /\ UNCHANGED <<at, addr, kept>>

-----------------------------------------------------------------------------
\* Any answer of a fork or of a list is shown, and ends the loading.
ForkAnswers(c) ==
    /\ c \in calls /\ c.kind = "fork"
    /\ calls' = calls \ {c}
    /\ sheet' = [sheet EXCEPT !.of = c.of, !.loading = FALSE]
    /\ UNCHANGED <<at, addr, viewer, kept, turns>>

ListAnswers(c) ==
    /\ c \in calls /\ c.kind = "list"
    /\ calls' = calls \ {c}
    /\ sheet' = [sheet EXCEPT !.of = c.of, !.items = kept[c.of], !.loading = FALSE]
    /\ UNCHANGED <<at, addr, viewer, kept, turns>>

PersonFails(c) ==
    /\ c \in calls /\ c.kind \in {"fork", "list"}
    /\ calls' = calls \ {c}
    /\ sheet' = [sheet EXCEPT !.error = TRUE, !.loading = FALSE]
    /\ UNCHANGED <<at, addr, viewer, kept, turns>>

SnapshotAnswers(c) ==
    /\ c \in calls /\ c.kind = "graph"
    /\ calls' = calls \ {c}
    /\ sheet' = IF c.live THEN [sheet EXCEPT !.of = c.of, !.loading = FALSE] ELSE sheet
    /\ UNCHANGED <<at, addr, viewer, kept, turns>>

\* An HTTP error counts even of a load that was cancelled; a network error
\* does not.
SnapshotFails(c) ==
    /\ c \in calls /\ c.kind = "graph"
    /\ calls' = calls \ {c}
    /\ \E http \in BOOLEAN :
         sheet' = IF http \/ c.live THEN [sheet EXCEPT !.error = TRUE, !.loading = FALSE]
                  ELSE sheet
    /\ UNCHANGED <<at, addr, viewer, kept, turns>>

\* The buttons of the list, shown under `viewingSelf`; the fork that is
\* deleted is that of the effective name.
DeleteFork(t) ==
    /\ at = "list" /\ ViewingSelf /\ ~sheet.loading /\ t \in sheet.items
    /\ Effective(addr) # NoPerson /\ turns < MaxTurns
    /\ turns' = turns + 1
    /\ calls' = calls \cup {Call("delete", Effective(addr), t)}
    /\ UNCHANGED <<at, addr, viewer, sheet, kept>>

DeleteAnswers(c) ==
    /\ c \in calls /\ c.kind = "delete"
    /\ calls' = calls \ {c}
    /\ IF c.title \in kept[c.of]
       THEN /\ kept' = [kept EXCEPT ![c.of] = @ \ {c.title}]
            /\ sheet' = [sheet EXCEPT !.items = @ \ {c.title}]
       ELSE sheet' = [sheet EXCEPT !.error = TRUE] /\ UNCHANGED kept
    /\ UNCHANGED <<at, addr, viewer, turns>>

\* Whether the page shows the fork's Edit link, and the page's gate.
IsOwner == at = "fork" /\ viewer # NoPerson /\ sheet.of = viewer
ForkShown == at = "fork" /\ ~sheet.loading /\ ~sheet.error /\ sheet.of # NoPerson

ProfileInit ==
    /\ at = "left" /\ addr = Me /\ sheet = NoView /\ calls = {}
    /\ viewer \in Person \cup {NoPerson}
    /\ kept \in [Person -> SUBSET Title]
    /\ turns = 0

ProfileReplies == \E c \in calls :
    ForkAnswers(c) \/ ListAnswers(c) \/ PersonFails(c)
    \/ SnapshotAnswers(c) \/ SnapshotFails(c) \/ DeleteAnswers(c)

ProfileNext ==
    \/ \E page \in {"fork", "list", "graph"}, a \in Names : VisitPage(page, a)
    \/ \E who \in Person \cup {NoPerson} : SignAs(who)
    \/ \E t \in Title : DeleteFork(t)
    \/ ProfileReplies

ProfileSpec == ProfileInit /\ [][ProfileNext]_profileVars /\ WF_profileVars(ProfileReplies)

-----------------------------------------------------------------------------
\* The snapshot page, unless it shows an error, is of the person in the URL
\* as soon as that person's answer is in: no answer to a name it has left
\* comes after it.
SnapshotIsOfAddress ==
    at = "graph" /\ ~sheet.error /\ {c \in calls : c.live} = {} => sheet.of = addr

\* A fork or a list is loading.
ProfileWaits == at \in {"fork", "list"} /\ sheet.loading
=============================================================================
