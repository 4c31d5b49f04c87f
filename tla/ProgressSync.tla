---------------------------- MODULE ProgressSync ----------------------------
(***************************************************************************)
(* Progress sync: browsers that edit topics locally and mirror them to one *)
(* server row per (account, topic), last write wins.                       *)
(*                                                                         *)
(* A device is one browser profile with one open page: the persisted store *)
(* (progressStore.ts), the page's module state (syncOrchestrator.ts) and   *)
(* the requests it has in flight.  The server is progress.py: a request is *)
(* one transaction, begun when it reads its rows and ended by the commit   *)
(* that get_db makes after the handler.                                    *)
(*                                                                         *)
(* A topic's slice (status, decisions, schedule, flags) is a function from *)
(* the columns of a row to values; Blank is the slice buildTopicUpsert     *)
(* finds nothing in.  An entry is a slice with the time it carries:        *)
(* topicUpdatedAt on a device, updated_at in a row, client_updated_at in a *)
(* payload.  Time 0 is "no such topic", as in `topicUpdatedAt[slug] ?? 0`. *)
(***************************************************************************)
EXTENDS Naturals, FiniteSets

CONSTANTS
    Device,        \* browser profiles
    Conn,          \* requests that can be outstanding at once ...
    Owner,         \* ... and the device each belongs to
    Topic,         \* slugs the devices know
    Known,         \* the slugs that have a row in the server's topics table
    Account, NoAccount,
    Field,         \* columns of a row that hold progress
    Value, Nil,    \* what a column may hold, and its empty value
    Skew,          \* how far a device's clock runs ahead of the server's
    Resolution,    \* tick of the database clock, in model milliseconds
    StampAtBegin,  \* TRUE: now() is the transaction's start (PostgreSQL);
                   \* FALSE: the time of the statement (SQLite)
    MaxOpen,       \* transactions the server has open at once
    Cooldown,      \* FOCUS_PULL_COOLDOWN_MS
    MaxTime,       \* bound on the clock
    Limit          \* bounds on what the environment does, by kind

Budget == {"edit", "fault", "reload", "logout"}

ASSUME ConstantsAssumption ==
    /\ Owner \in [Conn -> Device]
    /\ Known \subseteq Topic
    /\ NoAccount \notin Account
    /\ Nil \in Value
    /\ Skew \in [Device -> Nat]
    /\ Resolution \in Nat \ {0}
    /\ StampAtBegin \in BOOLEAN
    /\ MaxOpen \in Nat /\ Cooldown \in Nat /\ MaxTime \in Nat
    /\ Limit \in [Budget -> Nat]

Slice == [Field -> Value]
Blank == [f \in Field |-> Nil]
Entry == [slice : Slice, at : Nat]
Absent == [slice |-> Blank, at |-> 0]
Bundle == [Topic -> Entry]
Nothing == [t \in Topic |-> Absent]
Present(e) == e.at > 0
\* The topics a bundle, or the body of a request, is about.
Carried(b) == {t \in Topic : Present(b[t])}

VARIABLES
    now,       \* the server's clock
    local,     \* local[d][t]: the persisted slice with its topicUpdatedAt
    token,     \* token[d]: the account d is signed in to
    dirty,     \* dirty[d]: dirtySlugs
    timer,     \* timer[d]: pushTimer is armed
    lastPull,  \* lastPull[d]: lastPullAt
    call,      \* call[k]: the async function that waits on connection k
    row,       \* row[a][t]: committed user_progress rows
    spent      \* how much of Limit is used

clientVars == <<local, token, dirty, timer, lastPull>>
vars == <<now, clientVars, call, row, spent>>

Kind == {"idle", "push", "pull", "login", "orphan"}
Phase == {"none", "sent", "open", "answered", "failed"}
CallState ==
    [kind  : Kind,                   \* flushPush, pullProgress, onLogin;
                                     \* orphan: its page was unloaded
     phase : Phase,                  \* where its request is
     auth  : Account \cup {NoAccount}, \* the token the request carries
     todo  : SUBSET Topic,           \* slugs flushPush has still to send
     body  : Bundle,                 \* payloads, client_updated_at inside
     data  : Bundle,                 \* open: rows as read; answered: reply
     begun : Nat]                    \* open: when the transaction began

Idle == [kind |-> "idle", phase |-> "none", auth |-> NoAccount,
         todo |-> {}, body |-> Nothing, data |-> Nothing, begun |-> 0]

Clock(d) == now + Skew[d]
CanSpend(what) == spent[what] < Limit[what]
Spend(what) == spent' = [spent EXCEPT ![what] = @ + 1]

TypeOK ==
    /\ now \in Nat
    /\ local \in [Device -> Bundle]
    /\ token \in [Device -> Account \cup {NoAccount}]
    /\ dirty \in [Device -> SUBSET Topic]
    /\ timer \in [Device -> BOOLEAN]
    /\ lastPull \in [Device -> Nat]
    /\ call \in [Conn -> CallState]
    /\ row \in [Account -> Bundle]
    /\ spent \in [Budget -> Nat]

Init ==
    /\ now = Resolution
    /\ local = [d \in Device |-> Nothing]
    /\ token = [d \in Device |-> NoAccount]
    /\ dirty = [d \in Device |-> {}]
    /\ timer = [d \in Device |-> FALSE]
    /\ lastPull = [d \in Device |-> 0]
    /\ call = [k \in Conn |-> Idle]
    /\ row = [a \in Account |-> Nothing]
    /\ spent = [b \in Budget |-> 0]

-----------------------------------------------------------------------------
(***************************************************************************)
(* The page.                                                               *)
(***************************************************************************)

\* What a request looks like when fetch() is called.
Request(d, kind, todo, body) ==
    [Idle EXCEPT !.kind = kind, !.phase = "sent", !.auth = token[d],
                 !.todo = todo, !.body = body]

(***************************************************************************)
(* zustand runs the progress subscription inside every set(): topics whose *)
(* stamp moved become dirty, and anything dirty arms the timer if there is *)
(* a token.  Its snapshot lastTopicUpdatedAt is therefore the stamps the   *)
(* previous set() left, that is local's before the step.                   *)
(***************************************************************************)
Moved(old, new) == {t \in Topic : new[t].at # old[t].at}

\* Mutant of Stored: the timer is armed only when this set() moved a topic.
StoredIfMoved(d, new) ==
    /\ local' = [local EXCEPT ![d] = new]
    /\ dirty' = [dirty EXCEPT ![d] = @ \cup Moved(local[d], new)]
    /\ timer' = [timer EXCEPT ![d] =
                    @ \/ (Moved(local[d], new) # {} /\ token[d] # NoAccount)]

Stored(d, new) ==
    /\ local' = [local EXCEPT ![d] = new]
    /\ dirty' = [dirty EXCEPT ![d] = @ \cup Moved(local[d], new)]
    /\ timer' = [timer EXCEPT ![d] =
                    \/ @
                    \/ /\ dirty[d] \cup Moved(local[d], new) # {}
                       /\ token[d] # NoAccount]

(***************************************************************************)
(* A setter of the store: some content for the topic, stamped with the     *)
(* device's clock (bumpTopic).  One click may run several setters in a     *)
(* millisecond (DecisionBlock), the first making the topic dirty; a click  *)
(* is taken never to fall in the millisecond of a stamp that was pulled or *)
(* pushed before it, which the debounce and a round trip keep apart.       *)
(***************************************************************************)
EditAt(d) == Clock(d)

Edit(d, t, s) ==
    /\ CanSpend("edit")
    /\ EditAt(d) # local[d][t].at \/ t \in dirty[d]
    /\ Stored(d, [local[d] EXCEPT ![t] = [slice |-> s, at |-> EditAt(d)]])
    /\ Spend("edit")
    /\ UNCHANGED <<now, token, lastPull, call, row>>

\* A set() that touches no topic (setPreferredCodeLang): the subscription
\* still arms the timer when an earlier push left something dirty.
PreferLang(d) ==
    /\ dirty[d] # {} /\ token[d] # NoAccount /\ ~timer[d]
    /\ timer' = [timer EXCEPT ![d] = TRUE]
    /\ UNCHANGED <<now, local, token, dirty, lastPull, call, row, spent>>

\* buildTopicUpsert: null for a topic with no content.
Payload(e) == IF e.slice = Blank THEN Absent ELSE e

\* flushPush goes on with the slugs in `todo`, in the order of the dirty set:
\* blank ones it comes to are skipped, the first other one is sent.
Continue(k, todo) ==
    LET d == Owner[k]
        blank == {t \in todo : local[d][t].slice = Blank}
    IN  \/ /\ todo = blank
           /\ call' = [call EXCEPT ![k] = Idle]
        \/ \E t \in todo \ blank, skipped \in SUBSET blank :
              call' = [call EXCEPT ![k] =
                         Request(d, "push", todo \ (skipped \cup {t}),
                                 [Nothing EXCEPT ![t] = Payload(local[d][t])])]

\* The debounce timer fires: flushPush takes every dirty slug.
FirePush(k) ==
    LET d == Owner[k]
    IN  /\ timer[d] /\ token[d] # NoAccount
        /\ call[k] = Idle
        /\ timer' = [timer EXCEPT ![d] = FALSE]
        /\ dirty' = [dirty EXCEPT ![d] = {}]
        /\ Continue(k, dirty[d])
        /\ UNCHANGED <<now, local, token, lastPull, row, spent>>

\* A PUT of flushPush was answered; the response is dropped.
PutDone(k) ==
    /\ call[k].kind = "push" /\ call[k].phase = "answered"
    /\ Continue(k, call[k].todo)
    /\ UNCHANGED <<now, clientVars, row, spent>>

\* Mutants of Requeued: the slug is dropped; the payload is requeued.
RequeuedNever(k) == dirty[Owner[k]]
RequeuedBody(k) == dirty[Owner[k]] \cup {call[k].body}

\* A PUT failed: the slug is dirty again, but no timer is armed.
Requeued(k) == dirty[Owner[k]] \cup Carried(call[k].body)

PutFailed(k) ==
    /\ call[k].kind = "push" /\ call[k].phase = "failed"
    /\ dirty' = [dirty EXCEPT ![Owner[k]] = Requeued(k)]
    /\ Continue(k, call[k].todo)
    /\ UNCHANGED <<now, local, token, timer, lastPull, row, spent>>

\* Mutant of LocalWins: what the server sends replaces what is here.
LocalWinsNever(mine, theirs) == FALSE

\* syncFromServer: per topic, local wins only with a later stamp.
LocalWins(mine, theirs) == mine.at > theirs.at

\* Mutants of Merge: the store becomes the server's list; what is here stays.
MergeReplaces(mine, theirs) == [t \in Topic |-> theirs[t]]
MergeKeeps(mine, theirs) ==
    [t \in Topic |-> IF Present(mine[t]) THEN mine[t] ELSE theirs[t]]

Merge(mine, theirs) ==
    [t \in Topic |->
        IF ~Present(theirs[t]) \/ LocalWins(mine[t], theirs[t])
          THEN mine[t] ELSE theirs[t]]

\* pullProgress on connection k, up to its await.
Pull(k) ==
    /\ call' = [call EXCEPT ![k] = Request(Owner[k], "pull", {}, Nothing)]
    /\ lastPull' = [lastPull EXCEPT ![Owner[k]] = Clock(Owner[k])]

\* The window regains focus.
Focus(k) ==
    LET d == Owner[k]
    IN  /\ token[d] # NoAccount /\ call[k] = Idle
        /\ lastPull[d] = 0 \/ Clock(d) - lastPull[d] >= Cooldown
        /\ Pull(k)
        /\ UNCHANGED <<now, local, token, dirty, timer, row, spent>>

PullDone(k) ==
    LET d == Owner[k]
    IN  /\ call[k].kind = "pull" /\ call[k].phase = "answered"
        /\ Stored(d, Merge(local[d], call[k].data))
        /\ call' = [call EXCEPT ![k] = Idle]
        /\ UNCHANGED <<now, token, lastPull, row, spent>>

PullFailed(k) ==
    /\ call[k].kind = "pull" /\ call[k].phase = "failed"
    /\ call' = [call EXCEPT ![k] = Idle]
    /\ UNCHANGED <<now, clientVars, row, spent>>

\* A token appears: onLogin pushes everything that has content, or pulls.
LoginBody(d) == [t \in Topic |-> Payload(local[d][t])]

Login(k, a) ==
    LET d == Owner[k]
        request(kind) == [Request(d, kind, {}, LoginBody(d)) EXCEPT !.auth = a]
    IN  /\ token[d] = NoAccount /\ call[k] = Idle
        /\ token' = [token EXCEPT ![d] = a]
        /\ IF Carried(LoginBody(d)) # {}
             THEN /\ call' = [call EXCEPT ![k] = request("login")]
                  /\ UNCHANGED lastPull
             ELSE /\ call' = [call EXCEPT ![k] = request("pull")]
                  /\ lastPull' = [lastPull EXCEPT ![d] = Clock(d)]
        /\ UNCHANGED <<now, local, dirty, timer, row, spent>>

LoginDone(k) ==
    LET d == Owner[k]
    IN  /\ call[k].kind = "login" /\ call[k].phase = "answered"
        /\ Stored(d, Merge(local[d], call[k].data))
        /\ lastPull' = [lastPull EXCEPT ![d] = Clock(d)]
        /\ call' = [call EXCEPT ![k] = Idle]
        /\ UNCHANGED <<now, token, row, spent>>

\* The batch failed: fall back to a pull, which needs a token.
LoginFailed(k) ==
    LET d == Owner[k]
    IN  /\ call[k].kind = "login" /\ call[k].phase = "failed"
        /\ IF token[d] = NoAccount
             THEN /\ call' = [call EXCEPT ![k] = Idle]
                  /\ UNCHANGED lastPull
             ELSE Pull(k)
        /\ UNCHANGED <<now, local, token, dirty, timer, row, spent>>

\* logout(), or refreshUser() finding the session expired: the timer is
\* cancelled, the store and the dirty set stay.
Logout(d) ==
    /\ CanSpend("logout") /\ token[d] # NoAccount
    /\ token' = [token EXCEPT ![d] = NoAccount]
    /\ timer' = [timer EXCEPT ![d] = FALSE]
    /\ Spend("logout")
    /\ UNCHANGED <<now, local, dirty, lastPull, call, row>>

(***************************************************************************)
(* The page is reloaded or the browser restarted: module state is lost,    *)
(* the store and the token are read back from localStorage, and a boot     *)
(* pull starts if there is a token.  Requests already sent still reach the *)
(* server.                                                                 *)
(***************************************************************************)
Abandoned(c) ==
    IF c.kind \in {"push", "login", "orphan"} /\ c.phase \in {"sent", "open"}
      THEN [c EXCEPT !.kind = "orphan", !.todo = {}] ELSE Idle

Reload(d) ==
    LET left == [k \in Conn |-> IF Owner[k] = d THEN Abandoned(call[k])
                                ELSE call[k]]
    IN  /\ CanSpend("reload") /\ Spend("reload")
        /\ dirty' = [dirty EXCEPT ![d] = {}]
        /\ timer' = [timer EXCEPT ![d] = FALSE]
        /\ IF token[d] = NoAccount
             THEN /\ call' = left
                  /\ lastPull' = [lastPull EXCEPT ![d] = 0]
             ELSE \E k \in Conn :
                  /\ Owner[k] = d /\ left[k] = Idle
                  /\ call' = [left EXCEPT ![k] = Request(d, "pull", {}, Nothing)]
                  /\ lastPull' = [lastPull EXCEPT ![d] = Clock(d)]
        /\ UNCHANGED <<now, local, token, row>>

-----------------------------------------------------------------------------
(***************************************************************************)
(* The server and the network.                                             *)
(***************************************************************************)

Answer(c, reply) ==
    IF c.kind = "orphan" THEN Idle
      ELSE [c EXCEPT !.phase = "answered", !.data = reply, !.begun = 0]

Failure(c) ==
    IF c.kind = "orphan" THEN Idle
      ELSE [c EXCEPT !.phase = "failed", !.data = Nothing, !.begun = 0]

Writes(c) == c.kind \in {"push", "login", "orphan"}
Open == {k \in Conn : call[k].phase = "open"}

\* GET: one select.
ServeGet(k) ==
    /\ call[k].kind = "pull" /\ call[k].phase = "sent"
    /\ call[k].auth # NoAccount
    /\ call' = [call EXCEPT ![k] = Answer(call[k], row[call[k].auth])]
    /\ UNCHANGED <<now, clientVars, row, spent>>

\* 401 without a token, 404 for a slug with no topic: nothing is written,
\* not even the other topics of a batch.
Refuse(k) ==
    /\ call[k].phase = "sent"
    /\ call[k].auth = NoAccount \/ ~(Carried(call[k].body) \subseteq Known)
    /\ call' = [call EXCEPT ![k] = Failure(call[k])]
    /\ UNCHANGED <<now, clientVars, row, spent>>

\* PUT or batch: the transaction reads the rows the payloads are about.
Begin(k) ==
    /\ Writes(call[k]) /\ call[k].phase = "sent"
    /\ call[k].auth # NoAccount /\ Carried(call[k].body) \subseteq Known
    /\ Cardinality(Open) < MaxOpen
    /\ call' = [call EXCEPT ![k].phase = "open",
                            ![k].data = row[call[k].auth],
                            ![k].begun = now]
    /\ UNCHANGED <<now, clientVars, row, spent>>

\* Mutant of ServerWins: the comparison of stamps is dropped.
ServerWinsNever(seen, offer) == FALSE

ServerWins(seen, offer) == Present(seen) /\ offer.at < seen.at

\* func.now() as _row_to_out and _upsert_one read it back.
Truncate(n) == (n \div Resolution) * Resolution

\* Mutant of WriteTime: now() is the transaction's start.
WriteTimeAtBegin(c) == Truncate(c.begun)

WriteTime(c) == Truncate(IF StampAtBegin THEN c.begun ELSE now)

(***************************************************************************)
(* _upsert_one and the flush.  The ORM sends only the columns that differ  *)
(* from the row as read, and no UPDATE, hence no new updated_at, when none *)
(* does.                                                                   *)
(***************************************************************************)
Columns(seen, offer, current) ==
    [f \in Field |-> IF offer.slice[f] # seen.slice[f] THEN offer.slice[f]
                     ELSE current.slice[f]]

Upsert(seen, offer, current, time) ==
    IF ServerWins(seen, offer) \/ (Present(seen) /\ offer.slice = seen.slice)
      THEN current
      ELSE [slice |-> Columns(seen, offer, current), at |-> time]

\* The rows of call c's account after its commit.
Written(c) ==
    [t \in Topic |->
        IF Present(c.body[t])
          THEN Upsert(c.data[t], c.body[t], row[c.auth][t], WriteTime(c))
          ELSE row[c.auth][t]]

\* What the handler returns: the row it read if the server won, else the row
\* as refreshed; only the topics sent are in it.
Reply(c) ==
    [t \in Topic |->
        IF ~Present(c.body[t]) THEN Absent
        ELSE IF ServerWins(c.data[t], c.body[t]) THEN c.data[t]
        ELSE Written(c)[t]]

\* Another transaction inserted a row this one is about to insert.
Conflicts(c) ==
    \E t \in Carried(c.body) : ~Present(c.data[t]) /\ Present(row[c.auth][t])

\* Only onLogin looks at what a write returns.
Kept(c) == IF c.kind = "login" THEN Reply(c) ELSE Nothing

Commit(k) ==
    /\ call[k].phase = "open" /\ ~Conflicts(call[k])
    /\ row' = [row EXCEPT ![call[k].auth] = Written(call[k])]
    /\ call' = [call EXCEPT ![k] = Answer(call[k], Kept(call[k]))]
    /\ UNCHANGED <<now, clientVars, spent>>

\* UNIQUE (user_id, topic_id): the second insert is a 500 and rolls back.
Conflict(k) ==
    /\ call[k].phase = "open" /\ Conflicts(call[k])
    /\ call' = [call EXCEPT ![k] = Failure(call[k])]
    /\ UNCHANGED <<now, clientVars, row, spent>>

\* The request is lost, the server rolls back, or the answer is lost.
Lose(k) ==
    /\ CanSpend("fault") /\ call[k].phase \in {"sent", "open", "answered"}
    /\ call' = [call EXCEPT ![k] = Failure(call[k])]
    /\ Spend("fault")
    /\ UNCHANGED <<now, clientVars, row>>

Tick ==
    /\ now < MaxTime
    /\ now' = now + 1
    /\ UNCHANGED <<clientVars, call, row, spent>>

-----------------------------------------------------------------------------
User(d) ==
    \/ \E t \in Topic, s \in Slice : Edit(d, t, s)
    \/ PreferLang(d)
    \/ Logout(d)
    \/ Reload(d)

Page(k) ==
    \/ FirePush(k) \/ PutDone(k) \/ PutFailed(k)
    \/ PullDone(k) \/ PullFailed(k)
    \/ LoginDone(k) \/ LoginFailed(k)

Server(k) == ServeGet(k) \/ Refuse(k) \/ Begin(k) \/ Commit(k) \/ Conflict(k)

Next ==
    \/ Tick
    \/ \E d \in Device : User(d)
    \/ \E k \in Conn : Page(k) \/ Server(k) \/ Focus(k) \/ Lose(k)
    \/ \E k \in Conn, a \in Account : Login(k, a)

Spec == Init /\ [][Next]_vars

(***************************************************************************)
(* Promises settle and the server answers what reached it.  The debounce   *)
(* timer fires even when pulls keep the connection busy on and off (a      *)
(* browser would open another one), hence its strong fairness; and a       *)
(* reader who is signed in comes back to the tab again and again.  Nothing *)
(* obliges anyone to edit, sign in, sign out or reload.                    *)
(***************************************************************************)
Fairness ==
    \A k \in Conn :
        /\ WF_vars(Page(k) \/ Server(k))
        /\ SF_vars(FirePush(k)) /\ WF_vars(Focus(k))

FairSpec == Spec /\ Fairness
-----------------------------------------------------------------------------
(***************************************************************************)
(* Properties.                                                             *)
(***************************************************************************)

\* The slug is on its way: dirty, or in a running flushPush or onLogin.
Underway(d, t) ==
    \/ t \in dirty[d]
    \/ \E k \in Conn : /\ Owner[k] = d /\ call[k].kind \in {"push", "login"}
                       /\ t \in call[k].todo \cup Carried(call[k].body)

\* The row of account a has what d shows, or something later.
Mirrored(d, t, a) ==
    \/ row[a][t].slice = local[d][t].slice
    \/ row[a][t].at >= local[d][t].at

(***************************************************************************)
(* No edit is forgotten: what a device shows, and is not blank, has        *)
(* reached the account's row, lost to a later write there, or is still on  *)
(* its way.  It relates the dirty set, the loops that drain it, the        *)
(* requeue on failure and the conflict rule on the server.  For accounts   *)
(* that a device may be signed in to, while pages are not reloaded.        *)
(***************************************************************************)
NothingForgotten ==
    \A d \in Device, t \in Known, a \in Account :
        local[d][t].slice # Blank => Mirrored(d, t, a) \/ Underway(d, t)

(***************************************************************************)
(* "The whole row is the unit of upsert ... the server replaces"           *)
(* (models/progress.py): a row changes only to the slice of one request.   *)
(***************************************************************************)
RowIsOneOffer ==
    [][\A a \in Account, t \in Topic : row'[a][t] # row[a][t] =>
          \E k \in Conn : /\ call[k].phase = "open" /\ call[k].auth = a
                          /\ row'[a][t].slice = call[k].body[t].slice]_vars

(***************************************************************************)
(* With one transaction open at a time the API is the register of          *)
(* ProgressRegister: an offer takes effect at one instant, at most once,   *)
(* whole, and only over something no later (_upsert_one), though the       *)
(* handler reads the rows, decides and commits in separate steps, requests *)
(* are lost on either side of the commit, and a reloaded page leaves its   *)
(* own behind.  An offer waits from fetch() to the commit or the error.    *)
(***************************************************************************)
Offer(c) ==
    IF Writes(c) /\ c.phase \in {"sent", "open"}
      THEN [auth |-> c.auth, body |-> c.body]
      ELSE [auth |-> NoAccount, body |-> Nothing]

Register == INSTANCE ProgressRegister
    WITH Client <- Conn, clock <- now, offer <- [k \in Conn |-> Offer(call[k])]

ServesTheRegister == Register!Spec

(***************************************************************************)
(* updated_at never goes back, so a client that has seen a row never takes *)
(* a later state of it for an older one: with stamps taken by the          *)
(* statement, whatever transactions overlap.                               *)
(***************************************************************************)
RowsMoveForward ==
    [][\A a \in Account, t \in Topic : row'[a][t].at >= row[a][t].at]_vars

(***************************************************************************)
(* What a device shows is never replaced by something with an earlier      *)
(* stamp, whatever the order in which pulls, pushes, edits, logins and     *)
(* reloads interleave: a late answer cannot undo a newer one.              *)
(***************************************************************************)
StampMonotone ==
    [][\A d \in Device, t \in Topic : local'[d][t].at >= local[d][t].at]_vars

(***************************************************************************)
(* pullProgress's "the orchestrator's next push will overwrite the server" *)
(* (syncFromServer): when a pull keeps a newer local slice that the row    *)
(* does not have, the slug is on its way.                                  *)
(***************************************************************************)
KeptLocalIsPushed ==
    [][\A k \in Conn, t \in Topic :
          LET d == Owner[k]
          IN  /\ call[k].kind = "pull" /\ call[k].phase = "answered"
              /\ call'[k] = Idle /\ UNCHANGED spent
              /\ token[d] = call[k].auth /\ local[d][t].slice # Blank
              /\ Present(call[k].data[t])
              /\ LocalWins(local[d][t], call[k].data[t])
              /\ ~Mirrored(d, t, token[d])
              => Underway(d, t)']_vars

\* A signed-in device shows something its account's row should hear of.
Unheard(d, t) ==
    /\ token[d] # NoAccount /\ local[d][t].slice # Blank
    /\ ~Mirrored(d, t, token[d])

(***************************************************************************)
(* An edit made on a signed-in device reaches the row, or loses to a later *)
(* one there, through lost requests too: a failed push arms no timer, and  *)
(* is sent again because the next pull's set() does.                       *)
(***************************************************************************)
EditsReachTheRow ==
    \A d \in Device, t \in Known : Unheard(d, t) ~> ~Unheard(d, t)

(***************************************************************************)
(* Once edits stop, every signed-in device comes to show what its          *)
(* account's row has, for the topics it does not show as blank.            *)
(***************************************************************************)
DevicesConverge ==
    \A d \in Device, t \in Known :
        <>[](token[d] # NoAccount =>
                local[d][t].slice \in {Blank, row[token[d]][t].slice})
=============================================================================
