------------------------ MODULE ProgressSync_proofs ------------------------
(***************************************************************************)
(* Theorems about ProgressSync, for any devices, connections, accounts,    *)
(* topics, clock skews and limits.                                         *)
(***************************************************************************)
EXTENDS ProgressSync, TLAPS

-----------------------------------------------------------------------------
(***************************************************************************)
(* What the helpers return.                                                *)
(***************************************************************************)

LEMMA Blanks ==
    /\ Blank \in Slice /\ Absent \in Entry /\ Nothing \in Bundle
    /\ Idle \in CallState
  BY ConstantsAssumption
     DEF Blank, Slice, Absent, Entry, Nothing, Bundle, Idle, CallState, Kind, Phase

LEMMA RequestType ==
  ASSUME TypeOK, NEW d \in Device, NEW kind \in Kind,
         NEW todo \in SUBSET Topic, NEW body \in Bundle
  PROVE  /\ Request(d, kind, todo, body) \in CallState
         /\ Request(d, kind, todo, body).phase = "sent"
         /\ Request(d, kind, todo, body).data = Nothing
         /\ Request(d, kind, todo, body).begun = 0
  BY Blanks DEF TypeOK, Request, Idle, CallState, Kind, Phase

LEMMA PayloadType ==
  ASSUME NEW e \in Entry
  PROVE  Payload(e) \in Entry
  BY Blanks DEF Payload

LEMMA MergeType ==
  ASSUME NEW mine \in Bundle, NEW theirs \in Bundle
  PROVE  Merge(mine, theirs) \in Bundle
  BY DEF Merge, Bundle

LEMMA TruncateBounds ==
  ASSUME NEW n \in Nat
  PROVE  Truncate(n) \in Nat /\ Truncate(n) <= n
  BY ConstantsAssumption, SMTT(30) DEF Truncate

LEMMA TruncateMonotone ==
  ASSUME NEW m \in Nat, NEW n \in Nat, m <= n
  PROVE  Truncate(m) <= Truncate(n)
<1>. DEFINE p == m \div Resolution
            q == n \div Resolution
<1>1. /\ p \in Nat /\ q \in Nat /\ Resolution \in Nat \ {0}
      /\ p * Resolution <= m /\ n < q * Resolution + Resolution
  BY ConstantsAssumption, SMTT(30)
<1>. HIDE DEF p, q
<1>2. p * Resolution < (q + 1) * Resolution
  BY <1>1, SMT
<1>3. p <= q
  BY <1>1, <1>2, SMT
<1>4. p * Resolution <= q * Resolution
  BY <1>1, <1>3, SMT
<1>. QED
  BY <1>4 DEF Truncate, p, q

LEMMA StoredType ==
  ASSUME TypeOK, NEW d \in Device, NEW new \in Bundle, Stored(d, new)
  PROVE  /\ local' \in [Device -> Bundle]
         /\ dirty' \in [Device -> SUBSET Topic]
         /\ timer' \in [Device -> BOOLEAN]
<1>1. local' \in [Device -> Bundle]
  BY DEF TypeOK, Stored
<1>2. dirty' \in [Device -> SUBSET Topic]
  BY DEF TypeOK, Stored, Moved
<1>3. timer' \in [Device -> BOOLEAN]
  BY Zenon DEF TypeOK, Stored
<1>. QED
  BY <1>1, <1>2, <1>3

\* A running call that is no transaction: anything with no stamps in it.
Fresh(c) ==
    c \in CallState /\ c.phase # "open" /\ c.data = Nothing /\ c.begun = 0

LEMMA ContinueType ==
  ASSUME TypeOK, NEW k \in Conn, NEW todo \in SUBSET Topic, Continue(k, todo)
  PROVE  \E c \in CallState : Fresh(c) /\ call' = [call EXCEPT ![k] = c]
<1>. DEFINE d == Owner[k]
            blank == {t \in todo : local[d][t].slice = Blank}
<1>1. d \in Device /\ local[d] \in Bundle
  BY ConstantsAssumption DEF TypeOK
<1>2. CASE call' = [call EXCEPT ![k] = Idle]
  <2>1. Fresh(Idle)
    BY Blanks DEF Fresh, Idle
  <2>. QED
    BY <1>2, <2>1, Blanks
<1>3. ASSUME NEW t \in todo \ blank, NEW skipped \in SUBSET blank,
             call' = [call EXCEPT ![k] =
                        Request(d, "push", todo \ (skipped \cup {t}),
                                [Nothing EXCEPT ![t] = Payload(local[d][t])])]
      PROVE  \E c \in CallState : Fresh(c) /\ call' = [call EXCEPT ![k] = c]
  <2>1. [Nothing EXCEPT ![t] = Payload(local[d][t])] \in Bundle
    BY <1>1, Blanks, PayloadType DEF Bundle
  <2>. DEFINE c == Request(d, "push", todo \ (skipped \cup {t}),
                           [Nothing EXCEPT ![t] = Payload(local[d][t])])
  <2>2. c \in CallState /\ c.phase = "sent" /\ c.data = Nothing /\ c.begun = 0
    BY <1>1, <2>1, RequestType DEF Kind
  <2>. HIDE DEF c
  <2>3. call' = [call EXCEPT ![k] = c]
    BY <1>3 DEF c
  <2>. QED
    BY <2>2, <2>3 DEF Fresh
<1>. QED
  BY <1>2, <1>3 DEF Continue

LEMMA UpsertType ==
  ASSUME NEW seen \in Entry, NEW offer \in Entry, NEW current \in Entry,
         NEW time \in Nat
  PROVE  /\ Upsert(seen, offer, current, time) \in Entry
         /\ Upsert(seen, offer, current, time).at \in {current.at, time}
<1>1. Columns(seen, offer, current) \in Slice
  BY DEF Columns, Entry, Slice
<1>. QED
  BY <1>1 DEF Upsert, Entry

-----------------------------------------------------------------------------
(***************************************************************************)
(* The inductive invariant: types, and that no stamp is of the future.     *)
(* Rows carry stamps of the server's clock, a device those rows' stamps or *)
(* its own clock's; so a device's stamps are not ahead of its clock, and   *)
(* what it writes next is later than what it has.                          *)
(***************************************************************************)

CallsSound ==
    \A k \in Conn :
        /\ call[k].phase = "open" => Writes(call[k]) /\ call[k].auth \in Account
        /\ call[k].begun <= now
        /\ \A t \in Topic : call[k].data[t].at <= now

RowsPast == \A a \in Account, t \in Topic : row[a][t].at <= Truncate(now)

LocalPast == \A d \in Device, t \in Topic : local[d][t].at <= Clock(d)

Inv == TypeOK /\ CallsSound /\ RowsPast /\ LocalPast

\* What CallsSound asks of one call.
Sound(c) ==
    /\ c \in CallState
    /\ c.phase = "open" => Writes(c) /\ c.auth \in Account
    /\ c.begun <= now
    /\ \A t \in Topic : c.data[t].at <= now

LEMMA CallStep ==
  ASSUME Inv, NEW k \in Conn, NEW c, Sound(c),
         call' = [call EXCEPT ![k] = c], now' = now
  PROVE  call' \in [Conn -> CallState] /\ CallsSound'
<1>1. call' \in [Conn -> CallState]
  BY DEF Inv, TypeOK, Sound
<1>2. ASSUME NEW j \in Conn
      PROVE  /\ call'[j].phase = "open" =>
                   Writes(call'[j]) /\ call'[j].auth \in Account
             /\ call'[j].begun <= now
             /\ \A t \in Topic : call'[j].data[t].at <= now
  <2>1. CASE j = k
    <3>1. call'[j] = c
      BY <2>1 DEF Inv, TypeOK
    <3>. QED
      BY <3>1 DEF Sound
  <2>2. CASE j # k
    <3>1. call'[j] = call[j]
      BY <2>2 DEF Inv, TypeOK
    <3>. QED
      BY <3>1 DEF Inv, CallsSound
  <2>. QED
    BY <2>1, <2>2
<1>. QED
  BY <1>1, <1>2 DEF CallsSound, Writes

LEMMA FreshIsSound ==
  ASSUME Inv, NEW c, Fresh(c)
  PROVE  Sound(c)
<1>1. now \in Nat /\ \A t \in Topic : Nothing[t].at = 0
  BY DEF Inv, TypeOK, Nothing, Absent
<1>. QED
  BY <1>1 DEF Fresh, Sound

LEMMA RequestIsSound ==
  ASSUME Inv, NEW d \in Device, NEW kind \in Kind,
         NEW todo \in SUBSET Topic, NEW body \in Bundle
  PROVE  Fresh(Request(d, kind, todo, body)) /\ Sound(Request(d, kind, todo, body))
<1>1. Fresh(Request(d, kind, todo, body))
  BY RequestType DEF Inv, Fresh
<1>. QED
  BY <1>1, FreshIsSound

LEMMA IdleIsSound ==
  ASSUME Inv
  PROVE  Fresh(Idle) /\ Sound(Idle)
<1>1. Fresh(Idle)
  BY Blanks DEF Fresh, Idle
<1>. QED
  BY <1>1, FreshIsSound

LEMMA OutcomeIsSound ==
  ASSUME Inv, NEW c \in CallState, NEW reply \in Bundle,
         \A t \in Topic : reply[t].at <= now
  PROVE  Sound(Answer(c, reply)) /\ Sound(Failure(c))
<1>1. now \in Nat /\ \A t \in Topic : Nothing[t].at = 0
  BY DEF Inv, TypeOK, Nothing, Absent
<1>2. CASE c.kind = "orphan"
  BY <1>2, IdleIsSound DEF Answer, Failure
<1>3. CASE c.kind # "orphan"
  <2>1. /\ Answer(c, reply) \in CallState /\ Answer(c, reply).phase = "answered"
        /\ Answer(c, reply).data = reply /\ Answer(c, reply).begun = 0
    BY <1>3 DEF Answer, CallState, Phase
  <2>2. /\ Failure(c) \in CallState /\ Failure(c).phase = "failed"
        /\ Failure(c).data = Nothing /\ Failure(c).begun = 0
    BY <1>3, Blanks DEF Failure, CallState, Phase
  <2>. QED
    BY <1>1, <2>1, <2>2 DEF Sound
<1>. QED
  BY <1>2, <1>3

LEMMA StoreStep ==
  ASSUME Inv, NEW d \in Device, NEW new \in Bundle, Stored(d, new), now' = now,
         \A t \in Topic : new[t].at <= Clock(d)
  PROVE  /\ local' \in [Device -> Bundle]
         /\ dirty' \in [Device -> SUBSET Topic]
         /\ timer' \in [Device -> BOOLEAN]
         /\ LocalPast'
<1>1. LocalPast'
  BY DEF Inv, TypeOK, LocalPast, Stored, Clock
<1>. QED
  BY <1>1, StoredType DEF Inv

\* A merge takes the later of two stamps.
LEMMA MergeStamps ==
  ASSUME NEW mine \in Bundle, NEW theirs \in Bundle, NEW t \in Topic
  PROVE  /\ Merge(mine, theirs)[t] \in {mine[t], theirs[t]}
         /\ Merge(mine, theirs)[t].at >= mine[t].at
  BY DEF Merge, LocalWins, Bundle, Entry

\* A transaction stamps what it writes no later than now.
LEMMA WriteTimeBounds ==
  ASSUME Inv, NEW k \in Conn
  PROVE  WriteTime(call[k]) \in Nat /\ WriteTime(call[k]) <= Truncate(now)
<1>1. now \in Nat /\ call[k].begun \in Nat /\ call[k].begun <= now
  BY DEF Inv, TypeOK, CallState, CallsSound
<1>. QED
  BY <1>1, TruncateBounds, TruncateMonotone DEF WriteTime

LEMMA WrittenType ==
  ASSUME Inv, NEW k \in Conn, call[k].phase = "open"
  PROVE  /\ Written(call[k]) \in Bundle
         /\ \A t \in Topic : Written(call[k])[t].at <= Truncate(now)
         /\ Kept(call[k]) \in Bundle
         /\ \A t \in Topic : Kept(call[k])[t].at <= now
<1>. DEFINE c == call[k]
<1>1. /\ c.auth \in Account
      /\ c.data \in Bundle /\ c.body \in Bundle
      /\ row[c.auth] \in Bundle
      /\ \A t \in Topic : c.data[t].at <= now
      /\ \A t \in Topic : row[c.auth][t].at <= Truncate(now)
  BY DEF Inv, TypeOK, CallsSound, CallState, RowsPast
<1>2. /\ now \in Nat /\ Truncate(now) \in Nat /\ Truncate(now) <= now
      /\ WriteTime(c) \in Nat /\ WriteTime(c) <= Truncate(now)
  BY WriteTimeBounds, TruncateBounds DEF Inv, TypeOK
<1>. HIDE DEF c
<1>3. ASSUME NEW t \in Topic
      PROVE  Written(c)[t] \in Entry /\ Written(c)[t].at <= Truncate(now)
  <2>. DEFINE u == Upsert(c.data[t], c.body[t], row[c.auth][t], WriteTime(c))
  <2>1. c.data[t] \in Entry /\ c.body[t] \in Entry /\ row[c.auth][t] \in Entry
    BY <1>1 DEF Bundle
  <2>2. u \in Entry /\ u.at \in {row[c.auth][t].at, WriteTime(c)}
    BY <1>2, <2>1, UpsertType
  <2>3. Written(c)[t] \in {u, row[c.auth][t]}
    BY DEF Written
  <2>. QED
    BY <1>1, <1>2, <2>1, <2>2, <2>3
<1>4. Written(c) \in Bundle
  BY <1>3 DEF Written, Bundle
<1>5. ASSUME NEW t \in Topic
      PROVE  Reply(c)[t] \in Entry /\ Reply(c)[t].at <= now
  <2>1. Written(c)[t].at \in Nat
    BY <1>3 DEF Entry
  <2>. QED
    BY <1>1, <1>2, <1>3, <2>1, Blanks DEF Reply, Bundle, Absent
<1>6. Reply(c) \in Bundle
  BY <1>5 DEF Reply, Bundle
<1>7. Nothing \in Bundle /\ \A t \in Topic : Nothing[t].at <= now
  BY <1>2, Blanks DEF Nothing, Absent
<1>8. Kept(c) \in Bundle /\ \A t \in Topic : Kept(c)[t].at <= now
  BY <1>5, <1>6, <1>7 DEF Kept
<1>. QED
  BY <1>3, <1>4, <1>8 DEF c

-----------------------------------------------------------------------------
(***************************************************************************)
(* Every step preserves the invariant.                                     *)
(***************************************************************************)

LEMMA InitInv == Init => Inv
<1>. SUFFICES ASSUME Init
              PROVE  Inv
  OBVIOUS
<1>1. TypeOK
  BY Blanks, ConstantsAssumption DEF Init, TypeOK, Bundle, Budget
<1>2. now \in Nat /\ Truncate(now) \in Nat
  BY <1>1, TruncateBounds DEF TypeOK
<1>3. CallsSound
  BY <1>2 DEF Init, CallsSound, Idle, Nothing, Absent
<1>4. RowsPast
  BY <1>2 DEF Init, RowsPast, Nothing, Absent
<1>5. LocalPast
  BY <1>2, ConstantsAssumption DEF Init, LocalPast, Nothing, Absent, Clock
<1>. QED
  BY <1>1, <1>3, <1>4, <1>5 DEF Inv

LEMMA SpendType ==
  ASSUME TypeOK, NEW what \in Budget, Spend(what)
  PROVE  spent' \in [Budget -> Nat]
  BY DEF TypeOK, Spend

\* The parts of the invariant that a step which leaves them alone keeps.
LEMMA Unchanged ==
  ASSUME Inv
  PROVE  /\ UNCHANGED <<now, call>> => CallsSound'
         /\ UNCHANGED <<now, row>> => RowsPast'
         /\ UNCHANGED <<now, local>> => LocalPast'
  BY DEF Inv, CallsSound, RowsPast, LocalPast, Clock, Truncate, Writes

LEMMA EditInv ==
  ASSUME Inv, NEW d \in Device, NEW t \in Topic, NEW s \in Slice, Edit(d, t, s)
  PROVE  Inv'
<1>. DEFINE new == [local[d] EXCEPT ![t] = [slice |-> s, at |-> EditAt(d)]]
<1>1. Clock(d) \in Nat /\ local[d] \in Bundle
  BY ConstantsAssumption DEF Inv, TypeOK, Clock
<1>2. new \in Bundle /\ \A u \in Topic : new[u].at <= Clock(d)
  BY <1>1 DEF Inv, LocalPast, Bundle, Entry, EditAt
<1>3. Stored(d, new) /\ now' = now
  BY DEF Edit
<1>. HIDE DEF new
<1>4. spent' \in [Budget -> Nat]
  BY SpendType DEF Edit, Inv, Budget
<1>5. TypeOK' /\ LocalPast'
  BY <1>2, <1>3, <1>4, StoreStep DEF Edit, Inv, TypeOK
<1>. QED
  BY <1>5, Unchanged DEF Edit, Inv

LEMMA PreferLangInv ==
  ASSUME Inv, NEW d \in Device, PreferLang(d)
  PROVE  Inv'
<1>1. TypeOK'
  BY DEF PreferLang, Inv, TypeOK
<1>. QED
  BY <1>1, Unchanged DEF PreferLang, Inv

\* A step that moves one call and leaves stores and rows alone.
LEMMA CallInv ==
  ASSUME Inv, NEW k \in Conn, NEW c, Sound(c), call' = [call EXCEPT ![k] = c],
         UNCHANGED <<now, local, row>>,
         token' \in [Device -> Account \cup {NoAccount}],
         dirty' \in [Device -> SUBSET Topic], timer' \in [Device -> BOOLEAN],
         lastPull' \in [Device -> Nat], spent' \in [Budget -> Nat]
  PROVE  Inv'
<1>1. call' \in [Conn -> CallState] /\ CallsSound'
  BY CallStep
<1>2. TypeOK'
  BY <1>1 DEF Inv, TypeOK
<1>. QED
  BY <1>1, <1>2, Unchanged DEF Inv

\* A step of flushPush: on to the next slug, or done.
LEMMA ContinueInv ==
  ASSUME Inv, NEW k \in Conn, NEW todo \in SUBSET Topic, Continue(k, todo),
         UNCHANGED <<now, local, row, token, lastPull, spent>>,
         dirty' \in [Device -> SUBSET Topic], timer' \in [Device -> BOOLEAN]
  PROVE  Inv'
<1>1. PICK c \in CallState : Fresh(c) /\ call' = [call EXCEPT ![k] = c]
  BY ContinueType DEF Inv
<1>2. Sound(c)
  BY <1>1, FreshIsSound
<1>. QED
  BY <1>1, <1>2, CallInv DEF Inv, TypeOK

LEMMA FirePushInv ==
  ASSUME Inv, NEW k \in Conn, FirePush(k)
  PROVE  Inv'
<1>1. Owner[k] \in Device /\ dirty[Owner[k]] \in SUBSET Topic
  BY ConstantsAssumption DEF Inv, TypeOK
<1>2. dirty' \in [Device -> SUBSET Topic] /\ timer' \in [Device -> BOOLEAN]
  BY DEF FirePush, Inv, TypeOK
<1>. QED
  BY <1>1, <1>2, ContinueInv DEF FirePush

LEMMA PutDoneInv ==
  ASSUME Inv, NEW k \in Conn, PutDone(k)
  PROVE  Inv'
<1>1. call[k].todo \in SUBSET Topic
  BY DEF Inv, TypeOK, CallState
<1>. QED
  BY <1>1, ContinueInv DEF PutDone, clientVars, Inv, TypeOK

LEMMA PutFailedInv ==
  ASSUME Inv, NEW k \in Conn, PutFailed(k)
  PROVE  Inv'
<1>1. call[k].todo \in SUBSET Topic /\ Owner[k] \in Device
  BY ConstantsAssumption DEF Inv, TypeOK, CallState
<1>2. dirty' \in [Device -> SUBSET Topic]
  BY <1>1 DEF PutFailed, Requeued, Carried, Inv, TypeOK
<1>. QED
  BY <1>1, <1>2, ContinueInv DEF PutFailed, Inv, TypeOK

LEMMA ClockType ==
  ASSUME Inv, NEW d \in Device
  PROVE  Clock(d) \in Nat /\ now <= Clock(d)
  BY ConstantsAssumption DEF Inv, TypeOK, Clock

LEMMA PullInv ==
  ASSUME Inv, NEW k \in Conn, Pull(k),
         UNCHANGED <<now, local, token, dirty, timer, row, spent>>
  PROVE  Inv'
<1>1. Owner[k] \in Device
  BY ConstantsAssumption
<1>2. Sound(Request(Owner[k], "pull", {}, Nothing))
  BY <1>1, RequestIsSound, Blanks DEF Kind
<1>3. lastPull' \in [Device -> Nat]
  BY <1>1, ClockType DEF Pull, Inv, TypeOK
<1>. QED
  BY <1>2, <1>3, CallInv DEF Pull, Inv, TypeOK

LEMMA FocusInv ==
  ASSUME Inv, NEW k \in Conn, Focus(k)
  PROVE  Inv'
  BY PullInv DEF Focus

\* syncFromServer at the end of call k.
LEMMA MergeInv ==
  ASSUME Inv, NEW k \in Conn, Stored(Owner[k], Merge(local[Owner[k]], call[k].data)),
         call' = [call EXCEPT ![k] = Idle], UNCHANGED <<now, token, row, spent>>,
         lastPull' \in [Device -> Nat]
  PROVE  Inv'
<1>. DEFINE d == Owner[k]
            new == Merge(local[d], call[k].data)
<1>1. d \in Device /\ local[d] \in Bundle /\ call[k].data \in Bundle
  BY ConstantsAssumption DEF Inv, TypeOK, CallState
<1>2. now \in Nat /\ Clock(d) \in Nat /\ now <= Clock(d)
  BY <1>1, ClockType DEF Inv, TypeOK
<1>3. \A t \in Topic : local[d][t].at <= Clock(d) /\ call[k].data[t].at <= now
  BY <1>1 DEF Inv, LocalPast, CallsSound
<1>4. \A t \in Topic : local[d][t].at \in Nat /\ call[k].data[t].at \in Nat
  BY <1>1 DEF Bundle, Entry
<1>5. new \in Bundle
  BY <1>1, MergeType
<1>6. ASSUME NEW t \in Topic
      PROVE  new[t].at <= Clock(d)
  <2>1. new[t] \in {local[d][t], call[k].data[t]}
    BY <1>1, MergeStamps
  <2>. HIDE DEF new
  <2>. QED
    BY <1>2, <1>3, <1>4, <2>1
<1>7. Stored(d, new)
  OBVIOUS
<1>. HIDE DEF new
<1>8. /\ local' \in [Device -> Bundle] /\ dirty' \in [Device -> SUBSET Topic]
      /\ timer' \in [Device -> BOOLEAN] /\ LocalPast'
  BY <1>1, <1>5, <1>6, <1>7, StoreStep
<1>9. call' \in [Conn -> CallState] /\ CallsSound'
  BY IdleIsSound, CallStep
<1>10. TypeOK'
  BY <1>8, <1>9 DEF Inv, TypeOK
<1>. QED
  BY <1>8, <1>9, <1>10, Unchanged DEF Inv

LEMMA PullDoneInv ==
  ASSUME Inv, NEW k \in Conn, PullDone(k)
  PROVE  Inv'
  BY MergeInv DEF PullDone, Inv, TypeOK

LEMMA PullFailedInv ==
  ASSUME Inv, NEW k \in Conn, PullFailed(k)
  PROVE  Inv'
  BY CallInv, IdleIsSound DEF PullFailed, clientVars, Inv, TypeOK

LEMMA LoginInv ==
  ASSUME Inv, NEW k \in Conn, NEW a \in Account, Login(k, a)
  PROVE  Inv'
<1>. DEFINE d == Owner[k]
            request(kind) == [Request(d, kind, {}, LoginBody(d)) EXCEPT !.auth = a]
<1>1. d \in Device /\ Clock(d) \in Nat
  BY ConstantsAssumption, ClockType
<1>2. LoginBody(d) \in Bundle
  BY <1>1, PayloadType DEF LoginBody, Bundle, Inv, TypeOK
<1>3. ASSUME NEW kind \in Kind
      PROVE  Sound(request(kind))
  <2>. DEFINE r == Request(d, kind, {}, LoginBody(d))
  <2>1. Fresh(r)
    BY <1>1, <1>2, RequestIsSound
  <2>. HIDE DEF r
  <2>2. Fresh([r EXCEPT !.auth = a])
    BY <2>1 DEF Fresh, CallState
  <2>. QED
    BY <2>2, FreshIsSound DEF r
<1>4. /\ token' \in [Device -> Account \cup {NoAccount}]
      /\ lastPull' \in [Device -> Nat]
  BY <1>1 DEF Login, Inv, TypeOK
<1>. HIDE DEF request
<1>5. \/ call' = [call EXCEPT ![k] = request("login")]
      \/ call' = [call EXCEPT ![k] = request("pull")]
  BY DEF Login, request
<1>. QED
  BY <1>3, <1>4, <1>5, CallInv DEF Login, Kind, Inv, TypeOK

LEMMA LoginDoneInv ==
  ASSUME Inv, NEW k \in Conn, LoginDone(k)
  PROVE  Inv'
<1>1. lastPull' \in [Device -> Nat]
  BY ConstantsAssumption, ClockType DEF LoginDone, Inv, TypeOK
<1>. QED
  BY <1>1, MergeInv DEF LoginDone

LEMMA LoginFailedInv ==
  ASSUME Inv, NEW k \in Conn, LoginFailed(k)
  PROVE  Inv'
<1>1. CASE token[Owner[k]] = NoAccount
  BY <1>1, IdleIsSound, CallInv DEF LoginFailed, Inv, TypeOK
<1>2. CASE token[Owner[k]] # NoAccount
  BY <1>2, PullInv DEF LoginFailed
<1>. QED
  BY <1>1, <1>2

LEMMA LogoutInv ==
  ASSUME Inv, NEW d \in Device, Logout(d)
  PROVE  Inv'
<1>1. spent' \in [Budget -> Nat]
  BY SpendType DEF Logout, Inv, Budget
<1>2. TypeOK'
  BY <1>1 DEF Logout, Inv, TypeOK
<1>. QED
  BY <1>2, Unchanged DEF Logout, Inv

LEMMA AbandonedIsSound ==
  ASSUME Inv, NEW k \in Conn
  PROVE  Sound(Abandoned(call[k]))
<1>1. Sound(call[k])
  BY DEF Inv, TypeOK, CallsSound, Sound
<1>2. CASE Abandoned(call[k]) = Idle
  BY <1>2, IdleIsSound
<1>3. CASE Abandoned(call[k]) = [call[k] EXCEPT !.kind = "orphan", !.todo = {}]
  BY <1>1, <1>3 DEF Sound, CallState, Kind, Writes
<1>. QED
  BY <1>2, <1>3 DEF Abandoned

LEMMA ReloadInv ==
  ASSUME Inv, NEW d \in Device, Reload(d)
  PROVE  Inv'
<1>. DEFINE left == [k \in Conn |-> IF Owner[k] = d THEN Abandoned(call[k])
                                    ELSE call[k]]
<1>1. now \in Nat /\ Clock(d) \in Nat
  BY ClockType DEF Inv, TypeOK
<1>2. \A k \in Conn : Sound(left[k])
  BY AbandonedIsSound DEF Inv, TypeOK, CallsSound, Sound
<1>3. Sound(Request(d, "pull", {}, Nothing))
  BY RequestIsSound, Blanks DEF Kind
<1>. HIDE DEF left
<1>4. \/ call' = left
      \/ \E k \in Conn : call' = [left EXCEPT ![k] = Request(d, "pull", {}, Nothing)]
  BY DEF Reload, left
<1>5. DOMAIN left = Conn /\ left = [k \in Conn |-> left[k]]
  BY DEF left
<1>6. \A k \in Conn : Sound(call'[k])
  BY <1>2, <1>3, <1>4, <1>5
<1>7. call' = [k \in Conn |-> call'[k]]
  BY <1>4, <1>5
<1>8. call' \in [Conn -> CallState]
  BY <1>6, <1>7 DEF Sound
<1>9. CallsSound'
  <2>1. now' = now
    BY DEF Reload
  <2>. QED
    BY <1>6, <2>1 DEF CallsSound, Sound, Writes
<1>10. /\ spent' \in [Budget -> Nat] /\ lastPull' \in [Device -> Nat]
       /\ dirty' \in [Device -> SUBSET Topic] /\ timer' \in [Device -> BOOLEAN]
  BY <1>1, SpendType DEF Reload, Inv, TypeOK, Budget
<1>11. TypeOK'
  BY <1>8, <1>10 DEF Reload, Inv, TypeOK
<1>. QED
  BY <1>9, <1>11, Unchanged DEF Reload, Inv

\* A step of the server or the network that ends or advances one call.
LEMMA ServerInv ==
  ASSUME Inv, NEW k \in Conn, NEW c, Sound(c), call' = [call EXCEPT ![k] = c],
         UNCHANGED <<now, clientVars, row>>, spent' \in [Budget -> Nat]
  PROVE  Inv'
  BY CallInv DEF clientVars, Inv, TypeOK

LEMMA RowType ==
  ASSUME Inv, NEW a \in Account
  PROVE  row[a] \in Bundle /\ \A t \in Topic : row[a][t].at <= now
<1>1. now \in Nat /\ Truncate(now) \in Nat /\ Truncate(now) <= now
  BY TruncateBounds DEF Inv, TypeOK
<1>2. row[a] \in Bundle /\ \A t \in Topic : row[a][t].at \in Nat
  BY DEF Inv, TypeOK, Bundle, Entry
<1>. QED
  BY <1>1, <1>2 DEF Inv, RowsPast

LEMMA ServeGetInv ==
  ASSUME Inv, NEW k \in Conn, ServeGet(k)
  PROVE  Inv'
<1>1. call[k] \in CallState /\ call[k].auth \in Account
  BY DEF ServeGet, Inv, TypeOK, CallState
<1>2. Sound(Answer(call[k], row[call[k].auth]))
  BY <1>1, RowType, OutcomeIsSound
<1>. QED
  BY <1>2, ServerInv DEF ServeGet, Inv, TypeOK

LEMMA FailureInv ==
  ASSUME Inv, NEW k \in Conn, call' = [call EXCEPT ![k] = Failure(call[k])],
         UNCHANGED <<now, clientVars, row>>, spent' \in [Budget -> Nat]
  PROVE  Inv'
<1>1. call[k] \in CallState /\ now \in Nat
  BY DEF Inv, TypeOK
<1>2. Nothing \in Bundle /\ \A t \in Topic : Nothing[t].at <= now
  BY <1>1, Blanks DEF Nothing, Absent
<1>. QED
  BY <1>1, <1>2, OutcomeIsSound, ServerInv

LEMMA BeginInv ==
  ASSUME Inv, NEW k \in Conn, Begin(k)
  PROVE  Inv'
<1>. DEFINE c == [call[k] EXCEPT !.phase = "open", !.data = row[call[k].auth],
                                 !.begun = now]
<1>1. call[k] \in CallState /\ call[k].auth \in Account /\ now \in Nat
  BY DEF Begin, Inv, TypeOK, CallState
<1>2. row[call[k].auth] \in Bundle /\ \A t \in Topic : row[call[k].auth][t].at <= now
  BY <1>1, RowType
<1>3. Writes(call[k])
  BY DEF Begin
<1>4. Sound(c)
  <2>1. c \in CallState
    BY <1>1, <1>2 DEF CallState, Phase
  <2>2. /\ c.kind = call[k].kind /\ c.auth = call[k].auth
        /\ c.data = row[call[k].auth] /\ c.begun = now
    BY <1>1 DEF CallState
  <2>. HIDE DEF c
  <2>3. Writes(c) /\ c.auth \in Account
    BY <1>1, <1>3, <2>2 DEF Writes
  <2>. QED
    BY <1>1, <1>2, <2>1, <2>2, <2>3 DEF Sound
<1>5. call' = [call EXCEPT ![k] = c]
  BY DEF Begin, Inv, TypeOK
<1>. QED
  BY <1>4, <1>5, ServerInv DEF Begin, Inv, TypeOK

LEMMA CommitInv ==
  ASSUME Inv, NEW k \in Conn, Commit(k)
  PROVE  Inv'
<1>. DEFINE a == call[k].auth
<1>1. call[k] \in CallState /\ a \in Account /\ call[k].phase = "open"
  BY DEF Commit, Inv, TypeOK, CallsSound
<1>2. /\ Written(call[k]) \in Bundle
      /\ \A t \in Topic : Written(call[k])[t].at <= Truncate(now)
      /\ Sound(Answer(call[k], Kept(call[k])))
  BY <1>1, WrittenType, OutcomeIsSound
<1>3. call' \in [Conn -> CallState] /\ CallsSound'
  BY <1>2, CallStep DEF Commit
<1>4. row' = [row EXCEPT ![a] = Written(call[k])] /\ now' = now
  BY DEF Commit
<1>5. row' \in [Account -> Bundle]
  BY <1>1, <1>2, <1>4 DEF Inv, TypeOK
<1>6. RowsPast'
  BY <1>1, <1>2, <1>4 DEF Inv, TypeOK, RowsPast, Truncate
<1>7. TypeOK'
  BY <1>3, <1>5 DEF Commit, clientVars, Inv, TypeOK
<1>. QED
  BY <1>3, <1>6, <1>7, Unchanged DEF Commit, clientVars, Inv

LEMMA TickInv ==
  ASSUME Inv, Tick
  PROVE  Inv'
<1>1. /\ now \in Nat /\ now' = now + 1 /\ now' \in Nat
      /\ UNCHANGED <<clientVars, call, row, spent>>
  BY DEF Tick, Inv, TypeOK
<1>2. TypeOK'
  BY <1>1 DEF clientVars, Inv, TypeOK
<1>3. CallsSound'
  <2>1. \A k \in Conn : call[k].begun \in Nat /\ call[k].data \in Bundle
    BY DEF Inv, TypeOK, CallState
  <2>2. \A k \in Conn, t \in Topic : call[k].data[t].at \in Nat
    BY <2>1 DEF Bundle, Entry
  <2>. QED
    BY <1>1, <2>1, <2>2 DEF Inv, CallsSound, Writes
<1>4. RowsPast'
  <2>1. \A a \in Account, t \in Topic : row[a][t].at \in Nat
    BY DEF Inv, TypeOK, Bundle, Entry
  <2>2. /\ Truncate(now) \in Nat /\ Truncate(now + 1) \in Nat
        /\ Truncate(now) <= Truncate(now + 1)
    BY <1>1, TruncateBounds, TruncateMonotone
  <2>3. \A a \in Account, t \in Topic : row[a][t].at <= Truncate(now + 1)
    BY <2>1, <2>2 DEF Inv, RowsPast
  <2>. QED
    BY <1>1, <2>3 DEF RowsPast, Truncate
<1>5. LocalPast'
  <2>1. \A d \in Device, t \in Topic : local[d][t].at \in Nat
    BY DEF Inv, TypeOK, Bundle, Entry
  <2>. QED
    BY <1>1, <2>1, ConstantsAssumption DEF clientVars, Inv, LocalPast, Clock
<1>. QED
  BY <1>2, <1>3, <1>4, <1>5 DEF Inv

LEMMA StutterInv ==
  ASSUME Inv, UNCHANGED vars
  PROVE  Inv'
<1>1. TypeOK'
  BY DEF vars, clientVars, Inv, TypeOK
<1>. QED
  BY <1>1, Unchanged DEF vars, clientVars, Inv

LEMMA NextInv == Inv /\ [Next]_vars => Inv'
<1>. SUFFICES ASSUME Inv, [Next]_vars
              PROVE  Inv'
  OBVIOUS
<1>1. ASSUME NEW d \in Device, User(d)
      PROVE  Inv'
  BY <1>1, EditInv, PreferLangInv, LogoutInv, ReloadInv DEF User
<1>2. ASSUME NEW k \in Conn, Page(k)
      PROVE  Inv'
  BY <1>2, FirePushInv, PutDoneInv, PutFailedInv, PullDoneInv, PullFailedInv,
     LoginDoneInv, LoginFailedInv DEF Page
<1>3. ASSUME NEW k \in Conn, Refuse(k) \/ Conflict(k) \/ Lose(k)
      PROVE  Inv'
  <2>1. spent' \in [Budget -> Nat]
    BY <1>3, SpendType DEF Refuse, Conflict, Lose, Inv, TypeOK, Budget
  <2>. QED
    BY <1>3, <2>1, FailureInv DEF Refuse, Conflict, Lose
<1>4. ASSUME NEW k \in Conn, Server(k) \/ Lose(k)
      PROVE  Inv'
  BY <1>3, <1>4, ServeGetInv, BeginInv, CommitInv DEF Server
<1>. QED
  BY <1>1, <1>2, <1>4, TickInv, FocusInv, LoginInv, StutterInv DEF Next

LEMMA Invariance == Spec => []Inv
  BY InitInv, NextInv, PTL DEF Spec

(***************************************************************************)
(* Every variable keeps its type, for any constants.                       *)
(***************************************************************************)
THEOREM TypeCorrect == Spec => []TypeOK
<1>1. Inv => TypeOK
  BY DEF Inv
<1>. QED
  BY <1>1, Invariance, PTL

-----------------------------------------------------------------------------
(***************************************************************************)
(* Stamps only move forward.                                               *)
(***************************************************************************)

LEMMA StoredForward ==
  ASSUME Inv, NEW d \in Device, NEW new \in Bundle, Stored(d, new),
         \A t \in Topic : new[t].at >= local[d][t].at
  PROVE  \A e \in Device, t \in Topic : local'[e][t].at >= local[e][t].at
<1>. SUFFICES ASSUME NEW e \in Device, NEW t \in Topic
              PROVE  local'[e][t].at >= local[e][t].at
  OBVIOUS
<1>1. local[e][t].at \in Nat
  BY DEF Inv, TypeOK, Bundle, Entry
<1>. QED
  BY <1>1 DEF Stored, Inv, TypeOK

LEMMA LocalForward ==
  ASSUME Inv, Next
  PROVE  \A d \in Device, t \in Topic : local'[d][t].at >= local[d][t].at
<1>. DEFINE Forward == \A d \in Device, t \in Topic :
                          local'[d][t].at >= local[d][t].at
<1>1. CASE local' = local
  BY <1>1 DEF Inv, TypeOK, Bundle, Entry
<1>2. ASSUME NEW d \in Device, NEW t \in Topic, NEW s \in Slice, Edit(d, t, s)
      PROVE  Forward
  <2>. DEFINE new == [local[d] EXCEPT ![t] = [slice |-> s, at |-> EditAt(d)]]
  <2>1. Clock(d) \in Nat /\ local[d] \in Bundle
    BY ClockType DEF Inv, TypeOK
  <2>2. new \in Bundle /\ \A u \in Topic : new[u].at >= local[d][u].at
    BY <2>1 DEF Inv, LocalPast, Bundle, Entry, EditAt
  <2>3. Stored(d, new)
    BY <1>2 DEF Edit
  <2>. HIDE DEF new
  <2>. QED
    BY <2>2, <2>3, StoredForward
<1>3. ASSUME NEW k \in Conn, Stored(Owner[k], Merge(local[Owner[k]], call[k].data))
      PROVE  Forward
  <2>1. /\ Owner[k] \in Device /\ local[Owner[k]] \in Bundle
        /\ call[k].data \in Bundle
    BY ConstantsAssumption DEF Inv, TypeOK, CallState
  <2>. DEFINE new == Merge(local[Owner[k]], call[k].data)
  <2>2. new \in Bundle /\ \A t \in Topic : new[t].at >= local[Owner[k]][t].at
    BY <2>1, MergeType, MergeStamps
  <2>3. Stored(Owner[k], new)
    BY <1>3
  <2>. HIDE DEF new
  <2>. QED
    BY <2>1, <2>2, <2>3, StoredForward
<1>4. ASSUME NEW d \in Device, User(d)
      PROVE  Forward
  <2>1. CASE PreferLang(d) \/ Logout(d) \/ Reload(d)
    BY <1>1, <2>1 DEF PreferLang, Logout, Reload
  <2>. QED
    BY <1>2, <1>4, <2>1 DEF User
<1>5. ASSUME NEW k \in Conn, Page(k)
      PROVE  Forward
  <2>1. CASE PullDone(k) \/ LoginDone(k)
    BY <1>3, <2>1 DEF PullDone, LoginDone
  <2>2. CASE FirePush(k) \/ PutDone(k) \/ PutFailed(k) \/ PullFailed(k) \/ LoginFailed(k)
    BY <1>1, <2>2 DEF FirePush, PutDone, PutFailed, PullFailed, LoginFailed, clientVars
  <2>. QED
    BY <1>5, <2>1, <2>2 DEF Page
<1>6. ASSUME NEW k \in Conn, Server(k) \/ Focus(k) \/ Lose(k)
      PROVE  Forward
  BY <1>1, <1>6 DEF Server, Focus, Lose, ServeGet, Refuse, Begin, Commit, Conflict,
     clientVars
<1>7. ASSUME NEW k \in Conn, NEW a \in Account, Login(k, a)
      PROVE  Forward
  BY <1>1, <1>7 DEF Login
<1>8. CASE Tick
  BY <1>1, <1>8 DEF Tick, clientVars
<1>. QED
  BY <1>4, <1>5, <1>6, <1>7, <1>8 DEF Next

(***************************************************************************)
(* A device never goes back to an earlier stamp, however fast its clock    *)
(* runs, whatever the server's clock resolves, however transactions        *)
(* overlap, and through reloads and lost requests.                         *)
(***************************************************************************)
THEOREM DevicesMoveForward == Spec => StampMonotone
<1>1. Inv /\ [Next]_vars =>
        [\A d \in Device, t \in Topic : local'[d][t].at >= local[d][t].at]_vars
  BY LocalForward
<1>. QED
  BY <1>1, Invariance, PTL DEF Spec, StampMonotone

(***************************************************************************)
(* Where now() is the time of the statement (SQLite) updated_at never goes *)
(* back, whatever transactions overlap.                                    *)
(***************************************************************************)
THEOREM UpdatedAtMovesForward ==
  ASSUME ~StampAtBegin
  PROVE  Spec => RowsMoveForward
<1>. DEFINE Forward == \A a \in Account, t \in Topic : row'[a][t].at >= row[a][t].at
<1>1. ASSUME Inv, row' = row
      PROVE  Forward
  BY <1>1 DEF Inv, TypeOK, Bundle, Entry
<1>2. ASSUME Inv, NEW k \in Conn, Commit(k)
      PROVE  Forward
  <2>. SUFFICES ASSUME NEW a \in Account, NEW t \in Topic
                PROVE  row'[a][t].at >= row[a][t].at
    OBVIOUS
  <2>. DEFINE c == call[k]
              u == Upsert(c.data[t], c.body[t], row[c.auth][t], WriteTime(c))
  <2>1. /\ c.auth \in Account /\ c.data[t] \in Entry /\ c.body[t] \in Entry
        /\ row[c.auth][t] \in Entry /\ row[a][t] \in Entry
    BY <1>2 DEF Commit, Inv, TypeOK, CallsSound, CallState, Bundle
  <2>2. WriteTime(c) = Truncate(now) /\ WriteTime(c) \in Nat
    BY <1>2, WriteTimeBounds DEF WriteTime
  <2>3. u.at \in {row[c.auth][t].at, WriteTime(c)}
    BY <2>1, <2>2, UpsertType
  <2>4. row[a][t].at <= Truncate(now) /\ row[a][t].at \in Nat
    BY <1>2, <2>1 DEF Inv, RowsPast, Entry
  <2>5. row'[a][t] \in {row[a][t], u} /\ (row'[a][t] = row[a][t] \/ a = c.auth)
    BY <1>2, <2>1 DEF Commit, Written, Inv, TypeOK
  <2>. QED
    BY <2>2, <2>3, <2>4, <2>5
<1>3. ASSUME Inv, Next, \A k \in Conn : ~Commit(k)
      PROVE  row' = row
  BY <1>3 DEF Next, User, Page, Server, Edit, PreferLang, Logout, Reload, FirePush,
     PutDone, PutFailed, PullDone, PullFailed, LoginDone, LoginFailed, ServeGet,
     Refuse, Begin, Conflict, Focus, Lose, Login, Tick, clientVars
<1>4. Inv /\ [Next]_vars =>
        [\A a \in Account, t \in Topic : row'[a][t].at >= row[a][t].at]_vars
  BY <1>1, <1>2, <1>3
<1>. QED
  BY <1>4, Invariance, PTL DEF Spec, RowsMoveForward
=============================================================================
