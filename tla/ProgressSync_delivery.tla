----------------------- MODULE ProgressSync_delivery -----------------------
(***************************************************************************)
(* No edit is forgotten: with one transaction open at a time, clocks that  *)
(* agree, one account and no reload of a page.  What is not yet settled on *)
(* the server is in the dirty set, ahead in a loop of flushPush, in a      *)
(* request that has the slice as it is now, or in one that failed.         *)
(***************************************************************************)
EXTENDS ProgressSync_refinement

ClocksAgree == Resolution = 1 /\ \A d \in Device : Skew[d] = 0
OneAccount == \A a, b \in Account : a = b
NoReloads == Limit["reload"] = 0

\* A store shows content only with a stamp.
Whole == \A d \in Device, t \in Topic : local[d][t].at = 0 => local[d][t].slice = Blank

\* Without reloads no call outlives its page.
NoOrphans == \A k \in Conn : call[k].kind # "orphan"

\* An answer that waits to be merged is not ahead of the rows.
AnswersPast ==
    \A k \in Conn, a \in Account, t \in Topic :
        call[k].phase = "answered" => call[k].data[t].at <= row[a][t].at

\* The row is later, or is the same and the transaction that is open will
\* write no earlier stamp over it.
Settled(d, t, a) ==
    \/ row[a][t].at >= local[d][t].at
    \/ /\ row[a][t].slice = local[d][t].slice
       /\ \A k \in Conn : call[k].phase = "open" => call[k].begun >= local[d][t].at

\* The call brings entry e of topic t to the server, or gives it back.
Brings(c, t, e) ==
    /\ c.kind = "push"
    /\ \/ t \in c.todo
       \/ c.phase = "failed" /\ Present(c.body[t])
       \/ c.phase \in {"sent", "open"} /\ c.body[t] = e

Coming(d, t) ==
    t \in dirty[d] \/ \E k \in Conn : Owner[k] = d /\ Brings(call[k], t, local[d][t])

NoneIsForgotten ==
    \A d \in Device, t \in Known, a \in Account :
        local[d][t].slice # Blank => Settled(d, t, a) \/ Coming(d, t)

Remembers == Whole /\ NoOrphans /\ AnswersPast /\ NoneIsForgotten

SyncInv == Serial /\ Remembers

LEMMA SyncImplies == SyncInv => NothingForgotten
<1>. SUFFICES ASSUME SyncInv, NEW d \in Device, NEW t \in Known, NEW a \in Account,
                     local[d][t].slice # Blank
              PROVE  Mirrored(d, t, a) \/ Underway(d, t)
  BY DEF NothingForgotten
<1>1. t \in Topic /\ local[d][t].at \in Nat /\ local[d][t].at # 0
  BY ConstantsAssumption DEF SyncInv, Remembers, Whole, Serial, Inv, TypeOK, Bundle, Entry
<1>2. CASE Settled(d, t, a)
  BY <1>2 DEF Settled, Mirrored
<1>3. CASE t \in dirty[d]
  BY <1>3 DEF Underway
<1>4. ASSUME NEW k \in Conn, Owner[k] = d, Brings(call[k], t, local[d][t])
      PROVE  Underway(d, t)
  BY <1>1, <1>4 DEF Brings, Underway, Carried, Present
<1>. QED
  BY <1>2, <1>3, <1>4 DEF SyncInv, Remembers, NoneIsForgotten, Coming

\* With ticks of one millisecond nothing is truncated.
LEMMA TruncateOne ==
  ASSUME ClocksAgree, NEW n \in Nat
  PROVE  Truncate(n) = n
  BY SMTT(30) DEF Truncate, ClocksAgree

\* One call moves on, and the store of its page stays: what the call brought
\* is brought still, or is dirty now; and what was dirty and is not any more
\* is what the call brings.
LEMMA CallBrings ==
  ASSUME SyncInv, UNCHANGED <<local, row>>,
         NEW k \in Conn, NEW c, call' = [call EXCEPT ![k] = c],
         c.kind # "orphan",
         c.phase = "answered" => \A a \in Account, t \in Topic : c.data[t].at <= row[a][t].at,
         c.phase = "open" => \A d \in Device, t \in Topic : c.begun >= local[d][t].at,
         \A d \in Device : d # Owner[k] => dirty'[d] = dirty[d],
         \A t \in Known : local[Owner[k]][t].slice # Blank =>
             (t \in dirty[Owner[k]] \/ Brings(call[k], t, local[Owner[k]][t])
                => t \in dirty'[Owner[k]] \/ Brings(c, t, local[Owner[k]][t]))
  PROVE  Remembers'
<1>1. \A j \in Conn : call'[j] = IF j = k THEN c ELSE call[j]
  BY DEF SyncInv, Serial, Inv, TypeOK
<1>2. Whole' /\ NoOrphans'
  BY <1>1 DEF SyncInv, Remembers, Whole, NoOrphans
<1>3. AnswersPast'
  BY <1>1 DEF SyncInv, Remembers, AnswersPast
<1>4. ASSUME NEW d \in Device, NEW t \in Known, NEW a \in Account, local[d][t].slice # Blank
      PROVE  Settled(d, t, a)' \/ Coming(d, t)'
  <2>0. t \in Topic
    BY ConstantsAssumption
  <2>1. CASE Settled(d, t, a)
    BY <1>1, <2>0, <2>1 DEF Settled
  <2>2. CASE d # Owner[k] /\ Coming(d, t)
    <3>1. CASE t \in dirty[d]
      BY <2>2, <3>1 DEF Coming
    <3>2. ASSUME NEW j \in Conn, Owner[j] = d, Brings(call[j], t, local[d][t])
          PROVE  Coming(d, t)'
      <4>1. call'[j] = call[j]
        BY <1>1, <2>2, <3>2
      <4>. QED
        BY <3>2, <4>1 DEF Coming, Brings
    <3>. QED
      BY <2>2, <3>1, <3>2 DEF Coming
  <2>3. CASE d = Owner[k] /\ Coming(d, t)
    <3>1. CASE t \in dirty[d] \/ Brings(call[k], t, local[d][t])
      <4>1. t \in dirty'[d] \/ Brings(c, t, local[d][t])
        BY <1>4, <2>3, <3>1
      <4>2. call'[k] = c
        BY <1>1
      <4>. QED
        BY <2>3, <4>1, <4>2 DEF Coming, Brings
    <3>2. ASSUME NEW j \in Conn, j # k, Owner[j] = d, Brings(call[j], t, local[d][t])
          PROVE  Coming(d, t)'
      <4>1. call'[j] = call[j]
        BY <1>1, <3>2
      <4>. QED
        BY <3>2, <4>1 DEF Coming, Brings
    <3>. QED
      BY <2>3, <3>1, <3>2 DEF Coming
  <2>. QED
    BY <1>4, <2>1, <2>2, <2>3 DEF SyncInv, Remembers, NoneIsForgotten
<1>. QED
  BY <1>2, <1>3, <1>4 DEF Remembers, NoneIsForgotten

\* What flushPush goes on with brings every slug it was given, but blank ones.
LEMMA ContinueBrings ==
  ASSUME SyncInv, NEW k \in Conn, NEW todo \in SUBSET Topic, Continue(k, todo)
  PROVE  \E c : /\ call' = [call EXCEPT ![k] = c]
                /\ c.kind # "orphan" /\ c.phase \notin {"answered", "open"}
                /\ \A t \in todo : local[Owner[k]][t].slice # Blank
                                     => Brings(c, t, local[Owner[k]][t])
<1>. DEFINE d == Owner[k]
            blank == {t \in todo : local[d][t].slice = Blank}
            Goal == \E c : /\ call' = [call EXCEPT ![k] = c]
                           /\ c.kind # "orphan" /\ c.phase \notin {"answered", "open"}
                           /\ \A t \in todo : local[d][t].slice # Blank
                                                => Brings(c, t, local[d][t])
<1>1. CASE todo = blank /\ call' = [call EXCEPT ![k] = Idle]
  <2>1. Idle.kind = "idle" /\ Idle.phase = "none"
    BY DEF Idle
  <2>2. \A t \in todo : local[d][t].slice = Blank
    BY <1>1
  <2>. QED
    BY <1>1, <2>1, <2>2
<1>2. ASSUME NEW t \in todo \ blank, NEW skipped \in SUBSET blank,
             call' = [call EXCEPT ![k] =
                        Request(d, "push", todo \ (skipped \cup {t}),
                                [Nothing EXCEPT ![t] = Payload(local[d][t])])]
      PROVE  Goal
  <2>. DEFINE body == [Nothing EXCEPT ![t] = Payload(local[d][t])]
              rest == todo \ (skipped \cup {t})
              c == Request(d, "push", rest, body)
  <2>1. body[t] = local[d][t] /\ local[d][t].slice # Blank
    BY DEF Nothing, Payload
  <2>2. \A u \in todo : local[d][u].slice # Blank => u = t \/ u \in rest
    OBVIOUS
  <2>. HIDE DEF body, rest
  <2>3. c.kind = "push" /\ c.phase = "sent" /\ c.todo = rest /\ c.body = body
    BY DEF Request, Idle
  <2>4. call' = [call EXCEPT ![k] = c]
    BY <1>2 DEF body, rest
  <2>. HIDE DEF c
  <2>5. ASSUME NEW u \in todo, local[d][u].slice # Blank
        PROVE  Brings(c, u, local[d][u])
    BY <2>1, <2>2, <2>3, <2>5 DEF Brings
  <2>. QED
    BY <2>3, <2>4, <2>5
<1>. QED
  BY <1>1, <1>2 DEF Continue

LEMMA FlushRemembers ==
  ASSUME SyncInv, NEW k \in Conn, FirePush(k) \/ PutDone(k) \/ PutFailed(k)
  PROVE  Remembers'
<1>. DEFINE d == Owner[k]
<1>1. /\ d \in Device /\ dirty[d] \in SUBSET Topic /\ call[k].todo \in SUBSET Topic
      /\ call[k].body \in Bundle /\ Known \subseteq Topic /\ dirty \in [Device -> SUBSET Topic]
  BY ConstantsAssumption DEF SyncInv, Serial, Inv, TypeOK, CallState
<1>2. CASE FirePush(k)
  <2>1. PICK c : /\ call' = [call EXCEPT ![k] = c]
                 /\ c.kind # "orphan" /\ c.phase \notin {"answered", "open"}
                 /\ \A t \in dirty[d] : local[d][t].slice # Blank => Brings(c, t, local[d][t])
    BY <1>1, <1>2, ContinueBrings DEF FirePush
  <2>2. call[k].kind # "push" /\ UNCHANGED <<local, row>> /\ dirty' = [dirty EXCEPT ![d] = {}]
    BY <1>2 DEF FirePush, Idle
  <2>3. \A t \in Known : local[d][t].slice # Blank =>
            (t \in dirty[d] \/ Brings(call[k], t, local[d][t])
               => t \in dirty'[d] \/ Brings(c, t, local[d][t]))
    BY <1>1, <2>1, <2>2 DEF Brings
  <2>4. \A e \in Device : e # d => dirty'[e] = dirty[e]
    BY <1>1, <2>2
  <2>. QED
    BY <2>1, <2>2, <2>3, <2>4, CallBrings
<1>3. CASE PutDone(k) \/ PutFailed(k)
  <2>1. PICK c : /\ call' = [call EXCEPT ![k] = c]
                 /\ c.kind # "orphan" /\ c.phase \notin {"answered", "open"}
                 /\ \A t \in call[k].todo : local[d][t].slice # Blank
                                              => Brings(c, t, local[d][t])
    BY <1>1, <1>3, ContinueBrings DEF PutDone, PutFailed
  <2>2. /\ UNCHANGED <<local, row>>
        /\ call[k].phase \in {"answered", "failed"}
        /\ \A e \in Device : e # d => dirty'[e] = dirty[e]
        /\ dirty[d] \subseteq dirty'[d]
        /\ call[k].phase = "failed" => Carried(call[k].body) \subseteq dirty'[d]
    BY <1>1, <1>3 DEF PutDone, PutFailed, Requeued, clientVars
  <2>3. ASSUME NEW t \in Known, local[d][t].slice # Blank,
               t \in dirty[d] \/ Brings(call[k], t, local[d][t])
        PROVE  t \in dirty'[d] \/ Brings(c, t, local[d][t])
    <3>1. CASE t \in dirty[d]
      BY <2>2, <3>1
    <3>2. CASE t \in call[k].todo
      BY <2>1, <2>3, <3>2
    <3>3. CASE call[k].phase = "failed" /\ Present(call[k].body[t])
      BY <1>1, <2>2, <3>3 DEF Carried
    <3>. QED
      BY <2>2, <2>3, <3>1, <3>2, <3>3 DEF Brings
  <2>. QED
    BY <2>1, <2>2, <2>3, CallBrings
<1>. QED
  BY <1>2, <1>3

\* Calls that push nothing.
LEMMA OtherRemembers ==
  ASSUME SyncInv, NEW k \in Conn,
         \/ Focus(k) \/ PullFailed(k) \/ LoginFailed(k) \/ ServeGet(k)
         \/ \E a \in Account : Login(k, a),
         OneAccount
  PROVE  Remembers'
<1>1. UNCHANGED <<local, row, dirty>> /\ call[k].kind # "push"
  BY DEF Focus, PullFailed, LoginFailed, ServeGet, Login, clientVars, Idle
<1>2. PICK c : /\ call' = [call EXCEPT ![k] = c]
               /\ c.kind # "orphan" /\ c.phase # "open"
               /\ c.phase = "answered"
                    => \A a \in Account, t \in Topic : c.data[t].at <= row[a][t].at
  <2>1. CASE Focus(k) \/ PullFailed(k) \/ LoginFailed(k)
    <3>1. \/ call' = [call EXCEPT ![k] = Idle]
          \/ call' = [call EXCEPT ![k] = Request(Owner[k], "pull", {}, Nothing)]
      BY <2>1 DEF Focus, PullFailed, LoginFailed, Pull
    <3>2. /\ Idle.kind = "idle" /\ Idle.phase = "none"
          /\ Request(Owner[k], "pull", {}, Nothing).kind = "pull"
          /\ Request(Owner[k], "pull", {}, Nothing).phase = "sent"
      BY DEF Request, Idle
    <3>. QED
      BY <3>1, <3>2
  <2>2. ASSUME NEW a \in Account, Login(k, a)
        PROVE  \E c : /\ call' = [call EXCEPT ![k] = c]
                      /\ c.kind \in {"login", "pull"} /\ c.phase = "sent"
    <3>. DEFINE request(kind) == [Request(Owner[k], kind, {}, LoginBody(Owner[k])) EXCEPT !.auth = a]
    <3>1. \A kind : request(kind).kind = kind /\ request(kind).phase = "sent"
      BY DEF Request, Idle
    <3>. HIDE DEF request
    <3>2. \/ call' = [call EXCEPT ![k] = request("login")]
          \/ call' = [call EXCEPT ![k] = request("pull")]
      BY <2>2 DEF Login, request
    <3>. QED
      BY <3>1, <3>2
  <2>3. CASE ServeGet(k)
    <3>. DEFINE c == Answer(call[k], row[call[k].auth])
    <3>1. call[k] \in CallState /\ call[k].kind = "pull" /\ call[k].auth \in Account
      BY <2>3 DEF ServeGet, SyncInv, Serial, Inv, TypeOK, CallState
    <3>2. c.kind = "pull" /\ c.phase = "answered" /\ c.data = row[call[k].auth]
      BY <3>1 DEF Answer, CallState
    <3>3. call' = [call EXCEPT ![k] = c]
      BY <2>3 DEF ServeGet
    <3>. HIDE DEF c
    <3>4. \A a \in Account, t \in Topic : row[call[k].auth][t].at <= row[a][t].at
      <4>1. \A a \in Account : a = call[k].auth
        BY <3>1 DEF OneAccount
      <4>2. \A t \in Topic : row[call[k].auth][t].at \in Nat
        BY <3>1 DEF SyncInv, Serial, Inv, TypeOK, Bundle, Entry
      <4>. QED
        BY <4>1, <4>2
    <3>. QED
      BY <3>2, <3>3, <3>4
  <2>. QED
    BY <2>1, <2>2, <2>3
<1>. QED
  BY <1>1, <1>2, CallBrings DEF Brings

\* A request that fails, and one that gets a transaction, keep their payload.
LEMMA RequestRemembers ==
  ASSUME SyncInv, NEW k \in Conn, ClocksAgree,
         Refuse(k) \/ Conflict(k) \/ Lose(k) \/ Begin(k)
  PROVE  Remembers'
<1>. DEFINE d == Owner[k]
<1>1. /\ call[k] \in CallState /\ call[k].kind # "orphan" /\ d \in Device
      /\ UNCHANGED <<local, row, dirty>>
      /\ call[k].phase \in {"sent", "open", "answered"}
  BY ConstantsAssumption DEF Refuse, Conflict, Lose, Begin, clientVars, SyncInv, Serial, Inv,
     TypeOK, Remembers, NoOrphans
<1>2. ASSUME NEW t \in Known, local[d][t].slice # Blank
      PROVE  Present(local[d][t])
  <2>1. local[d][t].at \in Nat /\ local[d][t].at # 0
    BY <1>1, <1>2, ConstantsAssumption
    DEF SyncInv, Remembers, Whole, Serial, Inv, TypeOK, Bundle, Entry
  <2>. QED
    BY <2>1 DEF Present
<1>3. CASE Refuse(k) \/ Conflict(k) \/ Lose(k)
  <2>. DEFINE c == Failure(call[k])
  <2>1. /\ c.kind = call[k].kind /\ c.todo = call[k].todo /\ c.body = call[k].body
        /\ c.phase = "failed"
    BY <1>1 DEF Failure, CallState
  <2>2. call' = [call EXCEPT ![k] = c]
    BY <1>3 DEF Refuse, Conflict, Lose
  <2>. HIDE DEF c
  <2>3. \A t \in Known : local[d][t].slice # Blank /\ Brings(call[k], t, local[d][t])
                           => Brings(c, t, local[d][t])
    BY <1>1, <1>2, <2>1 DEF Brings
  <2>. QED
    BY <1>1, <2>1, <2>2, <2>3, CallBrings
<1>4. CASE Begin(k)
  <2>. DEFINE c == [call[k] EXCEPT !.phase = "open", !.data = row[call[k].auth], !.begun = now]
  <2>1. /\ c.kind = call[k].kind /\ c.todo = call[k].todo /\ c.body = call[k].body
        /\ c.phase = "open" /\ c.begun = now /\ call[k].phase = "sent"
    BY <1>1, <1>4 DEF CallState, Begin
  <2>2. call' = [call EXCEPT ![k] = c]
    BY <1>4 DEF Begin, SyncInv, Serial, Inv, TypeOK
  <2>. HIDE DEF c
  <2>3. \A t \in Known : Brings(call[k], t, local[d][t]) => Brings(c, t, local[d][t])
    BY <2>1 DEF Brings
  <2>4. \A e \in Device, t \in Topic : now >= local[e][t].at
    <3>1. \A e \in Device, t \in Topic : local[e][t].at <= now + 0 /\ local[e][t].at \in Nat
      BY DEF ClocksAgree, SyncInv, Serial, Inv, LocalPast, Clock, TypeOK, Bundle, Entry
    <3>. QED
      BY <3>1 DEF SyncInv, Serial, Inv, TypeOK
  <2>. QED
    BY <1>1, <2>1, <2>2, <2>3, <2>4, CallBrings
<1>. QED
  BY <1>3, <1>4

\* What a set() of the store leaves: a topic as it was, a later row, or a
\* dirty slug.
LEMMA StoreRemembers ==
  ASSUME SyncInv, NEW d \in Device, NEW new \in Bundle, Stored(d, new), UNCHANGED row,
         \/ UNCHANGED call
         \/ \E k \in Conn : call' = [call EXCEPT ![k] = Idle] /\ call[k].kind # "push",
         \A t \in Topic : new[t].at = 0 => new[t].slice = Blank,
         \A t \in Topic, a \in Account : \/ new[t] = local[d][t]
                                         \/ new[t].at # local[d][t].at
                                         \/ t \in dirty[d]
                                         \/ row[a][t].at >= new[t].at
  PROVE  Remembers'
<1>1. /\ \A e \in Device : local'[e] = IF e = d THEN new ELSE local[e]
      /\ \A e \in Device : dirty[e] \subseteq dirty'[e]
      /\ \A t \in Topic : new[t].at # local[d][t].at => t \in dirty'[d]
  BY DEF Stored, Moved, SyncInv, Serial, Inv, TypeOK
<1>2. /\ \A j \in Conn : call'[j] = call[j] \/ (call'[j] = Idle /\ call[j].kind # "push")
      /\ Idle.kind = "idle" /\ Idle.phase = "none"
  BY DEF SyncInv, Serial, Inv, TypeOK, Idle
<1>3. Whole'
  BY <1>1 DEF SyncInv, Remembers, Whole
<1>4. NoOrphans' /\ AnswersPast'
  BY <1>2 DEF SyncInv, Remembers, NoOrphans, AnswersPast
<1>5. ASSUME NEW e \in Device, NEW t \in Known, NEW a \in Account, local'[e][t].slice # Blank
      PROVE  Settled(e, t, a)' \/ Coming(e, t)'
  <2>0. t \in Topic
    BY ConstantsAssumption
  <2>1. CASE local'[e][t] = local[e][t]
    <3>1. CASE Settled(e, t, a)
      BY <1>2, <2>1, <3>1 DEF Settled
    <3>2. CASE t \in dirty[e]
      BY <1>1, <3>2 DEF Coming
    <3>3. ASSUME NEW j \in Conn, Owner[j] = e, Brings(call[j], t, local[e][t])
          PROVE  Coming(e, t)'
      <4>1. call'[j] = call[j]
        BY <1>2, <3>3 DEF Brings
      <4>. QED
        BY <2>1, <3>3, <4>1 DEF Coming, Brings
    <3>. QED
      BY <1>5, <2>1, <3>1, <3>2, <3>3 DEF SyncInv, Remembers, NoneIsForgotten, Coming
  <2>2. CASE local'[e][t] # local[e][t]
    <3>1. e = d /\ local'[e][t] = new[t] /\ new[t] # local[d][t]
      BY <1>1, <2>2
    <3>2. CASE t \in dirty'[d]
      BY <3>1, <3>2 DEF Coming
    <3>3. CASE row[a][t].at >= new[t].at
      BY <3>1, <3>3 DEF Settled
    <3>. QED
      BY <1>1, <2>0, <3>1, <3>2, <3>3
  <2>. QED
    BY <2>1, <2>2
<1>. QED
  BY <1>3, <1>4, <1>5 DEF Remembers, NoneIsForgotten

LEMMA EditRemembers ==
  ASSUME SyncInv, NEW d \in Device, NEW t \in Topic, NEW s \in Slice, Edit(d, t, s)
  PROVE  Remembers'
<1>. DEFINE new == [local[d] EXCEPT ![t] = [slice |-> s, at |-> EditAt(d)]]
<1>1. Clock(d) \in Nat /\ Clock(d) > 0 /\ local[d] \in Bundle
  BY ConstantsAssumption DEF SyncInv, Serial, Inv, TypeOK, Clock
<1>2. new \in Bundle
  BY <1>1 DEF Bundle, Entry, EditAt
<1>3. Stored(d, new) /\ UNCHANGED <<row, call>>
  BY DEF Edit
<1>4. \A u \in Topic : new[u].at = 0 => new[u].slice = Blank
  BY <1>1 DEF EditAt, SyncInv, Remembers, Whole, Bundle, Entry
<1>5. \A u \in Topic : new[u] = local[d][u] \/ new[u].at # local[d][u].at \/ u \in dirty[d]
  BY <1>1 DEF Edit, Bundle, Entry
<1>. HIDE DEF new
<1>. QED
  BY <1>2, <1>3, <1>4, <1>5, StoreRemembers

LEMMA MergeRemembers ==
  ASSUME SyncInv, NEW k \in Conn, PullDone(k) \/ LoginDone(k)
  PROVE  Remembers'
<1>. DEFINE d == Owner[k]
            new == Merge(local[d], call[k].data)
<1>1. /\ d \in Device /\ local[d] \in Bundle /\ call[k].data \in Bundle
      /\ call[k].phase = "answered" /\ call[k].kind # "push"
      /\ call' = [call EXCEPT ![k] = Idle] /\ Stored(d, new) /\ UNCHANGED row
  BY ConstantsAssumption DEF PullDone, LoginDone, SyncInv, Serial, Inv, TypeOK, CallState
<1>2. new \in Bundle
  BY <1>1, MergeType
<1>3. ASSUME NEW t \in Topic
      PROVE  new[t] = local[d][t] \/ (new[t] = call[k].data[t] /\ new[t].at > 0)
  BY <1>1 DEF Merge, Present
<1>4. \A t \in Topic, a \in Account : call[k].data[t].at <= row[a][t].at
  BY <1>1 DEF SyncInv, Remembers, AnswersPast
<1>5. \A t \in Topic : local[d][t].at = 0 => local[d][t].slice = Blank
  BY <1>1 DEF SyncInv, Remembers, Whole
<1>6. \A t \in Topic, a \in Account : row[a][t].at \in Nat /\ new[t].at \in Nat
  BY <1>2 DEF SyncInv, Serial, Inv, TypeOK, Bundle, Entry
<1>. HIDE DEF new
<1>7. \A t \in Topic : new[t].at = 0 => new[t].slice = Blank
  BY <1>3, <1>5
<1>8. \A t \in Topic, a \in Account : new[t] = local[d][t] \/ row[a][t].at >= new[t].at
  BY <1>3, <1>4, <1>6
<1>9. \A t \in Topic, a \in Account : \/ new[t] = local[d][t]
                                      \/ new[t].at # local[d][t].at
                                      \/ t \in dirty[d]
                                      \/ row[a][t].at >= new[t].at
  BY <1>8
<1>10. d \in Device /\ Stored(d, new) /\ UNCHANGED row
  BY <1>1
<1>11. \E j \in Conn : call' = [call EXCEPT ![j] = Idle] /\ call[j].kind # "push"
  BY <1>1
<1>. HIDE DEF d
<1>. QED
  BY <1>2, <1>7, <1>9, <1>10, <1>11, StoreRemembers

-----------------------------------------------------------------------------
(***************************************************************************)
(* The commit.                                                             *)
(***************************************************************************)

\* What an isolated transaction leaves of a row: the row itself, which is
\* later than the offer or shows the same, or the offer's slice with a stamp
\* that is not before the beginning.
LEMMA UpsertLeaves ==
  ASSUME NEW seen \in Entry, NEW offer \in Entry, NEW time \in Nat, seen.at <= time
  PROVE  LET u == Upsert(seen, offer, seen, time)
         IN  /\ u \in Entry /\ u.at >= seen.at
             /\ u = seen \/ u.at = time
             /\ u.at >= offer.at \/ u.slice = offer.slice
<1>1. offer.slice \in Slice /\ seen.at \in Nat /\ offer.at \in Nat /\ seen.slice \in Slice
  BY DEF Entry
<1>2. Columns(seen, offer, seen) = offer.slice
  BY <1>1 DEF Columns, Slice
<1>3. CASE ServerWins(seen, offer)
  BY <1>1, <1>3 DEF Upsert, ServerWins
<1>4. CASE ~ServerWins(seen, offer) /\ Present(seen) /\ offer.slice = seen.slice
  BY <1>1, <1>4 DEF Upsert
<1>5. CASE ~ServerWins(seen, offer) /\ ~(Present(seen) /\ offer.slice = seen.slice)
  <2>1. Upsert(seen, offer, seen, time) = [slice |-> offer.slice, at |-> time]
    BY <1>2, <1>5 DEF Upsert
  <2>. QED
    BY <1>1, <2>1 DEF Entry
<1>. QED
  BY <1>3, <1>4, <1>5

\* The rows of the account after the commit, topic by topic.
LEMMA CommitRows ==
  ASSUME SyncInv, ClocksAgree, OneAccount, NEW k \in Conn, Commit(k),
         NEW a \in Account, NEW t \in Topic
  PROVE  /\ row'[a][t] \in Entry /\ row'[a][t].at >= row[a][t].at
         /\ row'[a][t] = row[a][t] \/ row'[a][t].at >= call[k].begun
         /\ Present(call[k].body[t])
              => \/ row'[a][t].at >= call[k].body[t].at
                 \/ row'[a][t].slice = call[k].body[t].slice
         /\ Kept(call[k])[t].at <= row'[a][t].at
<1>. DEFINE c == call[k]
            time == WriteTime(c)
<1>1. /\ c \in CallState /\ c.phase = "open" /\ a = c.auth
      /\ c.data = row[a] /\ row[a][t] \in Entry /\ c.body[t] \in Entry
  BY DEF Commit, SyncInv, Serial, Inv, TypeOK, CallsSound, CallState, Isolated, OneAccount, Bundle
<1>2. c.begun \in Nat /\ now \in Nat /\ c.begun <= now
  BY <1>1 DEF SyncInv, Serial, Inv, TypeOK, CallsSound, CallState
<1>3. time \in Nat /\ time >= c.begun /\ row[a][t].at <= time
  <2>1. Truncate(c.begun) = c.begun /\ Truncate(now) = now
    BY <1>2, TruncateOne
  <2>2. time \in Nat /\ time >= c.begun
    BY <1>2, <2>1 DEF WriteTime
  <2>3. row[a][t].at <= time
    BY <1>1, StampBounds DEF SyncInv
  <2>. QED
    BY <2>2, <2>3
<1>4. row'[a] = Written(c)
  BY <1>1 DEF Commit, SyncInv, Serial, Inv, TypeOK
<1>5. Written(c)[t] = IF Present(c.body[t]) THEN Upsert(row[a][t], c.body[t], row[a][t], time)
                      ELSE row[a][t]
  BY <1>1 DEF Written
<1>. HIDE DEF c, time
<1>6. row'[a][t] \in Entry /\ row'[a][t].at >= row[a][t].at
      /\ (row'[a][t] = row[a][t] \/ row'[a][t].at >= c.begun)
      /\ (Present(c.body[t]) => \/ row'[a][t].at >= c.body[t].at
                                \/ row'[a][t].slice = c.body[t].slice)
  <2>1. row[a][t].at \in Nat
    BY <1>1 DEF Entry
  <2>2. CASE Present(c.body[t])
    <3>1. PICK seen \in Entry : seen = row[a][t]
      BY <1>1
    <3>2. PICK offer \in Entry : offer = c.body[t]
      BY <1>1
    <3>3. PICK n \in Nat : n = time
      BY <1>3
    <3>4. seen.at <= n /\ n >= c.begun
      BY <1>3, <3>1, <3>3
    <3>5. PICK u : u = Upsert(seen, offer, seen, n)
      OBVIOUS
    <3>6. row'[a][t] = u
      BY <1>4, <1>5, <2>2, <3>1, <3>2, <3>3, <3>5
    <3>7. /\ u \in Entry /\ u.at >= seen.at
          /\ u = seen \/ u.at = n
          /\ u.at >= offer.at \/ u.slice = offer.slice
      BY <3>4, <3>5, UpsertLeaves
    <3>. QED
      BY <3>1, <3>2, <3>4, <3>6, <3>7
  <2>3. CASE ~Present(c.body[t])
    BY <1>1, <1>4, <1>5, <2>1, <2>3
  <2>. QED
    BY <2>2, <2>3
<1>7. Kept(c)[t].at <= row'[a][t].at
  <2>1. Kept(c)[t] \in {Absent, row[a][t], row'[a][t]}
    BY <1>1, <1>4 DEF Kept, Reply, Nothing
  <2>2. Absent.at = 0 /\ row'[a][t].at \in Nat
    BY <1>6 DEF Absent, Entry
  <2>. QED
    BY <1>6, <2>1, <2>2
<1>. QED
  BY <1>6, <1>7 DEF c

LEMMA CommitRemembers ==
  ASSUME SyncInv, ClocksAgree, OneAccount, NEW k \in Conn, Commit(k)
  PROVE  Remembers'
<1>. DEFINE c == Answer(call[k], Kept(call[k]))
<1>1. /\ call[k] \in CallState /\ call[k].phase = "open" /\ call[k].kind # "orphan"
      /\ UNCHANGED <<local, dirty>>
      /\ call' = [call EXCEPT ![k] = c]
  BY DEF Commit, clientVars, SyncInv, Serial, Inv, TypeOK, Remembers, NoOrphans
<1>2. /\ c.kind = call[k].kind /\ c.todo = call[k].todo /\ c.phase = "answered"
      /\ c.data = Kept(call[k])
  BY <1>1 DEF Answer, CallState
<1>. HIDE DEF c
<1>3. \A j \in Conn : call'[j] = IF j = k THEN c ELSE call[j]
  BY <1>1 DEF SyncInv, Serial, Inv, TypeOK
<1>4. Whole' /\ NoOrphans'
  BY <1>1, <1>2, <1>3 DEF SyncInv, Remembers, Whole, NoOrphans
<1>5. \A j \in Conn : call'[j].phase # "open"
  BY <1>1, <1>2, <1>3 DEF SyncInv, Serial, OneOpen
<1>6. AnswersPast'
  <2>. SUFFICES ASSUME NEW j \in Conn, NEW a \in Account, NEW t \in Topic,
                       call'[j].phase = "answered"
                PROVE  call'[j].data[t].at <= row'[a][t].at
    BY DEF AnswersPast
  <2>1. CASE j = k
    BY <1>2, <1>3, <2>1, CommitRows
  <2>2. CASE j # k
    <3>1. call'[j] = call[j] /\ call[j].data[t].at <= row[a][t].at
      BY <1>3, <2>2 DEF SyncInv, Remembers, AnswersPast
    <3>2. call[j].data[t].at \in Nat /\ row[a][t].at \in Nat
      BY DEF SyncInv, Serial, Inv, TypeOK, CallState, Bundle, Entry
    <3>3. row'[a][t].at >= row[a][t].at /\ row'[a][t].at \in Nat
      BY CommitRows DEF Entry
    <3>. QED
      BY <3>1, <3>2, <3>3
  <2>. QED
    BY <2>1, <2>2
<1>7. ASSUME NEW d \in Device, NEW t \in Known, NEW a \in Account, local[d][t].slice # Blank
      PROVE  Settled(d, t, a)' \/ Coming(d, t)'
  <2>1. /\ t \in Topic /\ local[d][t].at \in Nat /\ local[d][t].at # 0 /\ row[a][t].at \in Nat
        /\ call[k].begun \in Nat
    BY <1>1, <1>7, ConstantsAssumption
    DEF SyncInv, Remembers, Whole, Serial, Inv, TypeOK, CallState, Bundle, Entry
  <2>2. /\ row'[a][t].at \in Nat /\ row'[a][t].at >= row[a][t].at
        /\ row'[a][t] = row[a][t] \/ row'[a][t].at >= call[k].begun
    BY <2>1, CommitRows DEF Entry
  <2>3. CASE Settled(d, t, a)
    <3>1. CASE row[a][t].at >= local[d][t].at
      BY <1>1, <2>1, <2>2, <3>1 DEF Settled
    <3>2. CASE row[a][t].slice = local[d][t].slice /\ call[k].begun >= local[d][t].at
      BY <1>1, <1>5, <2>1, <2>2, <3>2 DEF Settled
    <3>. QED
      BY <1>1, <2>3, <3>1, <3>2 DEF Settled
  <2>4. CASE t \in dirty[d]
    BY <1>1, <2>4 DEF Coming
  <2>5. ASSUME NEW j \in Conn, Owner[j] = d, Brings(call[j], t, local[d][t])
        PROVE  Settled(d, t, a)' \/ Coming(d, t)'
    <3>1. CASE j # k
      <4>1. call'[j] = call[j]
        BY <1>3, <3>1
      <4>. QED
        BY <1>1, <2>5, <4>1 DEF Coming, Brings
    <3>2. CASE j = k /\ t \in call[k].todo
      <4>1. call'[j] = c
        BY <1>3, <3>2
      <4>. QED
        BY <1>1, <1>2, <2>5, <3>2, <4>1 DEF Coming, Brings
    <3>3. CASE j = k /\ call[k].body[t] = local[d][t]
      <4>1. Present(call[k].body[t])
        BY <2>1, <3>3 DEF Present
      <4>2. \/ row'[a][t].at >= local[d][t].at
            \/ row'[a][t].slice = local[d][t].slice
        BY <2>1, <3>3, <4>1, CommitRows
      <4>. QED
        BY <1>1, <1>5, <4>2 DEF Settled
    <3>. QED
      BY <1>1, <2>5, <3>1, <3>2, <3>3 DEF Brings
  <2>. QED
    BY <1>7, <2>3, <2>4, <2>5 DEF SyncInv, Remembers, NoneIsForgotten, Coming
<1>. QED
  BY <1>1, <1>4, <1>6, <1>7 DEF Remembers, NoneIsForgotten

-----------------------------------------------------------------------------
LEMMA InitRemembers == Init => Remembers
<1>. SUFFICES ASSUME Init
              PROVE  Remembers
  OBVIOUS
<1>1. \A d \in Device, t \in Topic : local[d][t].slice = Blank
  BY DEF Init, Nothing, Absent
<1>2. \A k \in Conn : call[k].kind = "idle" /\ call[k].phase = "none"
  BY DEF Init, Idle
<1>. QED
  BY <1>1, <1>2, ConstantsAssumption
  DEF Remembers, Whole, NoOrphans, AnswersPast, NoneIsForgotten

\* Steps that leave the stores, the calls and the rows alone.
LEMMA StillRemembers ==
  ASSUME SyncInv, UNCHANGED <<local, call, row>>, dirty' = dirty
  PROVE  Remembers'
<1>1. Whole' /\ NoOrphans' /\ AnswersPast'
  BY DEF SyncInv, Remembers, Whole, NoOrphans, AnswersPast
<1>2. NoneIsForgotten'
  BY DEF SyncInv, Remembers, NoneIsForgotten, Settled, Coming, Brings
<1>. QED
  BY <1>1, <1>2 DEF Remembers

LEMMA NextRemembers ==
  ASSUME ClocksAgree, OneAccount, NoReloads
  PROVE  SyncInv /\ [Next]_vars => Remembers'
<1>. SUFFICES ASSUME SyncInv, [Next]_vars
              PROVE  Remembers'
  OBVIOUS
<1>1. ASSUME NEW d \in Device, User(d)
      PROVE  Remembers'
  <2>1. ~Reload(d)
    BY DEF Reload, CanSpend, NoReloads, Budget, SyncInv, Serial, Inv, TypeOK
  <2>2. CASE PreferLang(d) \/ Logout(d)
    BY <2>2, StillRemembers DEF PreferLang, Logout
  <2>. QED
    BY <1>1, <2>1, <2>2, EditRemembers DEF User
<1>2. ASSUME NEW k \in Conn, Page(k) \/ Server(k) \/ Focus(k) \/ Lose(k)
      PROVE  Remembers'
  BY <1>2, FlushRemembers, MergeRemembers, OtherRemembers, RequestRemembers, CommitRemembers
  DEF Page, Server
<1>3. ASSUME NEW k \in Conn, NEW a \in Account, Login(k, a)
      PROVE  Remembers'
  BY <1>3, OtherRemembers
<1>4. CASE Tick
  BY <1>4, StillRemembers DEF Tick, clientVars
<1>5. CASE UNCHANGED vars
  BY <1>5, StillRemembers DEF vars, clientVars
<1>. QED
  BY <1>1, <1>2, <1>3, <1>4, <1>5 DEF Next

(***************************************************************************)
(* Whatever pushes, pulls, logins and edits of any number of devices       *)
(* interleave, requests are lost on either side of the commit and slugs    *)
(* are refused: what a device shows has reached the row, lost to a later   *)
(* write there, or is on its way (flushPush, syncFromServer, _upsert_one). *)
(***************************************************************************)
THEOREM EditsAreRemembered ==
  ASSUME IsFiniteSet(Conn), MaxOpen = 1, ClocksAgree, OneAccount, NoReloads
  PROVE  Spec => []NothingForgotten
<1>1. Init => SyncInv
  BY InitSerial, InitRemembers DEF SyncInv
<1>2. SyncInv /\ [Next]_vars => SyncInv'
  BY NextSerial, NextRemembers DEF SyncInv
<1>. QED
  BY <1>1, <1>2, SyncImplies, PTL DEF Spec
=============================================================================
