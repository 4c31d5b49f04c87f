----------------------- MODULE ProgressSync_refinement -----------------------
(***************************************************************************)
(* With one transaction open at a time the progress API implements the     *)
(* last-write-wins register of ProgressRegister.  The read, the decision   *)
(* and the commit of a request are separate steps, so the invariant must   *)
(* say that an open transaction still holds what the rows are, and that    *)
(* the stamp it is going to write is not older than any of theirs.         *)
(***************************************************************************)
EXTENDS ProgressSync_proofs, FiniteSetTheorems

OneOpen ==
    \A j \in Conn, k \in Conn :
        call[j].phase = "open" /\ call[k].phase = "open" => j = k

Isolated ==
    \A k \in Conn : call[k].phase = "open" =>
        /\ call[k].data = row[call[k].auth]
        /\ call[k].begun >= Resolution
        /\ \A a \in Account, t \in Topic : row[a][t].at <= Truncate(call[k].begun)

Serial == Inv /\ now >= Resolution /\ OneOpen /\ Isolated

LEMMA InitSerial == Init => Serial
<1>. SUFFICES ASSUME Init
              PROVE  Serial
  OBVIOUS
<1>1. now >= Resolution
  BY ConstantsAssumption DEF Init
<1>2. OneOpen /\ Isolated
  BY DEF Init, OneOpen, Isolated, Idle
<1>. QED
  BY <1>1, <1>2, InitInv DEF Serial

\* Steps that open no transaction and leave the rows and the open ones alone.
LEMMA NothingOpens ==
  ASSUME Serial, Inv', row' = row, now' \in Nat, now' >= now,
         \A k \in Conn : call'[k].phase = "open" =>
             /\ call[k].phase = "open" /\ call'[k].auth = call[k].auth
             /\ call'[k].data = call[k].data /\ call'[k].begun = call[k].begun
  PROVE  Serial'
<1>1. now' >= Resolution
  BY ConstantsAssumption DEF Serial, Inv, TypeOK
<1>2. OneOpen'
  BY DEF Serial, OneOpen
<1>3. Isolated'
  BY DEF Serial, Isolated, Truncate
<1>. QED
  BY <1>1, <1>2, <1>3 DEF Serial

\* One call moves on, and is not an open transaction afterwards.
LEMMA CallCloses ==
  ASSUME Serial, Inv', row' = row, now' = now,
         NEW k \in Conn, NEW c, c.phase # "open", call' = [call EXCEPT ![k] = c]
  PROVE  Serial'
<1>1. now' \in Nat /\ now' >= now
  BY DEF Serial, Inv, TypeOK
<1>2. ASSUME NEW j \in Conn, call'[j].phase = "open"
      PROVE  call'[j] = call[j]
  BY <1>2 DEF Serial, Inv, TypeOK
<1>. QED
  BY <1>1, <1>2, NothingOpens

LEMMA ReplyCloses ==
  ASSUME NEW c \in CallState, NEW reply
  PROVE  Answer(c, reply).phase # "open" /\ Failure(c).phase # "open"
  BY Blanks DEF Answer, Failure, CallState, Idle

LEMMA ContinueSerial ==
  ASSUME Serial, Inv', UNCHANGED <<now, row>>,
         NEW k \in Conn, NEW todo \in SUBSET Topic, Continue(k, todo)
  PROVE  Serial'
<1>1. PICK c \in CallState : Fresh(c) /\ call' = [call EXCEPT ![k] = c]
  BY ContinueType DEF Serial, Inv
<1>. QED
  BY <1>1, CallCloses DEF Fresh

LEMMA PullSerial ==
  ASSUME Serial, Inv', UNCHANGED <<now, row>>, NEW k \in Conn, Pull(k)
  PROVE  Serial'
<1>1. Request(Owner[k], "pull", {}, Nothing).phase = "sent"
  BY ConstantsAssumption, RequestType, Blanks DEF Kind, Serial, Inv
<1>. QED
  BY <1>1, CallCloses DEF Pull

LEMMA LoginSerial ==
  ASSUME Serial, Inv', NEW k \in Conn, NEW a \in Account, Login(k, a)
  PROVE  Serial'
<1>. DEFINE d == Owner[k]
            request(kind) == [Request(d, kind, {}, LoginBody(d)) EXCEPT !.auth = a]
<1>1. d \in Device /\ LoginBody(d) \in Bundle
  BY ConstantsAssumption, PayloadType DEF LoginBody, Bundle, Serial, Inv, TypeOK
<1>2. ASSUME NEW kind \in Kind
      PROVE  request(kind).phase = "sent"
  <2>. DEFINE r == Request(d, kind, {}, LoginBody(d))
  <2>1. r \in CallState /\ r.phase = "sent"
    BY <1>1, RequestType DEF Serial, Inv
  <2>. HIDE DEF r
  <2>2. [r EXCEPT !.auth = a].phase = "sent"
    BY <2>1 DEF CallState
  <2>. QED
    BY <2>2 DEF r
<1>. HIDE DEF request
<1>3. \/ call' = [call EXCEPT ![k] = request("login")]
      \/ call' = [call EXCEPT ![k] = request("pull")]
  BY DEF Login, request
<1>. QED
  BY <1>2, <1>3, CallCloses DEF Login, Kind

LEMMA ReloadSerial ==
  ASSUME Serial, Inv', NEW d \in Device, Reload(d)
  PROVE  Serial'
<1>. DEFINE left == [k \in Conn |-> IF Owner[k] = d THEN Abandoned(call[k])
                                    ELSE call[k]]
<1>1. ASSUME NEW k \in Conn, left[k].phase = "open"
      PROVE  /\ call[k].phase = "open" /\ left[k].auth = call[k].auth
             /\ left[k].data = call[k].data /\ left[k].begun = call[k].begun
  <2>1. call[k] \in CallState /\ left[k].phase = "open"
    BY <1>1 DEF Serial, Inv, TypeOK
  <2>2. CASE left[k] = call[k]
    BY <2>1, <2>2
  <2>3. CASE left[k] = [call[k] EXCEPT !.kind = "orphan", !.todo = {}]
    BY <2>1, <2>3 DEF CallState
  <2>4. CASE left[k] = Idle
    BY <2>1, <2>4 DEF Idle
  <2>. QED
    BY <2>2, <2>3, <2>4 DEF Abandoned
<1>2. Request(d, "pull", {}, Nothing).phase = "sent"
  BY RequestType, Blanks DEF Kind, Serial, Inv
<1>3. DOMAIN left = Conn
  OBVIOUS
<1>. HIDE DEF left
<1>4. \/ call' = left
      \/ \E k \in Conn : call' = [left EXCEPT ![k] = Request(d, "pull", {}, Nothing)]
  BY DEF Reload, left
<1>5. ASSUME NEW k \in Conn, call'[k].phase = "open"
      PROVE  call'[k] = left[k]
  BY <1>2, <1>3, <1>4, <1>5
<1>6. now' \in Nat /\ now' >= now /\ row' = row
  BY DEF Reload, Serial, Inv, TypeOK
<1>. QED
  BY <1>1, <1>5, <1>6, NothingOpens

LEMMA BeginSerial ==
  ASSUME Serial, Inv', IsFiniteSet(Conn), MaxOpen = 1, NEW k \in Conn, Begin(k)
  PROVE  Serial'
<1>1. \A j \in Conn : call[j].phase # "open"
  <2>1. IsFiniteSet(Open)
    BY FS_Subset DEF Open
  <2>2. Cardinality(Open) \in Nat /\ Cardinality(Open) < 1
    BY <2>1, FS_CardinalityType DEF Begin
  <2>3. Open = {}
    BY <2>1, <2>2, FS_EmptySet
  <2>. QED
    BY <2>3 DEF Open
<1>2. \A j \in Conn : j # k => call'[j] = call[j]
  BY DEF Begin, Serial, Inv, TypeOK
<1>3. OneOpen'
  BY <1>1, <1>2 DEF OneOpen
<1>4. /\ call'[k].auth = call[k].auth /\ call'[k].data = row[call[k].auth]
      /\ call'[k].begun = now
  BY DEF Begin, Serial, Inv, TypeOK, CallState
<1>5. /\ now' = now /\ row' = row /\ now >= Resolution
      /\ \A a \in Account, t \in Topic : row[a][t].at <= Truncate(now)
  BY DEF Begin, Serial, Inv, RowsPast
<1>6. Isolated'
  BY <1>1, <1>2, <1>4, <1>5 DEF Isolated, Truncate
<1>. QED
  BY <1>3, <1>5, <1>6 DEF Serial

LEMMA CommitSerial ==
  ASSUME Serial, Inv', NEW k \in Conn, Commit(k)
  PROVE  Serial'
<1>1. call[k] \in CallState /\ call[k].phase = "open"
  BY DEF Commit, Serial, Inv, TypeOK
<1>2. call' = [call EXCEPT ![k] = Answer(call[k], Kept(call[k]))]
  BY DEF Commit
<1>3. Answer(call[k], Kept(call[k])).phase # "open"
  BY <1>1, ReplyCloses
<1>4. ASSUME NEW j \in Conn
      PROVE  call'[j].phase # "open"
  BY <1>1, <1>2, <1>3 DEF Serial, OneOpen, Inv, TypeOK
<1>5. now' = now
  BY DEF Commit
<1>. QED
  BY <1>4, <1>5 DEF Serial, OneOpen, Isolated

LEMMA ServerSerial ==
  ASSUME Serial, Inv', NEW k \in Conn,
         ServeGet(k) \/ Refuse(k) \/ Conflict(k) \/ Lose(k)
  PROVE  Serial'
<1>1. call[k] \in CallState /\ row' = row /\ now' = now
  BY DEF Serial, Inv, TypeOK, ServeGet, Refuse, Conflict, Lose
<1>2. \/ call' = [call EXCEPT ![k] = Answer(call[k], row[call[k].auth])]
      \/ call' = [call EXCEPT ![k] = Failure(call[k])]
  BY DEF ServeGet, Refuse, Conflict, Lose
<1>. QED
  BY <1>1, <1>2, ReplyCloses, CallCloses

LEMMA PageSerial ==
  ASSUME Serial, Inv', NEW k \in Conn, Page(k)
  PROVE  Serial'
<1>1. ASSUME FirePush(k)
      PROVE  Serial'
  <2>1. dirty[Owner[k]] \in SUBSET Topic
    BY ConstantsAssumption DEF Serial, Inv, TypeOK
  <2>. QED
    BY <1>1, <2>1, ContinueSerial DEF FirePush
<1>2. ASSUME PutDone(k) \/ PutFailed(k)
      PROVE  Serial'
  <2>1. call[k].todo \in SUBSET Topic
    BY DEF Serial, Inv, TypeOK, CallState
  <2>. QED
    BY <1>2, <2>1, ContinueSerial DEF PutDone, PutFailed
<1>3. Idle.phase # "open"
  BY DEF Idle
<1>4. ASSUME PullDone(k) \/ PullFailed(k) \/ LoginDone(k)
      PROVE  Serial'
  BY <1>3, <1>4, CallCloses DEF PullDone, PullFailed, LoginDone
<1>5. ASSUME LoginFailed(k)
      PROVE  Serial'
  BY <1>3, <1>5, CallCloses, PullSerial DEF LoginFailed
<1>. QED
  BY <1>1, <1>2, <1>4, <1>5 DEF Page

LEMMA StillSerial ==
  ASSUME Serial, Inv', UNCHANGED <<call, row>>, now' \in Nat, now' >= now
  PROVE  Serial'
  BY NothingOpens

LEMMA NextSerial ==
  ASSUME IsFiniteSet(Conn), MaxOpen = 1
  PROVE  Serial /\ [Next]_vars => Serial'
<1>. SUFFICES ASSUME Serial, [Next]_vars
              PROVE  Serial'
  OBVIOUS
<1>1. Inv' /\ now \in Nat
  BY NextInv DEF Serial, Inv, TypeOK
<1>2. ASSUME NEW d \in Device, User(d)
      PROVE  Serial'
  <2>1. CASE UNCHANGED <<now, call, row>>
    BY <1>1, <2>1, StillSerial
  <2>. QED
    BY <1>1, <1>2, <2>1, ReloadSerial DEF User, Edit, PreferLang, Logout
<1>3. ASSUME NEW k \in Conn, Page(k) \/ Server(k) \/ Focus(k) \/ Lose(k)
      PROVE  Serial'
  BY <1>1, <1>3, PageSerial, ServerSerial, BeginSerial, CommitSerial, PullSerial
     DEF Server, Focus
<1>4. CASE Tick
  BY <1>1, <1>4, StillSerial DEF Tick
<1>5. CASE UNCHANGED vars
  BY <1>1, <1>5, StillSerial DEF vars
<1>. QED
  BY <1>1, <1>2, <1>3, <1>4, <1>5, LoginSerial DEF Next

LEMMA SerialInvariance ==
  ASSUME IsFiniteSet(Conn), MaxOpen = 1
  PROVE  Spec => []Serial
  BY InitSerial, NextSerial, PTL DEF Spec

-----------------------------------------------------------------------------
(***************************************************************************)
(* The step simulation.                                                    *)
(***************************************************************************)

\* The register's offers, as this specification shows them.
Offers == [k \in Conn |-> Offer(call[k])]

NoOffer == [auth |-> NoAccount, body |-> Nothing]

LEMMA SameNothing == Register!NoOffer = NoOffer /\ Register!Absent = Absent
  BY DEF Register!NoOffer, Register!Absent, NoOffer, Nothing, Absent

\* One call moves on: its offer stays, appears or disappears.
LEMMA OfferTurns ==
  ASSUME Serial, UNCHANGED <<now, row>>,
         NEW k \in Conn, NEW c, call' = [call EXCEPT ![k] = c],
         \/ Offer(c) = Offer(call[k])
         \/ Offer(c) = NoOffer
         \/ Offer(call[k]) = NoOffer
  PROVE  [Register!Next]_(Register!vars)
<1>1. Offers' = [Offers EXCEPT ![k] = Offer(c)]
  BY DEF Offers, Offer, Writes, Serial, Inv, TypeOK
<1>2. Offers[k] = Offer(call[k]) /\ Offers'[k] = Offer(c)
  BY <1>1 DEF Offers
<1>3. CASE Offer(c) = Offer(call[k])
  <2>1. Offers' = Offers
    BY <1>1, <1>2, <1>3 DEF Offers
  <2>. QED
    BY <2>1 DEF Register!vars, Offers
<1>4. CASE Offer(c) = NoOffer \/ Offer(call[k]) = NoOffer
  <2>1. Register!Turn(k)
    BY <1>1, <1>2, <1>4, SameNothing DEF Register!Turn, Offers
  <2>. QED
    BY <2>1 DEF Register!Next
<1>. QED
  BY <1>3, <1>4

\* No call moves.
LEMMA OffersStay ==
  ASSUME UNCHANGED <<now, call, row>>
  PROVE  [Register!Next]_(Register!vars)
  BY DEF Register!vars, Offer, Writes

LEMMA TruncateLeast ==
  ASSUME NEW n \in Nat, n >= Resolution
  PROVE  Truncate(n) >= Resolution
<1>1. Resolution \in Nat \ {0} /\ Resolution \div Resolution = 1
  BY ConstantsAssumption, SMTT(30)
<1>2. Truncate(Resolution) = Resolution
  BY <1>1 DEF Truncate
<1>. QED
  BY <1>1, <1>2, TruncateBounds, TruncateMonotone

\* The stamp of an isolated transaction.
LEMMA StampBounds ==
  ASSUME Serial, NEW k \in Conn, call[k].phase = "open"
  PROVE  /\ WriteTime(call[k]) \in 1..now
         /\ \A a \in Account, t \in Topic : row[a][t].at <= WriteTime(call[k])
<1>1. /\ now \in Nat /\ call[k].begun \in Nat /\ Resolution \in Nat \ {0}
      /\ call[k].begun >= Resolution /\ now >= Resolution /\ call[k].begun <= now
  BY ConstantsAssumption
     DEF Serial, Isolated, Inv, TypeOK, CallsSound, CallState
<1>2. /\ Truncate(now) \in Nat /\ Truncate(now) <= now
      /\ Truncate(call[k].begun) \in Nat /\ Truncate(call[k].begun) <= call[k].begun
      /\ Truncate(now) >= Resolution /\ Truncate(call[k].begun) >= Resolution
  BY <1>1, TruncateBounds, TruncateLeast
<1>3. WriteTime(call[k]) \in {Truncate(call[k].begun), Truncate(now)}
  BY DEF WriteTime
<1>4. \A a \in Account, t \in Topic :
          row[a][t].at <= Truncate(call[k].begun) /\ row[a][t].at <= Truncate(now)
  BY DEF Serial, Isolated, Inv, RowsPast
<1>. QED
  BY <1>1, <1>2, <1>3, <1>4

\* An upsert over the row it read is the register's rule.
LEMMA UpsertSettles ==
  ASSUME NEW mine \in Entry, NEW theirs \in Entry, NEW stamp \in Nat,
         Present(theirs)
  PROVE  Upsert(mine, theirs, mine, stamp) = Register!Settled(mine, theirs, stamp)
<1>1. theirs.slice \in [Field -> Value] /\ theirs.at \in Nat /\ mine.at \in Nat
  BY DEF Entry, Slice
<1>2. Columns(mine, theirs, mine) = theirs.slice
  BY <1>1 DEF Columns
<1>3. Register!Accepts(mine, theirs) <=> ~ServerWins(mine, theirs)
  BY <1>1 DEF Register!Accepts, Register!Present, ServerWins, Present
<1>. QED
  BY <1>2, <1>3 DEF Upsert, Register!Settled, Register!Present, Present

LEMMA CommitSettles ==
  ASSUME Serial, NEW k \in Conn, Commit(k)
  PROVE  Register!Settle(k)
<1>. DEFINE c == call[k]
            stamp == WriteTime(c)
<1>1. /\ c \in CallState /\ c.phase = "open" /\ Writes(c) /\ c.auth \in Account
      /\ c.auth # NoAccount
  BY ConstantsAssumption DEF Commit, Serial, Inv, TypeOK, CallsSound
<1>2. /\ c.data = row[c.auth] /\ row[c.auth] \in Bundle /\ c.body \in Bundle
  BY <1>1 DEF Serial, Isolated, Inv, TypeOK, CallState
<1>3. /\ stamp \in 1..now /\ stamp \in Nat
      /\ \A a \in Account, t \in Topic : row[a][t].at <= stamp
  BY <1>1, StampBounds DEF Serial, Inv, TypeOK
<1>4. Offers[k] = [auth |-> c.auth, body |-> c.body]
  BY <1>1 DEF Offers, Offer
<1>5. Offers[k] # Register!NoOffer
  BY <1>1, <1>4 DEF Register!NoOffer
<1>6. Offers' = [Offers EXCEPT ![k] = Register!NoOffer]
  <2>1. call' = [call EXCEPT ![k] = Answer(c, Kept(c))]
    BY DEF Commit
  <2>2. Offer(Answer(c, Kept(c))) = NoOffer
    BY <1>1 DEF Answer, Offer, NoOffer, Idle, CallState
  <2>. QED
    BY <2>1, <2>2, SameNothing DEF Offers, Offer, Writes, Serial, Inv, TypeOK
<1>7. Written(c) = [t \in Topic |-> Register!Settled(row[c.auth][t], c.body[t], stamp)]
  <2>. SUFFICES ASSUME NEW t \in Topic
                PROVE  Written(c)[t] = Register!Settled(row[c.auth][t], c.body[t], stamp)
    BY DEF Written
  <2>1. row[c.auth][t] \in Entry /\ c.body[t] \in Entry
    BY <1>2 DEF Bundle
  <2>2. CASE Present(c.body[t])
    BY <1>2, <1>3, <2>1, <2>2, UpsertSettles DEF Written
  <2>3. CASE ~Present(c.body[t])
    BY <2>3 DEF Written, Register!Settled, Register!Accepts, Register!Present, Present
  <2>. QED
    BY <2>2, <2>3
<1>8. row' = [row EXCEPT ![c.auth] =
                [t \in Topic |-> Register!Settled(row[c.auth][t], c.body[t], stamp)]]
  BY <1>7 DEF Commit
<1>9. \A t \in Topic : row'[c.auth][t].at >= row[c.auth][t].at
  <2>1. \A t \in Topic : row[c.auth][t].at \in Nat
    BY <1>2 DEF Bundle, Entry
  <2>. QED
    BY <1>1, <1>3, <1>8, <2>1 DEF Register!Settled, Serial, Inv, TypeOK
<1>10. now' = now
  BY DEF Commit
<1>11. /\ row' = [row EXCEPT ![Offers[k].auth] =
                    [t \in Topic |-> Register!Settled(row[Offers[k].auth][t], Offers[k].body[t], stamp)]]
       /\ \A t \in Topic : row'[Offers[k].auth][t].at >= row[Offers[k].auth][t].at
  <2>1. Offers[k].auth = c.auth /\ Offers[k].body = c.body
    BY <1>4
  <2>. QED
    BY <1>8, <1>9, <2>1, Zenon
<1>12. Offers[k].auth # NoAccount
  BY <1>1, <1>4
<1>13. stamp \in 1 .. now
  BY <1>3
<1>. HIDE DEF c, stamp
<1>. QED
  BY <1>5, <1>6, <1>10, <1>11, <1>12, <1>13, Zenon DEF Register!Settle, Offers

\* A call that is no write under way offers nothing.
LEMMA OffersNothing ==
  ASSUME NEW c, ~Writes(c) \/ c.phase \notin {"sent", "open"}
  PROVE  Offer(c) = NoOffer
  BY DEF Offer, NoOffer

LEMMA ContinueTurns ==
  ASSUME Serial, UNCHANGED <<now, row>>, NEW k \in Conn, NEW todo \in SUBSET Topic,
         Continue(k, todo), call[k].phase \notin {"sent", "open"}
  PROVE  [Register!Next]_(Register!vars)
<1>1. PICK c \in CallState : Fresh(c) /\ call' = [call EXCEPT ![k] = c]
  BY ContinueType DEF Serial, Inv
<1>2. Offer(call[k]) = NoOffer
  BY OffersNothing
<1>. QED
  BY <1>1, <1>2, OfferTurns

LEMMA PageTurns ==
  ASSUME Serial, NEW k \in Conn, Page(k) \/ Focus(k)
  PROVE  [Register!Next]_(Register!vars)
<1>1. call[k].todo \in SUBSET Topic /\ dirty[Owner[k]] \in SUBSET Topic
  BY ConstantsAssumption DEF Serial, Inv, TypeOK, CallState
<1>2. CASE FirePush(k)
  BY <1>1, <1>2, ContinueTurns DEF FirePush, Idle
<1>3. CASE PutDone(k) \/ PutFailed(k)
  BY <1>1, <1>3, ContinueTurns DEF PutDone, PutFailed, clientVars
<1>4. ~Writes(Idle)
  BY DEF Idle, Writes
<1>5. CASE PullDone(k) \/ PullFailed(k) \/ LoginDone(k)
  <2>1. call' = [call EXCEPT ![k] = Idle] /\ UNCHANGED <<now, row>>
    BY <1>5 DEF PullDone, PullFailed, LoginDone, clientVars
  <2>. QED
    BY <1>4, <2>1, OffersNothing, OfferTurns
<1>6. CASE LoginFailed(k) \/ Focus(k)
  <2>. DEFINE c == Request(Owner[k], "pull", {}, Nothing)
  <2>1. c.kind = "pull"
    BY DEF Request, Idle
  <2>2. UNCHANGED <<now, row>>
    BY <1>6 DEF LoginFailed, Focus
  <2>3. call' = [call EXCEPT ![k] = Idle] \/ call' = [call EXCEPT ![k] = c]
    BY <1>6 DEF LoginFailed, Focus, Pull
  <2>4. Offer(Idle) = NoOffer /\ Offer(c) = NoOffer
    BY <1>4, <2>1, OffersNothing DEF Writes
  <2>. HIDE DEF c
  <2>. QED
    BY <2>2, <2>3, <2>4, OfferTurns
<1>. QED
  BY <1>2, <1>3, <1>5, <1>6 DEF Page

LEMMA LoginTurns ==
  ASSUME Serial, NEW k \in Conn, NEW a \in Account, Login(k, a)
  PROVE  [Register!Next]_(Register!vars)
<1>. DEFINE d == Owner[k]
            request(kind) == [Request(d, kind, {}, LoginBody(d)) EXCEPT !.auth = a]
<1>1. Offer(call[k]) = NoOffer /\ UNCHANGED <<now, row>>
  BY OffersNothing DEF Login, Idle, Writes
<1>. HIDE DEF request
<1>2. \/ call' = [call EXCEPT ![k] = request("login")]
      \/ call' = [call EXCEPT ![k] = request("pull")]
  BY DEF Login, request
<1>. QED
  BY <1>1, <1>2, OfferTurns

LEMMA ReloadStays ==
  ASSUME Serial, NEW d \in Device, Reload(d)
  PROVE  [Register!Next]_(Register!vars)
<1>. DEFINE left == [k \in Conn |-> IF Owner[k] = d THEN Abandoned(call[k])
                                    ELSE call[k]]
            r == Request(d, "pull", {}, Nothing)
<1>1. ASSUME NEW k \in Conn
      PROVE  Offer(left[k]) = Offer(call[k])
  <2>1. call[k] \in CallState
    BY DEF Serial, Inv, TypeOK
  <2>2. CASE left[k] = call[k]
    BY <2>2
  <2>3. CASE /\ call[k].kind \in {"push", "login", "orphan"}
             /\ left[k] = [call[k] EXCEPT !.kind = "orphan", !.todo = {}]
    BY <2>1, <2>3 DEF Offer, Writes, CallState
  <2>4. CASE /\ left[k] = Idle
             /\ ~(Writes(call[k]) /\ call[k].phase \in {"sent", "open"})
    BY <2>4, OffersNothing DEF Idle, Writes
  <2>. QED
    BY <2>2, <2>3, <2>4 DEF Abandoned, Writes
<1>2. Offer(Idle) = NoOffer /\ Offer(r) = NoOffer
  BY OffersNothing DEF Idle, Writes, Request
<1>3. DOMAIN left = Conn
  OBVIOUS
<1>4. \/ call' = left
      \/ \E k \in Conn : left[k] = Idle /\ call' = [left EXCEPT ![k] = r]
  BY DEF Reload
<1>. HIDE DEF left, r
<1>5. \A k \in Conn : Offer(call'[k]) = Offer(call[k])
  BY <1>1, <1>2, <1>3, <1>4
<1>6. Offers' = [k \in Conn |-> Offer(call'[k])]
  BY DEF Offers, Offer, Writes
<1>7. Offers' = Offers
  BY <1>5, <1>6 DEF Offers
<1>8. UNCHANGED <<now, row>>
  BY DEF Reload
<1>. QED
  BY <1>7, <1>8 DEF Offers, Register!vars

LEMMA ServerTurns ==
  ASSUME Serial, NEW k \in Conn, Server(k) \/ Lose(k)
  PROVE  [Register!Next]_(Register!vars)
<1>1. call[k] \in CallState
  BY DEF Serial, Inv, TypeOK
<1>2. Offer(Failure(call[k])) = NoOffer
  BY <1>1 DEF Failure, Offer, NoOffer, Idle, CallState
<1>3. CASE ServeGet(k)
  <2>. DEFINE c == Answer(call[k], row[call[k].auth])
  <2>1. Offer(c) = NoOffer
    BY <1>1, <1>3 DEF ServeGet, Answer, Offer, NoOffer, CallState
  <2>. HIDE DEF c
  <2>. QED
    BY <1>3, <2>1, OfferTurns DEF ServeGet, clientVars, c
<1>4. CASE Refuse(k) \/ Conflict(k) \/ Lose(k)
  BY <1>2, <1>4, OfferTurns DEF Refuse, Conflict, Lose, clientVars
<1>5. CASE Begin(k)
  <2>. DEFINE c == [call[k] EXCEPT !.phase = "open", !.data = row[call[k].auth],
                                   !.begun = now]
  <2>1. call' = [call EXCEPT ![k] = c] /\ UNCHANGED <<now, row>>
    BY <1>5 DEF Begin, clientVars, Serial, Inv, TypeOK
  <2>2. Offer(c) = Offer(call[k])
    BY <1>1, <1>5 DEF Begin, Offer, Writes, CallState
  <2>. HIDE DEF c
  <2>. QED
    BY <2>1, <2>2, OfferTurns
<1>6. CASE Commit(k)
  BY <1>6, CommitSettles DEF Register!Next
<1>. QED
  BY <1>3, <1>4, <1>5, <1>6 DEF Server

LEMMA NextTurns == Serial /\ [Next]_vars => [Register!Next]_(Register!vars)
<1>. SUFFICES ASSUME Serial, [Next]_vars
              PROVE  [Register!Next]_(Register!vars)
  OBVIOUS
<1>1. ASSUME NEW d \in Device, User(d)
      PROVE  [Register!Next]_(Register!vars)
  <2>1. CASE UNCHANGED <<now, call, row>>
    BY <2>1, OffersStay
  <2>. QED
    BY <1>1, <2>1, ReloadStays DEF User, Edit, PreferLang, Logout
<1>2. CASE Tick
  <2>1. Register!Advance
    BY <1>2 DEF Tick, Register!Advance, Offer, Writes
  <2>. QED
    BY <2>1 DEF Register!Next
<1>3. CASE UNCHANGED vars
  BY <1>3, OffersStay DEF vars
<1>. QED
  BY <1>1, <1>2, <1>3, PageTurns, ServerTurns, LoginTurns DEF Next

LEMMA InitMaps == Init => Register!Init
<1>1. Offer(Idle) = Register!NoOffer
  BY OffersNothing, SameNothing DEF Idle, Writes
<1>. QED
  BY <1>1, ConstantsAssumption DEF Init, Register!Init, Nothing, Absent, Register!Absent

(***************************************************************************)
(* With one transaction open at a time the API is the register, for any    *)
(* finite number of connections, any devices, topics and clocks, with lost *)
(* requests, reloads, refused slugs and failed inserts.                    *)
(***************************************************************************)
THEOREM ImplementsRegister ==
  ASSUME IsFiniteSet(Conn), MaxOpen = 1
  PROVE  Spec => ServesTheRegister
  BY InitMaps, NextTurns, SerialInvariance, PTL DEF Spec, ServesTheRegister, Register!Spec
=============================================================================
