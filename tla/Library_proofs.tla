---------------------------- MODULE Library_proofs ----------------------------
(***************************************************************************)
(* Theorems about the parts that MCLibrary composes: the accounts, for any *)
(* accounts, connections and codes; the gate before the runner, for any    *)
(* accounts, caps and length of the window; the edges between topics, for  *)
(* any topics and any seed; the reader, for any documents; and the diff of *)
(* the review pane, for any texts.                                         *)
(***************************************************************************)
EXTENDS Reader, Accounts, RunGate, PrerequisiteGraph, LineDiff,
        FiniteSetTheorems, SequenceTheorems, WellFoundedInduction, TLAPS

-----------------------------------------------------------------------------
(***************************************************************************)
(* What a checked request relies on until it commits.  It still holds then *)
(* when requests do not overlap, since nothing else may commit between.    *)
(***************************************************************************)

\* Another admin than the one who is about to be demoted or deactivated.
Spare(u) == \E b \in Account \ {u} : Admin(b)

StillTrue(w) ==
    /\ w.op = "role" => Spare(w.who)
    /\ w.op = "active" => w.to = TRUE \/ Spare(w.who)
    /\ w.op = "recover" => code[w.who] = w.with

OneOpen == \A c, d \in Client : open[c] # NoRequest /\ open[d] # NoRequest => c = d
OpenStillTrue == \A c \in Client : open[c] # NoRequest => StillTrue(open[c])

(***************************************************************************)
(* A code that an account holds was issued to it alone, and has not been   *)
(* exchanged.                                                              *)
(***************************************************************************)
CodesAreFresh ==
    /\ \A a \in Account : code[a] <= issued
    /\ \A a, b \in Account : code[a] = code[b] /\ code[a] # 0 => a = b
    /\ \A a \in Account : code[a] # 0 => sessions[code[a]] = 0
    /\ \A k \in 1 .. MaxCodes : k > issued => sessions[k] = 0

AccountsInv ==
    /\ AccountsTypeOK /\ OneOpen /\ OpenStillTrue /\ CodesAreFresh
    /\ AnAdminRemains /\ CodeWorksOnce

-----------------------------------------------------------------------------
(***************************************************************************)
(* Types, however requests overlap.                                        *)
(***************************************************************************)

LEMMA NoRequestIsNoWrite == NoRequest \notin Write
  BY DEF NoRequest, Write

LEMMA TypesStart == AccountsInit => AccountsTypeOK
  BY AccountsAssumption DEF AccountsInit, AccountsTypeOK, UserRole

LEMMA BeginType ==
  ASSUME AccountsTypeOK, NEW c \in Client, NEW w \in Write, Begin(c, w)
  PROVE  AccountsTypeOK'
  BY DEF AccountsTypeOK, Begin

\* The three kinds of commit.
RoleCommitted(w) ==
    /\ w \in [op : {"role"}, who : Account, to : UserRole]
    /\ role' = [role EXCEPT ![w.who] = w.to]
    /\ UNCHANGED <<active, code, sessions>>
ActiveCommitted(w) ==
    /\ w \in [op : {"active"}, who : Account, to : BOOLEAN]
    /\ active' = [active EXCEPT ![w.who] = w.to]
    /\ UNCHANGED <<role, code, sessions>>
RecoverCommitted(w) ==
    /\ w \in [op : {"recover"}, who : Account, with : 1 .. MaxCodes]
    /\ code' = [code EXCEPT ![w.who] = 0]
    /\ sessions' = [sessions EXCEPT ![w.with] = @ + 1]
    /\ UNCHANGED <<role, active>>

LEMMA CommitCases ==
  ASSUME AccountsTypeOK, NEW c \in Client, Commit(c)
  PROVE  RoleCommitted(open[c]) \/ ActiveCommitted(open[c]) \/ RecoverCommitted(open[c])
<1>1. open[c] \in Write
  BY DEF AccountsTypeOK, Commit
<1>2. CASE open[c].op = "role"
  <2>1. open[c] \in [op : {"role"}, who : Account, to : UserRole]
    BY <1>1, <1>2 DEF Write
  <2>. QED
    BY <1>2, <2>1 DEF Commit, RoleCommitted
<1>3. CASE open[c].op = "active"
  <2>1. open[c] \in [op : {"active"}, who : Account, to : BOOLEAN]
    BY <1>1, <1>3 DEF Write
  <2>. QED
    BY <1>3, <2>1 DEF Commit, ActiveCommitted
<1>4. CASE open[c].op = "recover"
  <2>1. open[c] \in [op : {"recover"}, who : Account, with : 1 .. MaxCodes]
    BY <1>1, <1>4 DEF Write
  <2>. QED
    BY <1>4, <2>1 DEF Commit, RecoverCommitted, Spent
<1>. QED
  BY <1>1, <1>2, <1>3, <1>4 DEF Write

LEMMA TypesStay ==
  ASSUME AccountsTypeOK, [AccountsNext]_accountVars
  PROVE  AccountsTypeOK'
<1>1. CASE UNCHANGED accountVars
  BY <1>1 DEF AccountsTypeOK, accountVars
<1>2. ASSUME NEW c \in Client, NEW a \in Account, NEW u \in Account, NEW r \in UserRole,
             SetRole(c, a, u, r)
      PROVE  AccountsTypeOK'
  <2>1. [op |-> "role", who |-> u, to |-> r] \in Write
    BY DEF Write
  <2>. QED
    BY <1>2, <2>1, BeginType DEF SetRole
<1>3. ASSUME NEW c \in Client, NEW a \in Account, NEW u \in Account, NEW on \in BOOLEAN,
             SetActive(c, a, u, on)
      PROVE  AccountsTypeOK'
  <2>1. [op |-> "active", who |-> u, to |-> on] \in Write
    BY DEF Write
  <2>. QED
    BY <1>3, <2>1, BeginType DEF SetActive
<1>4. ASSUME NEW c \in Client, NEW u \in Account, NEW k \in 1 .. MaxCodes, Recover(c, u, k)
      PROVE  AccountsTypeOK'
  <2>1. [op |-> "recover", who |-> u, with |-> k] \in Write
    BY DEF Write
  <2>. QED
    BY <1>4, <2>1, BeginType DEF Recover
<1>5. ASSUME NEW c \in Client, Commit(c) PROVE AccountsTypeOK'
  <2>1. open' \in [Client -> Write \cup {NoRequest}] /\ issued' = issued
    BY <1>5 DEF AccountsTypeOK, Commit
  <2>2. /\ role' \in [Account -> UserRole] /\ active' \in [Account -> BOOLEAN]
        /\ code' \in [Account -> 0 .. MaxCodes] /\ sessions' \in [1 .. MaxCodes -> Nat]
    <3>1. CASE RoleCommitted(open[c])
      BY <3>1 DEF AccountsTypeOK, RoleCommitted
    <3>2. CASE ActiveCommitted(open[c])
      BY <3>2 DEF AccountsTypeOK, ActiveCommitted
    <3>3. CASE RecoverCommitted(open[c])
      BY <3>3, AccountsAssumption DEF AccountsTypeOK, RecoverCommitted
    <3>. QED
      BY <1>5, <3>1, <3>2, <3>3, CommitCases
  <2>. QED
    BY <2>1, <2>2 DEF AccountsTypeOK
<1>6. ASSUME NEW c \in Client, Abandon(c) PROVE AccountsTypeOK'
  BY <1>6 DEF AccountsTypeOK, Abandon
<1>7. ASSUME NEW u \in Account, GenerateCode(u) PROVE AccountsTypeOK'
  BY <1>7, AccountsAssumption DEF AccountsTypeOK, GenerateCode
<1>8. ASSUME NEW u \in Account, ChangePassword(u) PROVE AccountsTypeOK'
  BY <1>8, AccountsAssumption DEF AccountsTypeOK, ChangePassword
<1>. QED
  BY <1>1, <1>2, <1>3, <1>4, <1>5, <1>6, <1>7, <1>8 DEF AccountsNext

\* Roles, activations, codes and requests under way keep their types, however
\* requests overlap and fail.
THEOREM AccountsTypeCorrect == AccountsSpec => []AccountsTypeOK
<1>. QED
  BY TypesStart, TypesStay, PTL DEF AccountsSpec

-----------------------------------------------------------------------------
(***************************************************************************)
(* What accounts promise while requests do not overlap.                    *)
(***************************************************************************)

LEMMA InvStarts == AccountsInit => AccountsInv
<1>. SUFFICES ASSUME AccountsInit PROVE AccountsInv
  OBVIOUS
<1>1. AccountsTypeOK
  BY TypesStart
<1>2. OneOpen /\ OpenStillTrue
  BY DEF AccountsInit, OneOpen, OpenStillTrue
<1>3. CodesAreFresh
  BY DEF AccountsInit, CodesAreFresh
<1>4. AnAdminRemains
  BY DEF AccountsInit, AnAdminRemains, Admin
<1>5. CodeWorksOnce
  BY DEF AccountsInit, CodeWorksOnce
<1>. QED
  BY <1>1, <1>2, <1>3, <1>4, <1>5 DEF AccountsInv

\* A request that has been checked is the only one, and relies on what it saw.
LEMMA BeginKeeps ==
  ASSUME ~ Overlap, AccountsInv, NEW c \in Client, NEW w \in Write,
         Begin(c, w), StillTrue(w)
  PROVE  AccountsInv'
<1>1. AccountsTypeOK'
  BY BeginType DEF AccountsInv
<1>2. \A d \in Client : open[d] = NoRequest
  BY DEF Begin, Free, Alone
<1>3. /\ open' = [open EXCEPT ![c] = w]
      /\ UNCHANGED <<role, active, code, issued, sessions>>
  BY DEF Begin
<1>4. open \in [Client -> Write \cup {NoRequest}]
  BY DEF AccountsInv, AccountsTypeOK
<1>5. OneOpen'
  BY <1>2, <1>3, <1>4 DEF OneOpen
<1>6. StillTrue(w)'
  BY <1>3 DEF StillTrue, Spare, Admin
<1>7. OpenStillTrue'
  BY <1>2, <1>3, <1>4, <1>6 DEF OpenStillTrue
<1>8. CodesAreFresh' /\ AnAdminRemains' /\ CodeWorksOnce'
  BY <1>3 DEF AccountsInv, CodesAreFresh, AnAdminRemains, Admin, CodeWorksOnce
<1>. QED
  BY <1>1, <1>5, <1>7, <1>8 DEF AccountsInv

\* Once the only request is over no other relies on anything.
LEMMA ClosedAll ==
  ASSUME AccountsInv, NEW c \in Client, open[c] # NoRequest,
         open' = [open EXCEPT ![c] = NoRequest]
  PROVE  OneOpen' /\ OpenStillTrue'
<1>1. open \in [Client -> Write \cup {NoRequest}]
  BY DEF AccountsInv, AccountsTypeOK
<1>2. \A d \in Client : open'[d] = NoRequest
  BY <1>1 DEF AccountsInv, OneOpen
<1>. QED
  BY <1>2 DEF OneOpen, OpenStillTrue

LEMMA RoleCommitKeeps ==
  ASSUME AccountsInv, NEW w \in Write, RoleCommitted(w), StillTrue(w), issued' = issued
  PROVE  CodesAreFresh' /\ AnAdminRemains' /\ CodeWorksOnce'
<1>1. CodesAreFresh' /\ CodeWorksOnce'
  BY DEF AccountsInv, RoleCommitted, CodesAreFresh, CodeWorksOnce
<1>2. PICK b \in Account \ {w.who} : Admin(b)
  BY DEF RoleCommitted, StillTrue, Spare
<1>3. Admin(b)'
  BY <1>2 DEF AccountsInv, AccountsTypeOK, RoleCommitted, Admin
<1>. QED
  BY <1>1, <1>3 DEF AnAdminRemains

LEMMA ActiveCommitKeeps ==
  ASSUME AccountsInv, NEW w \in Write, ActiveCommitted(w), StillTrue(w), issued' = issued
  PROVE  CodesAreFresh' /\ AnAdminRemains' /\ CodeWorksOnce'
<1>1. CodesAreFresh' /\ CodeWorksOnce'
  BY DEF AccountsInv, ActiveCommitted, CodesAreFresh, CodeWorksOnce
<1>2. CASE w.to = TRUE
  <2>1. PICK b \in Account : Admin(b)
    BY DEF AccountsInv, AnAdminRemains
  <2>2. Admin(b)'
    BY <1>2, <2>1 DEF AccountsInv, AccountsTypeOK, ActiveCommitted, Admin
  <2>. QED
    BY <1>1, <2>2 DEF AnAdminRemains
<1>3. CASE w.to # TRUE
  <2>1. PICK b \in Account \ {w.who} : Admin(b)
    BY <1>3 DEF ActiveCommitted, StillTrue, Spare
  <2>2. Admin(b)'
    BY <2>1 DEF AccountsInv, AccountsTypeOK, ActiveCommitted, Admin
  <2>. QED
    BY <1>1, <2>2 DEF AnAdminRemains
<1>. QED
  BY <1>2, <1>3

\* The code that is exchanged was fresh, and nobody holds it afterwards.
LEMMA RecoverCommitKeeps ==
  ASSUME AccountsInv, NEW w \in Write, RecoverCommitted(w), StillTrue(w), issued' = issued
  PROVE  CodesAreFresh' /\ AnAdminRemains' /\ CodeWorksOnce'
<1>. DEFINE u == w.who
            k == w.with
<1>1. /\ u \in Account /\ k \in 1 .. MaxCodes /\ code[u] = k
      /\ code' = [code EXCEPT ![u] = 0]
      /\ sessions' = [sessions EXCEPT ![k] = @ + 1]
      /\ UNCHANGED <<role, active>>
  BY DEF RecoverCommitted, StillTrue
<1>2. /\ code \in [Account -> 0 .. MaxCodes] /\ sessions \in [1 .. MaxCodes -> Nat]
      /\ issued \in 0 .. MaxCodes /\ MaxCodes \in Nat
  BY AccountsAssumption DEF AccountsInv, AccountsTypeOK
<1>3. /\ \A a \in Account : code[a] <= issued
      /\ \A a, b \in Account : code[a] = code[b] /\ code[a] # 0 => a = b
      /\ \A a \in Account : code[a] # 0 => sessions[code[a]] = 0
      /\ \A j \in 1 .. MaxCodes : j > issued => sessions[j] = 0
  BY DEF AccountsInv, CodesAreFresh
<1>. HIDE DEF u, k
<1>4. sessions[k] = 0 /\ k <= issued
  BY <1>1, <1>2, <1>3
<1>5. /\ \A a \in Account : code'[a] = IF a = u THEN 0 ELSE code[a]
      /\ \A j \in 1 .. MaxCodes : sessions'[j] = IF j = k THEN 1 ELSE sessions[j]
  BY <1>1, <1>2, <1>4
<1>6. CodesAreFresh'
  <2>1. \A a \in Account : code'[a] # 0 => a # u /\ code'[a] # k /\ code'[a] = code[a]
    BY <1>1, <1>3, <1>5
  <2>2. \A a \in Account : code'[a] # 0 => sessions'[code'[a]] = 0
    BY <1>2, <1>3, <1>5, <2>1
  <2>3. \A j \in 1 .. MaxCodes : j > issued' => sessions'[j] = 0
    BY <1>2, <1>3, <1>4, <1>5
  <2>4. \A a \in Account : code'[a] <= issued'
    BY <1>2, <1>3, <1>5
  <2>5. \A a, b \in Account : code'[a] = code'[b] /\ code'[a] # 0 => a = b
    BY <1>3, <2>1
  <2>. QED
    BY <2>2, <2>3, <2>4, <2>5 DEF CodesAreFresh
<1>7. AnAdminRemains'
  BY <1>1 DEF AccountsInv, AnAdminRemains, Admin
<1>8. CodeWorksOnce'
  BY <1>2, <1>5 DEF AccountsInv, CodeWorksOnce
<1>. QED
  BY <1>6, <1>7, <1>8

LEMMA CommitKeeps ==
  ASSUME AccountsInv, NEW c \in Client, Commit(c)
  PROVE  AccountsInv'
<1>1. AccountsTypeOK'
  BY TypesStay DEF AccountsInv, AccountsNext
<1>2. OneOpen' /\ OpenStillTrue'
  BY ClosedAll DEF Commit
<1>3. /\ open[c] \in Write /\ StillTrue(open[c]) /\ issued' = issued
  BY DEF AccountsInv, AccountsTypeOK, OpenStillTrue, Commit
<1>4. RoleCommitted(open[c]) \/ ActiveCommitted(open[c]) \/ RecoverCommitted(open[c])
  BY CommitCases DEF AccountsInv
<1>5. CodesAreFresh' /\ AnAdminRemains' /\ CodeWorksOnce'
  BY <1>3, <1>4, RoleCommitKeeps, ActiveCommitKeeps, RecoverCommitKeeps
<1>. QED
  BY <1>1, <1>2, <1>5 DEF AccountsInv

LEMMA AbandonKeeps ==
  ASSUME AccountsInv, NEW c \in Client, Abandon(c)
  PROVE  AccountsInv'
<1>1. AccountsTypeOK'
  BY DEF AccountsInv, AccountsTypeOK, Abandon
<1>2. OneOpen' /\ OpenStillTrue'
  BY ClosedAll DEF Abandon
<1>3. CodesAreFresh' /\ AnAdminRemains' /\ CodeWorksOnce'
  BY DEF AccountsInv, Abandon, CodesAreFresh, AnAdminRemains, Admin, CodeWorksOnce
<1>. QED
  BY <1>1, <1>2, <1>3 DEF AccountsInv

\* A new code is later than every other, and no request relies on the old one.
LEMMA GenerateCodeKeeps ==
  ASSUME ~ Overlap, AccountsInv, NEW u \in Account, GenerateCode(u)
  PROVE  AccountsInv'
<1>1. AccountsTypeOK'
  BY AccountsAssumption DEF AccountsInv, AccountsTypeOK, GenerateCode
<1>2. /\ \A d \in Client : open[d] = NoRequest
      /\ issued < MaxCodes /\ issued' = issued + 1
      /\ code' = [code EXCEPT ![u] = issued + 1]
      /\ UNCHANGED <<role, active, open, sessions>>
  BY DEF GenerateCode, Alone
<1>3. OneOpen' /\ OpenStillTrue'
  BY <1>2 DEF OneOpen, OpenStillTrue
<1>4. /\ code \in [Account -> 0 .. MaxCodes] /\ sessions \in [1 .. MaxCodes -> Nat]
      /\ issued \in 0 .. MaxCodes /\ MaxCodes \in Nat
  BY AccountsAssumption DEF AccountsInv, AccountsTypeOK
<1>5. /\ \A a \in Account : code[a] <= issued
      /\ \A a, b \in Account : code[a] = code[b] /\ code[a] # 0 => a = b
      /\ \A a \in Account : code[a] # 0 => sessions[code[a]] = 0
      /\ \A j \in 1 .. MaxCodes : j > issued => sessions[j] = 0
  BY DEF AccountsInv, CodesAreFresh
<1>6. \A a \in Account : code'[a] = IF a = u THEN issued + 1 ELSE code[a]
  BY <1>2, <1>4
<1>7. CodesAreFresh'
  <2>1. \A a \in Account : code'[a] <= issued'
    BY <1>2, <1>4, <1>5, <1>6
  <2>2. \A a, b \in Account : code'[a] = code'[b] /\ code'[a] # 0 => a = b
    BY <1>4, <1>5, <1>6
  <2>3. \A a \in Account : code'[a] # 0 => sessions'[code'[a]] = 0
    BY <1>2, <1>4, <1>5, <1>6
  <2>4. \A j \in 1 .. MaxCodes : j > issued' => sessions'[j] = 0
    BY <1>2, <1>4, <1>5
  <2>. QED
    BY <2>1, <2>2, <2>3, <2>4 DEF CodesAreFresh
<1>8. AnAdminRemains' /\ CodeWorksOnce'
  BY <1>2 DEF AccountsInv, AnAdminRemains, Admin, CodeWorksOnce
<1>. QED
  BY <1>1, <1>3, <1>7, <1>8 DEF AccountsInv

LEMMA ChangePasswordKeeps ==
  ASSUME ~ Overlap, AccountsInv, NEW u \in Account, ChangePassword(u)
  PROVE  AccountsInv'
<1>1. AccountsTypeOK'
  BY AccountsAssumption DEF AccountsInv, AccountsTypeOK, ChangePassword
<1>2. /\ \A d \in Client : open[d] = NoRequest
      /\ code' = [code EXCEPT ![u] = 0]
      /\ UNCHANGED <<role, active, issued, open, sessions>>
  BY DEF ChangePassword, Alone
<1>3. OneOpen' /\ OpenStillTrue'
  BY <1>2 DEF OneOpen, OpenStillTrue
<1>4. code \in [Account -> 0 .. MaxCodes] /\ issued \in 0 .. MaxCodes
  BY DEF AccountsInv, AccountsTypeOK
<1>5. \A a \in Account : code'[a] = IF a = u THEN 0 ELSE code[a]
  BY <1>2, <1>4
<1>6. CodesAreFresh'
  BY <1>2, <1>4, <1>5 DEF AccountsInv, CodesAreFresh
<1>7. AnAdminRemains' /\ CodeWorksOnce'
  BY <1>2 DEF AccountsInv, AnAdminRemains, Admin, CodeWorksOnce
<1>. QED
  BY <1>1, <1>3, <1>6, <1>7 DEF AccountsInv

LEMMA InvStays ==
  ASSUME ~ Overlap, AccountsInv, [AccountsNext]_accountVars
  PROVE  AccountsInv'
<1>1. CASE UNCHANGED accountVars
  BY <1>1 DEF accountVars, AccountsInv, AccountsTypeOK, OneOpen, OpenStillTrue, StillTrue,
              Spare, CodesAreFresh, AnAdminRemains, Admin, CodeWorksOnce
\* The admin who asks is another one, or the account is not an admin.
<1>2. ASSUME NEW c \in Client, NEW a \in Account, NEW u \in Account, NEW r \in UserRole,
             SetRole(c, a, u, r)
      PROVE  AccountsInv'
  <2>. DEFINE w == [op |-> "role", who |-> u, to |-> r]
  <2>1. w \in Write
    BY DEF Write
  <2>2. Spare(u)
    <3>1. CASE role[u] = "admin"
      BY <1>2, <3>1 DEF SetRole, LastAdmin, Spare
    <3>2. CASE role[u] # "admin"
      BY <1>2, <3>2 DEF SetRole, Admin, Spare
    <3>. QED
      BY <3>1, <3>2
  <2>3. StillTrue(w)
    BY <2>2 DEF StillTrue
  <2>. QED
    BY <1>2, <2>1, <2>3, BeginKeeps DEF SetRole
\* Nobody deactivates themselves, so that the one who asks remains.
<1>3. ASSUME NEW c \in Client, NEW a \in Account, NEW u \in Account, NEW on \in BOOLEAN,
             SetActive(c, a, u, on)
      PROVE  AccountsInv'
  <2>. DEFINE w == [op |-> "active", who |-> u, to |-> on]
  <2>1. w \in Write
    BY DEF Write
  <2>2. on \/ Spare(u)
    BY <1>3 DEF SetActive, Spare
  <2>3. StillTrue(w)
    BY <2>2 DEF StillTrue
  <2>. QED
    BY <1>3, <2>1, <2>3, BeginKeeps DEF SetActive
<1>4. ASSUME NEW c \in Client, NEW u \in Account, NEW k \in 1 .. MaxCodes, Recover(c, u, k)
      PROVE  AccountsInv'
  <2>. DEFINE w == [op |-> "recover", who |-> u, with |-> k]
  <2>1. w \in Write
    BY DEF Write
  <2>2. StillTrue(w)
    BY <1>4 DEF Recover, StillTrue
  <2>. QED
    BY <1>4, <2>1, <2>2, BeginKeeps DEF Recover
<1>. QED
  BY <1>1, <1>2, <1>3, <1>4, CommitKeeps, AbandonKeeps, GenerateCodeKeeps, ChangePasswordKeeps
     DEF AccountsNext

\* While requests do not overlap, whatever admins do to each other an active
\* one remains, and however codes are issued, replaced, dropped and exchanged
\* each is exchanged at most once.
THEOREM AccountsAreSafe ==
  ASSUME ~ Overlap
  PROVE  AccountsSpec => []AccountsHold
<1>1. AccountsInit => AccountsInv
  BY InvStarts
<1>2. AccountsInv /\ [AccountsNext]_accountVars => AccountsInv'
  BY InvStays
<1>3. AccountsInv => AccountsHold
  BY DEF AccountsInv, AccountsHold
<1>. QED
  BY <1>1, <1>2, <1>3, PTL DEF AccountsSpec

-----------------------------------------------------------------------------
(***************************************************************************)
(* The gate before the runner.                                             *)
(***************************************************************************)

\* The deque w is what is left of the times r at which the account was let
\* in, and those that are gone are older than a window.
LatestOf(w, r, t) ==
    \E gone \in 0 .. Len(r) :
        /\ Len(w) = Len(r) - gone
        /\ \A i \in 1 .. Len(w) : w[i] = r[gone + i]
        /\ \A i \in 1 .. gone : Expired(r[i], t)

DequeIsTheEnd == \A u \in Runner : LatestOf(hits[u], ran[u], clock)

\* The runs that started in the window from t on.
LetIn(r, t) == {i \in DOMAIN r : t <= r[i] /\ r[i] < t + Window}

DequesAreBounded == \A k \in Limited : Len(hits[k]) <= Cap(k)

GateInv == GateTypeOK /\ DequeIsTheEnd /\ DequesAreBounded /\ CapHolds

-----------------------------------------------------------------------------
(***************************************************************************)
(* SlidingWindowLimiter.check                                              *)
(***************************************************************************)

LEMMA LeastOfSet ==
  ASSUME NEW T \in SUBSET Nat, T # {}
  PROVE  \E x \in T : \A y \in T : x <= y
<1>. DEFINE R == OpToRel(<, Nat)
<1>1. IsWellFoundedOn(R, Nat)
  BY NatLessThanWellFounded
<1>2. \A x, y \in Nat : <<y, x>> \in R <=> y < x
  BY DEF OpToRel
<1>. HIDE DEF R
<1>3. PICK x \in T : \A y \in T : ~(<<y, x>> \in R)
  BY <1>1, WFMin
<1>4. \A y \in T : ~(y < x)
  BY <1>2, <1>3
<1>. QED
  BY <1>4

LEMMA TimesAreNat ==
  ASSUME NEW T \in SUBSET Nat, NEW w \in Seq(T)
  PROVE  \A i \in 1 .. Len(w) : w[i] \in Nat
<1>1. \A i \in 1 .. Len(w) : w[i] \in T
  OBVIOUS
<1>. QED
  BY <1>1

\* What leaves the front is expired, and so is not what stays there.
LEMMA EvictedLemma ==
  ASSUME NEW T, NEW w \in Seq(T), NEW t
  PROVE  /\ Evicted(w, t) \in 0 .. Len(w)
         /\ \A i \in 1 .. Evicted(w, t) : Expired(w[i], t)
         /\ Evicted(w, t) < Len(w) => ~Expired(w[Evicted(w, t) + 1], t)
<1>. DEFINE S == {n \in 0 .. Len(w) : n = Len(w) \/ ~Expired(w[n + 1], t)}
<1>1. S \in SUBSET Nat /\ Len(w) \in S
  OBVIOUS
<1>. HIDE DEF S
<1>2. PICK x \in S : \A y \in S : x <= y
  BY <1>1, LeastOfSet
<1>3. Min(S) \in S /\ \A y \in S : Min(S) <= y
  BY <1>2 DEF Min
<1>4. PICK n \in S : n = Min(S) /\ \A y \in S : n <= y
  BY <1>3
<1>5. Evicted(w, t) = n
  BY <1>4 DEF Evicted, S
<1>6. n \in 0 .. Len(w) /\ (n = Len(w) \/ ~Expired(w[n + 1], t))
  BY DEF S
<1>7. ASSUME NEW i \in 1 .. n
      PROVE  Expired(w[i], t)
  <2>1. i - 1 \in 0 .. Len(w) /\ i - 1 # Len(w) /\ i - 1 < n /\ (i - 1) + 1 = i
    BY <1>6
  <2>2. i - 1 \notin S
    <3>1. \A y \in S : y \in Nat /\ n <= y
      BY <1>1, <1>4
    <3>. QED
      BY <1>6, <2>1, <3>1
  <2>. QED
    BY <2>1, <2>2 DEF S
<1>. QED
  BY <1>5, <1>6, <1>7

\* A deque without its expired front.
LEMMA PrunedLemma ==
  ASSUME NEW T, NEW w \in Seq(T), NEW t
  PROVE  /\ Pruned(w, t) \in Seq(T)
         /\ Len(Pruned(w, t)) = Len(w) - Evicted(w, t)
         /\ \A i \in 1 .. Len(Pruned(w, t)) : Pruned(w, t)[i] = w[Evicted(w, t) + i]
<1>2. PICK n \in 0 .. Len(w) : n = Evicted(w, t)
  BY EvictedLemma
<1>3. Pruned(w, t) = SubSeq(w, n + 1, Len(w))
  BY <1>2 DEF Pruned
<1>4. \A i \in n + 1 .. Len(w) : w[i] \in T
  OBVIOUS
<1>5. /\ SubSeq(w, n + 1, Len(w)) \in Seq(T)
      /\ Len(SubSeq(w, n + 1, Len(w))) = Len(w) - n
      /\ \A i \in 1 .. Len(w) - n : SubSeq(w, n + 1, Len(w))[i] = w[n + i]
  OBVIOUS
<1>. QED
  BY <1>2, <1>3, <1>5

\* A hit is taken, and what is left with it is within the limit.
LEMMA CheckedLemma ==
  ASSUME NEW T, NEW w \in Seq(T), NEW t \in T,
         NEW limit \in Nat, Len(w) <= limit
  PROVE  /\ Checked(w, t, limit) \in Seq(T)
         /\ Len(Checked(w, t, limit)) <= limit
<1>1. PICK p \in Seq(T) : p = Pruned(w, t) /\ Len(p) <= Len(w)
  <2>1. Evicted(w, t) \in 0 .. Len(w)
    BY EvictedLemma
  <2>. QED
    BY <2>1, PrunedLemma
<1>2. CASE Len(p) < limit
  <2>1. Checked(w, t, limit) = Append(p, t)
    BY <1>1, <1>2 DEF Checked, Allowed
  <2>. QED
    BY <1>2, <2>1
<1>3. CASE ~(Len(p) < limit)
  BY <1>1, <1>3 DEF Checked, Allowed
<1>. QED
  BY <1>2, <1>3

\* Whoever waits as long as a refusal says is let in.
LEMMA WaitIsEnough ==
  ASSUME NEW T \in SUBSET Nat, NEW w \in Seq(T), NEW t \in Nat, NEW limit \in Nat \ {0},
         Len(w) <= limit, ~Allowed(w, t, limit)
  PROVE  Allowed(w, t + RetryAfter(w, t), limit)
<1>1. PICK n \in 0 .. Len(w) : /\ n = Evicted(w, t)
                               /\ \A i \in 1 .. n : Expired(w[i], t)
                               /\ n < Len(w) => ~Expired(w[n + 1], t)
  BY EvictedLemma
<1>2. /\ Pruned(w, t) \in Seq(T) /\ Len(Pruned(w, t)) = Len(w) - n
      /\ \A i \in 1 .. Len(Pruned(w, t)) : Pruned(w, t)[i] = w[n + i]
  BY <1>1, PrunedLemma
<1>3. n < Len(w) /\ Len(w) = limit /\ n = 0
  BY <1>2 DEF Allowed
<1>4. RetryAfter(w, t) = w[1] + Window - t
  BY <1>2, <1>3 DEF RetryAfter
<1>5. w[1] \in Nat /\ Window \in Nat /\ w[1] + Window > t
  <2>1. w[1] \in Nat
    BY <1>3, TimesAreNat
  <2>2. ~(w[1] + Window <= t)
    BY <1>1, <1>3 DEF Expired
  <2>. QED
    BY <2>1, <2>2, GateAssumption
<1>6. PICK later \in Nat : later = t + RetryAfter(w, t) /\ later = w[1] + Window
  BY <1>4, <1>5
<1>7. Evicted(w, later) \in 0 .. Len(w) /\ Evicted(w, later) # 0
  <2>1. Expired(w[1], later)
    BY <1>5, <1>6 DEF Expired
  <2>2. Evicted(w, later) = 0 => ~Expired(w[0 + 1], later)
    BY <1>3, EvictedLemma
  <2>. QED
    BY <2>1, <2>2, EvictedLemma
<1>8. Len(Pruned(w, later)) = Len(w) - Evicted(w, later)
  BY PrunedLemma
<1>. QED
  BY <1>3, <1>6, <1>7, <1>8 DEF Allowed

\* The end is still the end without its expired front, later, and with a run
\* that is let in.
LEMMA EndWithoutFront ==
  ASSUME NEW T \in SUBSET Nat, NEW w \in Seq(T), NEW r \in Seq(T), NEW t \in Nat,
         LatestOf(w, r, t)
  PROVE  LatestOf(Pruned(w, t), r, t)
<1>1. PICK gone \in 0 .. Len(r) : /\ Len(w) = Len(r) - gone
                                  /\ \A i \in 1 .. Len(w) : w[i] = r[gone + i]
                                  /\ \A i \in 1 .. gone : Expired(r[i], t)
  BY DEF LatestOf
<1>2. PICK n \in 0 .. Len(w) : n = Evicted(w, t) /\ \A i \in 1 .. n : Expired(w[i], t)
  BY EvictedLemma
<1>3. PICK p \in Seq(T) : /\ p = Pruned(w, t) /\ Len(p) = Len(w) - n
                          /\ \A i \in 1 .. Len(p) : p[i] = w[n + i]
  BY <1>2, PrunedLemma
<1>4. gone + n \in 0 .. Len(r) /\ Len(p) = Len(r) - (gone + n)
  BY <1>1, <1>2, <1>3
<1>5. \A i \in 1 .. Len(p) : p[i] = r[(gone + n) + i]
  <2>. SUFFICES ASSUME NEW i \in 1 .. Len(p) PROVE p[i] = r[(gone + n) + i]
    OBVIOUS
  <2>1. n + i \in 1 .. Len(w) /\ gone + (n + i) = (gone + n) + i
    BY <1>3
  <2>2. w[n + i] = r[gone + (n + i)]
    BY <1>1, <2>1
  <2>. QED
    BY <1>3, <2>1, <2>2
<1>6. \A i \in 1 .. gone + n : Expired(r[i], t)
  <2>. SUFFICES ASSUME NEW i \in 1 .. gone + n, i > gone PROVE Expired(r[i], t)
    BY <1>1
  <2>1. i - gone \in 1 .. n /\ i - gone \in 1 .. Len(w) /\ gone + (i - gone) = i
    OBVIOUS
  <2>. QED
    BY <1>1, <1>2, <2>1
<1>. QED
  BY <1>3, <1>4, <1>5, <1>6 DEF LatestOf

LEMMA EndLater ==
  ASSUME NEW T \in SUBSET Nat, NEW w \in Seq(T), NEW r \in Seq(T), NEW t \in Nat,
         LatestOf(w, r, t)
  PROVE  LatestOf(w, r, t + 1)
<1>1. PICK gone \in 0 .. Len(r) : /\ Len(w) = Len(r) - gone
                                  /\ \A i \in 1 .. Len(w) : w[i] = r[gone + i]
                                  /\ \A i \in 1 .. gone : Expired(r[i], t)
  BY DEF LatestOf
<1>2. \A i \in 1 .. gone : Expired(r[i], t + 1)
  <2>1. \A i \in 1 .. gone : r[i] \in Nat /\ r[i] + Window <= t
    BY SMTT(40), <1>1, TimesAreNat DEF Expired
  <2>. QED
    BY <2>1, GateAssumption DEF Expired
<1>. QED
  BY <1>1, <1>2 DEF LatestOf

LEMMA EndWithOneMore ==
  ASSUME NEW T \in SUBSET Nat, NEW w \in Seq(T), NEW r \in Seq(T), NEW t \in T,
         LatestOf(w, r, t)
  PROVE  LatestOf(Append(w, t), Append(r, t), t)
<1>1. PICK gone \in 0 .. Len(r) : /\ Len(w) = Len(r) - gone
                                  /\ \A i \in 1 .. Len(w) : w[i] = r[gone + i]
                                  /\ \A i \in 1 .. gone : Expired(r[i], t)
  BY DEF LatestOf
<1>2. /\ Len(Append(w, t)) = Len(w) + 1 /\ Len(Append(r, t)) = Len(r) + 1
      /\ \A i \in 1 .. Len(w) : Append(w, t)[i] = w[i]
      /\ \A i \in 1 .. Len(r) : Append(r, t)[i] = r[i]
      /\ Append(w, t)[Len(w) + 1] = t /\ Append(r, t)[Len(r) + 1] = t
  OBVIOUS
<1>3. ASSUME NEW i \in 1 .. Len(w) + 1
      PROVE  Append(w, t)[i] = Append(r, t)[gone + i]
  <2>1. CASE i = Len(w) + 1
    BY <1>1, <1>2, <2>1
  <2>2. CASE i \in 1 .. Len(w)
    <3>1. gone + i \in 1 .. Len(r)
      BY <1>1, <2>2
    <3>. QED
      BY <1>1, <1>2, <2>2, <3>1
  <2>. QED
    BY <1>1, <2>1, <2>2
<1>4. gone \in 0 .. Len(r) + 1 /\ Len(w) + 1 = (Len(r) + 1) - gone
  BY <1>1
<1>5. \A i \in 1 .. gone : Expired(Append(r, t)[i], t)
  BY <1>1, <1>2
<1>6. /\ gone \in 0 .. Len(Append(r, t))
      /\ Len(Append(w, t)) = Len(Append(r, t)) - gone
      /\ \A i \in 1 .. Len(Append(w, t)) : Append(w, t)[i] = Append(r, t)[gone + i]
  BY <1>2, <1>3, <1>4
<1>. QED
  BY <1>5, <1>6 DEF LatestOf

\* One more run, let in while fewer than the cap are left in the deque, keeps
\* every window within the cap: a window that has it in has only those that
\* are left, and it.
LEMMA CapWithOneMore ==
  ASSUME NEW T \in SUBSET Nat, NEW w \in Seq(T), NEW r \in Seq(T), NEW now \in T,
         NEW cap \in Nat, LatestOf(w, r, now), Len(w) < cap,
         NEW t \in T, Cardinality(LetIn(r, t)) <= cap
  PROVE  Cardinality(LetIn(Append(r, now), t)) <= cap
<1>1. PICK gone \in 0 .. Len(r) : /\ Len(w) = Len(r) - gone
                                  /\ \A i \in 1 .. gone : Expired(r[i], now)
  BY DEF LatestOf
<1>2. /\ DOMAIN r = 1 .. Len(r) /\ DOMAIN Append(r, now) = 1 .. Len(r) + 1
      /\ \A i \in 1 .. Len(r) : Append(r, now)[i] = r[i] /\ r[i] \in Nat
      /\ Append(r, now)[Len(r) + 1] = now
  BY TimesAreNat
<1>3. CASE now < t + Window
  <2>. DEFINE rest == gone + 1 .. Len(r) + 1
  <2>1. IsFiniteSet(rest) /\ Cardinality(rest) <= cap
    <3>1. gone + 1 \in Int /\ Len(r) + 1 \in Int /\ ~(gone + 1 > Len(r) + 1)
          /\ (Len(r) + 1) - (gone + 1) + 1 = Len(w) + 1
      BY <1>1
    <3>2. IsFiniteSet(rest) /\ Cardinality(rest) = Len(w) + 1
      BY <3>1, FS_Interval
    <3>. QED
      BY <3>2
  <2>2. ASSUME NEW i \in LetIn(Append(r, now), t)
        PROVE  i \in rest
    <3>1. i \in 1 .. Len(r) + 1 /\ t <= Append(r, now)[i]
      BY <1>2 DEF LetIn
    <3>2. ASSUME i \in 1 .. gone PROVE FALSE
      <4>1. r[i] + Window <= now /\ r[i] \in Nat /\ t <= r[i]
        BY <1>1, <1>2, <3>1, <3>2 DEF Expired
      <4>. QED
        BY <1>3, <4>1, GateAssumption
    <3>. QED
      BY <3>1, <3>2
  <2>. HIDE DEF rest
  <2>3. LetIn(Append(r, now), t) \in SUBSET rest
    BY <2>2
  <2>4. /\ IsFiniteSet(LetIn(Append(r, now), t))
        /\ Cardinality(LetIn(Append(r, now), t)) <= Cardinality(rest)
    BY <2>1, <2>3, FS_Subset
  <2>5. Cardinality(rest) \in Nat /\ Cardinality(LetIn(Append(r, now), t)) \in Nat
    BY <2>1, <2>4, FS_CardinalityType
  <2>. QED
    BY <2>1, <2>4, <2>5
<1>4. CASE ~(now < t + Window)
  <2>1. LetIn(Append(r, now), t) = LetIn(r, t)
    BY <1>2, <1>4 DEF LetIn
  <2>. QED
    BY <2>1
<1>. QED
  BY <1>3, <1>4

-----------------------------------------------------------------------------
(***************************************************************************)
(* Every step.                                                             *)
(***************************************************************************)

Times == 0 .. MaxTime

LEMMA CapsAreNat == \A k \in Limited : Cap(k) \in Nat \ {0}
  BY GateAssumption DEF Limited, Cap

LEMMA GateStarts == GateInit => GateInv
<1>. SUFFICES ASSUME GateInit PROVE GateInv
  OBVIOUS
<1>1. <<>> \in Seq(Times) /\ Len(<<>>) = 0
  OBVIOUS
<1>2. GateTypeOK
  BY <1>1, GateAssumption DEF GateInit, GateTypeOK, Stage, Times
<1>3. DequesAreBounded
  BY <1>1, CapsAreNat DEF GateInit, DequesAreBounded
<1>4. DequeIsTheEnd
  <2>1. LatestOf(<<>>, <<>>, 0)
    BY <1>1 DEF LatestOf
  <2>. QED
    BY <2>1 DEF GateInit, DequeIsTheEnd, Limited
<1>5. CapHolds
  <2>. SUFFICES ASSUME NEW u \in Runner, NEW t \in Times
                PROVE  Cardinality(LetIn(ran[u], t)) <= RunnerCap
    BY DEF CapHolds, LetIn, Times
  <2>1. LetIn(ran[u], t) = {}
    BY DEF GateInit, LetIn
  <2>. QED
    BY <2>1, FS_EmptySet, GateAssumption
<1>. QED
  BY <1>2, <1>3, <1>4, <1>5 DEF GateInv

LEMMA ExecuteLemma ==
  ASSUME GateInv, NEW u \in Runner, Execute(u)
  PROVE  GateInv'
<1>1. /\ clock \in Times /\ Times \in SUBSET Nat
      /\ \A k \in Limited : hits[k] \in Seq(Times) /\ Len(hits[k]) <= Cap(k)
      /\ \A v \in Runner : ran[v] \in Seq(Times) /\ LatestOf(hits[v], ran[v], clock)
      /\ u \in Limited /\ "address" \in Limited /\ u # "address"
      /\ Cap(u) = RunnerCap /\ Cap("address") = AddressCap
  BY GateAssumption
  DEF GateInv, GateTypeOK, DequesAreBounded, DequeIsTheEnd, Times, Limited, Cap
<1>2. PICK time \in Times : time = clock
  BY <1>1
<1>3. PICK now \in [Limited -> Seq(Times)] : now = hits
  BY DEF GateInv, GateTypeOK, Times
<1>4. PICK runs \in [Runner -> Seq(Times)] : runs = ran
  BY DEF GateInv, GateTypeOK, Times
<1>13. PICK past \in BOOLEAN : past <=> Allowed(now["address"], time, AddressCap)
  OBVIOUS
<1>14. PICK may \in BOOLEAN : may <=> Allowed(now[u], time, RunnerCap)
  OBVIOUS
<1>5.   /\ hits' = [now EXCEPT
                     !["address"] = Checked(now["address"], time, AddressCap),
                     ![u] = IF past THEN Checked(now[u], time, RunnerCap) ELSE now[u]]
        /\ jobs' = [jobs EXCEPT ![u] = IF past /\ may THEN "waiting" ELSE @]
        /\ ran' = [runs EXCEPT ![u] = IF past /\ may THEN Append(runs[u], time) ELSE runs[u]]
        /\ UNCHANGED <<clock, docker, left>>
  <2>1. hits' = [now EXCEPT
                  !["address"] = Checked(now["address"], time, AddressCap),
                  ![u] = IF past THEN Checked(now[u], time, RunnerCap) ELSE now[u]]
    BY <1>1, <1>2, <1>3, <1>13 DEF Execute
  <2>2. jobs' = [jobs EXCEPT ![u] = IF past /\ may THEN "waiting" ELSE @]
    BY <1>2, <1>3, <1>13, <1>14 DEF Execute
  <2>3. ran' = [runs EXCEPT ![u] = IF past /\ may THEN Append(runs[u], time) ELSE runs[u]]
    BY <1>2, <1>3, <1>4, <1>13, <1>14 DEF Execute
  <2>. QED
    BY <2>1, <2>2, <2>3 DEF Execute
<1>6. /\ Checked(now["address"], time, AddressCap) \in Seq(Times)
      /\ Len(Checked(now["address"], time, AddressCap)) <= AddressCap
      /\ Checked(now[u], time, RunnerCap) \in Seq(Times)
      /\ Len(Checked(now[u], time, RunnerCap)) <= RunnerCap
  BY <1>1, <1>3, CheckedLemma, GateAssumption
<1>7. Append(runs[u], time) \in Seq(Times)
  OBVIOUS
<1>8. GateTypeOK'
  <2>1. hits' \in [Limited -> Seq(Times)]
    BY <1>5, <1>6
  <2>2. ran' \in [Runner -> Seq(Times)]
    BY <1>5, <1>7
  <2>3. jobs' \in [Runner -> Stage]
    BY <1>5 DEF GateInv, GateTypeOK, Stage
  <2>. QED
    BY <1>5, <2>1, <2>2, <2>3 DEF GateInv, GateTypeOK, Times
<1>9. DequesAreBounded'
  <2>. SUFFICES ASSUME NEW k \in Limited PROVE Len(hits'[k]) <= Cap(k)
    BY DEF DequesAreBounded
  <2>1. \/ hits'[k] = now[k]
        \/ k = "address" /\ hits'[k] = Checked(now["address"], time, AddressCap)
        \/ k = u /\ hits'[k] = Checked(now[u], time, RunnerCap)
    BY <1>1, <1>5
  <2>. QED
    BY <1>1, <1>3, <1>6, <2>1
<1>10. ASSUME NEW v \in Runner
       PROVE  /\ LatestOf(hits'[v], ran'[v], clock)
              /\ \A t \in Times : Cardinality(LetIn(ran'[v], t)) <= RunnerCap
  <2>0. \A t \in Times : Cardinality(LetIn(runs[v], t)) <= RunnerCap
    BY <1>4 DEF GateInv, CapHolds, LetIn, Times
  <2>1. CASE v # u \/ ~past
    <3>1. v # "address" /\ v \in Limited
      BY GateAssumption DEF Limited
    <3>2. hits'[v] = now[v] /\ ran'[v] = runs[v]
      BY <1>5, <2>1, <3>1
    <3>. QED
      BY <1>1, <1>3, <1>4, <2>0, <3>2
  <2>2. CASE v = u /\ past
    <3>1. PICK w \in Seq(Times) : /\ w = Pruned(now[u], time)
                                  /\ LatestOf(w, runs[u], time)
      <4>1. LatestOf(now[u], runs[u], time) /\ now[u] \in Seq(Times) /\ runs[u] \in Seq(Times)
        BY <1>1, <1>2, <1>3, <1>4
      <4>2. Pruned(now[u], time) \in Seq(Times)
        BY <1>1, <4>1, PrunedLemma
      <4>3. LatestOf(Pruned(now[u], time), runs[u], time)
        BY <1>1, <4>1, EndWithoutFront
      <4>. QED
        BY <4>2, <4>3
    <3>2. hits'[u] = (IF may THEN Append(w, time) ELSE w)
          /\ ran'[u] = (IF may THEN Append(runs[u], time) ELSE runs[u])
          /\ (may <=> Len(w) < RunnerCap)
      BY <1>1, <1>5, <1>14, <2>2, <3>1 DEF Checked, Allowed
    <3>3. CASE ~may
      BY <1>2, <2>0, <2>2, <3>1, <3>2, <3>3
    <3>4. CASE may
      <4>1. runs[u] \in Seq(Times) /\ RunnerCap \in Nat
        BY GateAssumption
      <4>2. LatestOf(Append(w, time), Append(runs[u], time), time)
        BY <1>1, <3>1, <4>1, EndWithOneMore
      <4>3. \A t \in Times : Cardinality(LetIn(Append(runs[u], time), t)) <= RunnerCap
        BY <1>1, <2>0, <2>2, <3>1, <3>2, <3>4, <4>1, CapWithOneMore
      <4>. QED
        BY <1>2, <2>2, <3>2, <3>4, <4>2, <4>3
    <3>. QED
      BY <3>3, <3>4
  <2>. QED
    BY <2>1, <2>2
<1>11. DequeIsTheEnd'
  BY <1>5, <1>10 DEF DequeIsTheEnd
<1>12. CapHolds'
  BY <1>10 DEF CapHolds, LetIn, Times
<1>. QED
  BY <1>8, <1>9, <1>11, <1>12 DEF GateInv

LEMMA GateStep == GateInv /\ [GateNext]_gateVars => GateInv'
<1>. SUFFICES ASSUME GateInv, [GateNext]_gateVars PROVE GateInv'
  OBVIOUS
<1>1. ASSUME NEW u \in Runner, Execute(u) PROVE GateInv'
  BY <1>1, ExecuteLemma
<1>2. ASSUME NEW u \in Runner, StartRun(u) \/ FinishRun(u) \/ TimedOut(u) PROVE GateInv'
  <2>1. UNCHANGED <<clock, hits, docker, ran>>
    BY <1>2 DEF StartRun, FinishRun, TimedOut
  <2>2. jobs' \in [Runner -> Stage]
    BY <1>2 DEF StartRun, FinishRun, TimedOut, GivenBack, GateInv, GateTypeOK, Stage
  <2>3. left' \in 0 .. MaxLeft
    BY <1>2, GateAssumption DEF StartRun, FinishRun, TimedOut, GateInv, GateTypeOK
  <2>. QED
    BY <2>1, <2>2, <2>3
    DEF GateInv, GateTypeOK, DequeIsTheEnd, DequesAreBounded, CapHolds
<1>3. CASE ContainerEnds
  <2>1. left' \in 0 .. MaxLeft /\ UNCHANGED <<clock, hits, docker, jobs, ran>>
    BY <1>3, GateAssumption DEF ContainerEnds, GateInv, GateTypeOK
  <2>. QED
  BY <2>1
  DEF GateInv, GateTypeOK, DequeIsTheEnd, DequesAreBounded, CapHolds
<1>4. CASE Second
  <2>1. clock' = clock + 1 /\ clock' \in Times /\ UNCHANGED <<hits, docker, jobs, left, ran>>
    BY <1>4, GateAssumption DEF Second, GateInv, GateTypeOK, Times
  <2>2. DequeIsTheEnd'
    <3>. SUFFICES ASSUME NEW u \in Runner PROVE LatestOf(hits[u], ran[u], clock + 1)
      BY <2>1 DEF DequeIsTheEnd
    <3>1. hits[u] \in Seq(Times) /\ ran[u] \in Seq(Times) /\ LatestOf(hits[u], ran[u], clock)
          /\ clock \in Nat /\ Times \in SUBSET Nat
      BY DEF GateInv, GateTypeOK, DequeIsTheEnd, Times, Limited
    <3>2. PICK w \in Seq(Times) : w = hits[u]
      BY <3>1
    <3>3. PICK r \in Seq(Times) : r = ran[u]
      BY <3>1
    <3>4. PICK t \in Nat : t = clock
      BY <3>1
    <3>5. LatestOf(w, r, t + 1)
      BY <3>1, <3>2, <3>3, <3>4, EndLater
    <3>. QED
      BY <3>2, <3>3, <3>4, <3>5
  <2>. QED
    BY <2>1, <2>2 DEF GateInv, GateTypeOK, DequesAreBounded, CapHolds, Times
<1>5. CASE UNCHANGED gateVars
  BY <1>5 DEF gateVars, GateInv, GateTypeOK, DequeIsTheEnd, DequesAreBounded, CapHolds
<1>. QED
  BY <1>1, <1>2, <1>3, <1>4, <1>5 DEF GateNext

(***************************************************************************)
(* In no window of time is an account let in more often than its cap, and  *)
(* whoever waits as long as a refusal says is let in, for any accounts,    *)
(* caps and length of the window (rate_limit.py: check; execute.py).       *)
(***************************************************************************)
THEOREM GateAlwaysHolds == GateSpec => []GateHolds
<1>1. GateInv => GateHolds
  <2>. SUFFICES ASSUME GateInv PROVE RetryIsEnough
    BY DEF GateInv, GateHolds
  <2>. SUFFICES ASSUME NEW k \in Limited, ~Allowed(hits[k], clock, Cap(k))
                PROVE  Allowed(hits[k], clock + RetryAfter(hits[k], clock), Cap(k))
    BY DEF RetryIsEnough
  <2>1. /\ hits[k] \in Seq(Times) /\ clock \in Nat /\ Cap(k) \in Nat \ {0}
        /\ Len(hits[k]) <= Cap(k) /\ Times \in SUBSET Nat
    BY CapsAreNat DEF GateInv, GateTypeOK, DequesAreBounded, Times
  <2>2. PICK w \in Seq(Times) : w = hits[k]
    BY <2>1
  <2>3. PICK t \in Nat : t = clock
    BY <2>1
  <2>4. ~Allowed(w, t, Cap(k))
    BY <2>2, <2>3
  <2>5. Allowed(w, t + RetryAfter(w, t), Cap(k))
    BY <2>1, <2>2, <2>4, WaitIsEnough
  <2>. QED
    BY <2>2, <2>3, <2>5
<1>. QED
  BY <1>1, GateStarts, GateStep, PTL DEF GateSpec

\* The types of the gate.
THEOREM GateTypeCorrect == GateSpec => []GateTypeOK
<1>1. GateInv => GateTypeOK
  BY DEF GateInv
<1>. QED
  BY <1>1, GateStarts, GateStep, PTL DEF GateSpec

-----------------------------------------------------------------------------
(***************************************************************************)
(* What is built step by step: recursions along the numbers.               *)
(***************************************************************************)

\* What holds at 0 and is passed on holds up to n.
LEMMA UpTo ==
  ASSUME NEW n \in Nat, NEW P, 0 \in P,
         \A k \in 1 .. n : k - 1 \in P => k \in P
  PROVE  \A k \in 0 .. n : k \in P
<1>. DEFINE T == {k \in 0 .. n : k \notin P}
<1>. SUFFICES ASSUME T # {} PROVE FALSE
  OBVIOUS
<1>1. PICK m \in T : \A k \in T : m <= k
  <2>1. T \in SUBSET Nat
    OBVIOUS
  <2>. QED
    BY <2>1, LeastOfSet
<1>2. m # 0 /\ m \in 1 .. n /\ m - 1 \in 0 .. n /\ m - 1 < m
  OBVIOUS
<1>3. m - 1 \in P
  BY <1>1, <1>2
<1>. QED
  BY <1>2, <1>3

\* The values of a recursion on 0 .. n, from one and a step to the next.
Recurs(g, n, base, step) ==
    /\ DOMAIN g = 0 .. n /\ g[0] = base
    /\ \A k \in 1 .. n : g[k] = step[k][g[k - 1]]

\* There are some, and they are in X where the step keeps to it.
LEMMA Recursion ==
  ASSUME NEW n \in Nat, NEW X, NEW base \in X, NEW step \in [1 .. n -> [X -> X]]
  PROVE  \E g \in [0 .. n -> X] : Recurs(g, n, base, step)
<1>. DEFINE P == {m \in 0 .. n : \E g \in [0 .. m -> X] : Recurs(g, m, base, step)}
<1>1. 0 \in P
  <2>. DEFINE g == [k \in 0 .. 0 |-> base]
  <2>1. g \in [0 .. 0 -> X]
    OBVIOUS
  <2>2. Recurs(g, 0, base, step)
    BY DEF Recurs
  <2>. HIDE DEF g
  <2>. QED
    BY <2>1, <2>2
<1>2. ASSUME NEW m \in 1 .. n, m - 1 \in P PROVE m \in P
  <2>1. PICK g \in [0 .. m - 1 -> X] : Recurs(g, m - 1, base, step)
    BY <1>2
  <2>2. m - 1 \in 0 .. m - 1 /\ \A k \in 0 .. m : k # m => k \in 0 .. m - 1
    OBVIOUS
  <2>3. PICK y \in X : y = step[m][g[m - 1]]
    <3>1. g[m - 1] \in X
      BY <2>2
    <3>. QED
      BY <3>1
  <2>. DEFINE h == [k \in 0 .. m |-> IF k = m THEN y ELSE g[k]]
  <2>4. h \in [0 .. m -> X]
    BY <2>2
  <2>5. ASSUME NEW k \in 1 .. m PROVE h[k] = step[k][h[k - 1]]
    <3>1. k - 1 \in 0 .. m /\ k - 1 # m /\ h[k - 1] = g[k - 1]
      OBVIOUS
    <3>2. CASE k = m
      BY <2>3, <3>1, <3>2
    <3>3. CASE k # m
      <4>1. k \in 1 .. m - 1 /\ k \in 0 .. m
        BY <3>3
      <4>2. g[k] = step[k][g[k - 1]] /\ h[k] = g[k]
        BY <2>1, <3>3, <4>1 DEF Recurs
      <4>. QED
        BY <3>1, <4>2
    <3>. QED
      BY <3>2, <3>3
  <2>6. h[0] = base
    BY <2>1 DEF Recurs
  <2>7. Recurs(h, m, base, step)
    BY <2>4, <2>5, <2>6 DEF Recurs
  <2>. HIDE DEF h
  <2>. QED
    BY <2>4, <2>7
<1>. HIDE DEF P
<1>3. n \in P
  <2>1. \A k \in 0 .. n : k \in P
    BY <1>1, <1>2, UpTo
  <2>. QED
    BY <2>1
<1>. QED
  BY <1>3 DEF P

-----------------------------------------------------------------------------
(***************************************************************************)
(* The edges between topics.  The search of validate_edge is a recursion   *)
(* of as many rounds as there are topics; by then its frontier is empty,   *)
(* since every round before found a topic.                                 *)
(***************************************************************************)

\* A round of the search.
Begun(s) == [visited |-> {s}, frontier |-> {s}, met |-> {}]

Round(E, w) ==
    LET found == Sources(E, w.frontier)
    IN  [visited |-> w.visited \cup found, frontier |-> found \ w.visited,
         met |-> w.met \cup found]

\* g holds the search after 0 .. n rounds.
Rounds(E, s, n, g) ==
    g = [k \in 0 .. n |-> IF k = 0 THEN Begun(s) ELSE Round(E, g[k - 1])]

LEMMA RoundsExist ==
  ASSUME NEW E, NEW s, NEW n \in Nat
  PROVE  \E g : Rounds(E, s, n, g)
<1>. DEFINE T == {m \in Nat : ~ \E g : Rounds(E, s, m, g)}
<1>. SUFFICES ASSUME T # {} PROVE FALSE
  OBVIOUS
<1>1. PICK m \in T : \A k \in T : m <= k
  BY LeastOfSet
<1>2. CASE m = 0
  <2>. DEFINE g == [k \in 0 .. 0 |-> Begun(s)]
  <2>1. g = [k \in 0 .. 0 |-> IF k = 0 THEN Begun(s) ELSE Round(E, g[k - 1])]
    OBVIOUS
  <2>. QED
    BY <1>2, <2>1 DEF Rounds
<1>3. CASE m # 0
  <2>1. m - 1 \in Nat /\ m - 1 \notin T
    BY <1>1, <1>3
  <2>2. PICK g : Rounds(E, s, m - 1, g)
    BY <2>1
  <2>. DEFINE h == [k \in 0 .. m |-> IF k = m THEN Round(E, g[m - 1]) ELSE g[k]]
  <2>3. ASSUME NEW k \in 0 .. m
        PROVE  h[k] = IF k = 0 THEN Begun(s) ELSE Round(E, h[k - 1])
    <3>1. CASE k = 0
      BY <1>3, <2>1, <2>2, <3>1 DEF Rounds
    <3>2. CASE k # 0 /\ k # m
      <4>1. k \in 0 .. m - 1 /\ k - 1 \in 0 .. m /\ k - 1 # m
        BY <2>1, <3>2
      <4>2. h[k] = g[k] /\ h[k - 1] = g[k - 1]
        BY <4>1, <3>2
      <4>3. g[k] = Round(E, g[k - 1])
        BY <2>2, <4>1, <3>2 DEF Rounds
      <4>. QED
        BY <3>2, <4>2, <4>3
    <3>3. CASE k = m
      <4>1. m - 1 \in 0 .. m /\ m - 1 # m /\ m \in 0 .. m
        BY <2>1
      <4>2. h[m - 1] = g[m - 1] /\ h[m] = Round(E, g[m - 1])
        BY <4>1
      <4>. QED
        BY <1>3, <3>3, <4>2
    <3>. QED
      BY <3>1, <3>2, <3>3
  <2>4. Rounds(E, s, m, h)
    BY <2>3 DEF Rounds
  <2>. QED
    BY <1>1, <2>4
<1>. QED
  BY <1>2, <1>3

\* What the search has after some rounds: all that leads to what it has left
\* behind it has met, and each round that has a frontier found a topic.
Searched(E, s, w, n) ==
    /\ w.met \in SUBSET Topic /\ w.visited = {s} \cup w.met
    /\ w.frontier \subseteq w.visited
    /\ \A e \in E : e[2] \in w.visited \ w.frontier => e[1] \in w.met
    /\ w.frontier = {} \/ Cardinality(w.visited) > n

LEMMA RoundKeeps ==
  ASSUME NEW E \in SUBSET Edge, NEW s \in Topic, NEW n \in Nat, NEW w, Searched(E, s, w, n)
  PROVE  Searched(E, s, Round(E, w), n + 1)
<1>. DEFINE found == Sources(E, w.frontier)
            v == Round(E, w)
<1>1. /\ v.visited = w.visited \cup found /\ v.frontier = found \ w.visited
      /\ v.met = w.met \cup found
  BY DEF Round
<1>2. found \subseteq Topic
  BY DEF Sources, Edge
<1>3. \A e \in E : e[2] \in w.frontier => e[1] \in found
  BY DEF Sources
<1>4. w.frontier = {} => found = {}
  BY DEF Sources
<1>. HIDE DEF found, v
<1>5. /\ v.met \in SUBSET Topic /\ v.visited = {s} \cup v.met
      /\ v.frontier \subseteq v.visited
  BY <1>1, <1>2 DEF Searched
<1>6. ASSUME NEW e \in E, e[2] \in v.visited \ v.frontier
      PROVE  e[1] \in v.met
  BY <1>1, <1>3, <1>6 DEF Searched
<1>7. CASE v.frontier # {}
  <2>1. w.frontier # {}
    BY <1>1, <1>4, <1>7
  <2>2. Cardinality(w.visited) > n
    BY <2>1 DEF Searched
  <2>3. PICK x \in v.frontier : TRUE
    BY <1>7
  <2>4. x \in v.visited \ w.visited /\ w.visited \subseteq v.visited
    BY <1>1, <2>3
  <2>5. IsFiniteSet(v.visited) /\ IsFiniteSet(w.visited)
    <3>1. v.visited \subseteq Topic /\ w.visited \subseteq Topic
      BY <1>5 DEF Searched
    <3>. QED
      BY <3>1, GraphAssumption, FS_Subset
  <2>6. Cardinality(w.visited \cup {x}) = Cardinality(w.visited) + 1
    BY <2>4, <2>5, FS_AddElement
  <2>7. Cardinality(w.visited \cup {x}) <= Cardinality(v.visited)
    <3>1. w.visited \cup {x} \subseteq v.visited
      BY <2>4
    <3>. QED
      BY <2>5, <3>1, FS_Subset
  <2>8. Cardinality(v.visited) \in Nat /\ Cardinality(w.visited) \in Nat
    BY <2>5, FS_CardinalityType
  <2>9. Cardinality(v.visited) > n + 1
    BY <2>2, <2>6, <2>7, <2>8
  <2>. QED
    BY <1>5, <1>6, <2>9 DEF Searched, v
<1>8. CASE v.frontier = {}
  BY <1>5, <1>6, <1>8 DEF Searched, v
<1>. QED
  BY <1>7, <1>8

\* The search meets whatever leads to the topic it starts from or to what it
\* has met: it has as many rounds as there are topics.
LEMMA WalkIsClosed ==
  ASSUME NEW E \in SUBSET Edge, NEW s \in Topic
  PROVE  /\ Walk(E, s).met \subseteq Topic
         /\ \A e \in E : e[2] \in {s} \cup Walk(E, s).met => e[1] \in Walk(E, s).met
<1>. DEFINE N == Cardinality(Topic)
            walk == CHOOSE g : Rounds(E, s, N, g)
<1>1. N \in Nat
  BY GraphAssumption, FS_CardinalityType
<1>2. Walk(E, s) = walk[N]
  BY DEF Walk, Rounds, Round, Begun
<1>3. Rounds(E, s, N, walk)
  BY <1>1, RoundsExist
<1>. HIDE DEF walk, N
<1>4. /\ walk[0] = Begun(s)
      /\ \A k \in 0 .. N : k # 0 => walk[k] = Round(E, walk[k - 1])
  BY <1>1, <1>3 DEF Rounds
<1>5. ASSUME NEW n \in 0 .. N PROVE Searched(E, s, walk[n], n)
  <2>. DEFINE T == {k \in 0 .. N : ~ Searched(E, s, walk[k], k)}
  <2>. SUFFICES ASSUME T # {} PROVE FALSE
    OBVIOUS
  <2>1. PICK m \in T : \A k \in T : m <= k
    <3>1. T \in SUBSET Nat
      BY <1>1
    <3>. QED
      BY <3>1, LeastOfSet
  <2>2. CASE m = 0
    <3>1. Cardinality({s}) = 1
      BY FS_Singleton
    <3>2. Searched(E, s, Begun(s), 0)
      BY <3>1 DEF Searched, Begun
    <3>. QED
      BY <1>4, <2>1, <2>2, <3>2
  <2>3. CASE m # 0
    <3>1. m - 1 \in 0 .. N /\ m - 1 \notin T /\ m - 1 \in Nat /\ (m - 1) + 1 = m
      BY <1>1, <2>1, <2>3
    <3>2. Searched(E, s, walk[m - 1], m - 1)
      BY <3>1
    <3>3. Searched(E, s, Round(E, walk[m - 1]), m)
      BY <3>1, <3>2, RoundKeeps
    <3>. QED
      BY <1>4, <2>1, <2>3, <3>3
  <2>. QED
    BY <2>2, <2>3
<1>6. Searched(E, s, walk[N], N)
  BY <1>1, <1>5
<1>7. walk[N].frontier = {}
  <2>1. walk[N].visited \subseteq Topic
    BY <1>6 DEF Searched
  <2>2. Cardinality(walk[N].visited) <= N /\ Cardinality(walk[N].visited) \in Nat
    BY <2>1, GraphAssumption, FS_Subset, FS_CardinalityType DEF N
  <2>. QED
    BY <1>1, <1>6, <2>2 DEF Searched
<1>. QED
  BY <1>2, <1>6, <1>7 DEF Searched

-----------------------------------------------------------------------------
\* An edge that validate_edge lets through closes no cycle.
LEMMA SafeEdgeClosesNone ==
  ASSUME NEW E \in SUBSET Edge, NEW s \in Topic, NEW t \in Topic, Safe(E, s, t), Acyclic(E)
  PROVE  Acyclic(E \cup {<<s, t>>})
<1>. SUFFICES ASSUME NEW S \in SUBSET Topic, Stuck(E \cup {<<s, t>>}, S) PROVE FALSE
  BY DEF Acyclic
<1>. DEFINE met == Walk(E, s).met
            V == {s} \cup met
<1>1. s # t /\ t \notin V
  BY DEF Safe
<1>2. \A e \in E : e[2] \in V => e[1] \in V
  BY WalkIsClosed
<1>. HIDE DEF met, V
<1>3. PICK x \in S : \A y \in S : <<y, x>> \notin E
  BY DEF Acyclic, Stuck
<1>4. x = t /\ s \in S
  BY <1>3 DEF Stuck
<1>5. Stuck(E, S \cap V)
  <2>1. s \in S \cap V
    BY <1>4 DEF V
  <2>2. ASSUME NEW z \in S \cap V PROVE \E y \in S \cap V : <<y, z>> \in E
    <3>1. PICK y \in S : <<y, z>> \in E \cup {<<s, t>>}
      BY DEF Stuck
    <3>2. <<y, z>> \in E
      BY <1>1, <3>1
    <3>3. y \in V
      BY <1>2, <3>2
    <3>. QED
      BY <3>2, <3>3
  <2>. QED
    BY <2>1, <2>2 DEF Stuck
<1>. QED
  BY <1>5 DEF Acyclic

\* While requests do not overlap one edge is validated at a time, and it is
\* inserted into the graph it was validated against.
OneAdding == \A c, d \in Editor : adding[c] # NoEdge /\ adding[d] # NoEdge => c = d

AddingIsSafe ==
    \A c \in Editor : adding[c] # NoEdge => Safe(edges, adding[c][1], adding[c][2])

EdgeInv == PrerequisiteTypeOK /\ OneAdding /\ AddingIsSafe /\ EditorsCloseNoCycle

LEMMA PairIsEdge == \A e \in Edge : e # NoEdge /\ e = <<e[1], e[2]>> /\ e[1] \in Topic /\ e[2] \in Topic
  BY DEF Edge, NoEdge

LEMMA EdgesStart == PrerequisiteInit => EdgeInv
  BY GraphAssumption
  DEF PrerequisiteInit, EdgeInv, PrerequisiteTypeOK, OneAdding, AddingIsSafe, EditorsCloseNoCycle, Edge

LEMMA EdgesStep ==
  ASSUME ~EdgeOverlap
  PROVE  EdgeInv /\ [PrerequisiteNext]_edgeVars => EdgeInv'
<1>1. ASSUME EdgeInv, NEW c \in Editor, NEW s \in Topic, NEW t \in Topic, CreateEdge(c, s, t)
      PROVE  EdgeInv'
  <2>1. <<s, t>> \in Edge /\ <<s, t>>[1] = s /\ <<s, t>>[2] = t /\ Safe(edges, s, t)
    BY <1>1 DEF CreateEdge, Safe, Edge
  <2>2. \A d \in Editor : adding'[d] = IF d = c THEN <<s, t>> ELSE NoEdge
    BY <1>1 DEF CreateEdge, EdgeInv, PrerequisiteTypeOK
  <2>3. PrerequisiteTypeOK'
    BY <1>1, <2>1 DEF CreateEdge, EdgeInv, PrerequisiteTypeOK
  <2>4. OneAdding'
    BY <2>2 DEF OneAdding
  <2>5. edges' = edges /\ given' = given
    BY <1>1 DEF CreateEdge
  <2>6. AddingIsSafe'
    BY <2>1, <2>2, <2>5 DEF AddingIsSafe
  <2>. QED
    BY <1>1, <2>3, <2>4, <2>5, <2>6 DEF EdgeInv, EditorsCloseNoCycle
<1>2. ASSUME EdgeInv, NEW c \in Editor, InsertEdge(c)
      PROVE  EdgeInv'
  <2>1. PICK e \in Edge : e = adding[c]
    BY <1>2 DEF InsertEdge, EdgeInv, PrerequisiteTypeOK
  <2>2. edges' = edges \cup {<<e[1], e[2]>>} /\ given' = given
    BY <1>2, <2>1, PairIsEdge DEF InsertEdge
  <2>3. \A d \in Editor : adding'[d] = NoEdge
    BY <1>2 DEF InsertEdge, EdgeInv, PrerequisiteTypeOK, OneAdding
  <2>4. PrerequisiteTypeOK'
    BY <1>2, <2>1 DEF InsertEdge, EdgeInv, PrerequisiteTypeOK
  <2>5. Safe(edges, e[1], e[2])
    BY <1>2, <2>1 DEF InsertEdge, EdgeInv, AddingIsSafe
  <2>6. Acyclic(edges) => Acyclic(edges')
    BY <1>2, <2>1, <2>2, <2>5, PairIsEdge, SafeEdgeClosesNone DEF EdgeInv, PrerequisiteTypeOK
  <2>. QED
    BY <1>2, <2>2, <2>3, <2>4, <2>6
    DEF EdgeInv, OneAdding, AddingIsSafe, EditorsCloseNoCycle
<1>3. ASSUME EdgeInv, UNCHANGED edgeVars
      PROVE  EdgeInv'
  BY <1>3 DEF edgeVars, EdgeInv, PrerequisiteTypeOK, OneAdding, AddingIsSafe, EditorsCloseNoCycle
<1>. QED
  BY <1>1, <1>2, <1>3 DEF PrerequisiteNext

(***************************************************************************)
(* While requests do not overlap, the edges that editors create (create_   *)
(* edge, which asks validate_edge first) close no cycle that the seed had  *)
(* not brought: however many topics there are, and whatever was seeded.    *)
(***************************************************************************)
THEOREM NoCycleIsClosed ==
  ASSUME ~EdgeOverlap
  PROVE  PrerequisiteSpec => []EditorsCloseNoCycle
<1>1. EdgeInv => EditorsCloseNoCycle
  BY DEF EdgeInv
<1>. QED
  BY <1>1, EdgesStart, EdgesStep, PTL DEF PrerequisiteSpec

-----------------------------------------------------------------------------
(***************************************************************************)
(* What is reached from a topic along so many edges.                       *)
(***************************************************************************)

\* One edge further.
Beyond(E, S) == {e[2] : e \in {d \in E : d[1] \in S}}

WithinAt(E, a, n, g) ==
    g = [k \in 0 .. n |-> IF k = 0 THEN {a} ELSE g[k - 1] \cup Beyond(E, g[k - 1])]

LEMMA WithinExists ==
  ASSUME NEW E \in SUBSET Edge, NEW a \in Topic, NEW n \in Nat
  PROVE  \E g : WithinAt(E, a, n, g)
<1>. DEFINE X == SUBSET Topic
            step == [k \in 1 .. n |-> [S \in X |-> S \cup Beyond(E, S)]]
<1>1. step \in [1 .. n -> [X -> X]]
  <2>1. \A S : Beyond(E, S) \subseteq Topic
    BY DEF Beyond, Edge
  <2>. QED
    BY <2>1
<1>2. {a} \in X
  OBVIOUS
<1>. HIDE DEF step
<1>3. PICK g \in [0 .. n -> X] : Recurs(g, n, {a}, step)
  <2>. HIDE DEF X
  <2>. QED
    BY <1>1, <1>2, Recursion
<1>4. ASSUME NEW k \in 0 .. n
      PROVE  g[k] = IF k = 0 THEN {a} ELSE g[k - 1] \cup Beyond(E, g[k - 1])
  <2>1. k # 0 => k \in 1 .. n /\ k - 1 \in 0 .. n
    OBVIOUS
  <2>2. k # 0 => g[k - 1] \in X
    BY <2>1
  <2>. QED
    BY <1>3, <2>1, <2>2 DEF Recurs, step
<1>5. WithinAt(E, a, n, g)
  BY <1>4 DEF WithinAt
<1>. QED
  BY <1>5

LEMMA WithinUnfolds ==
  ASSUME NEW E \in SUBSET Edge, NEW a \in Topic, NEW n \in Nat
  PROVE  \E g : WithinAt(E, a, n, g) /\ Within(E, a, n) = g[n]
<1>. DEFINE g == CHOOSE g : WithinAt(E, a, n, g)
<1>1. Within(E, a, n) = g[n]
  BY DEF Within, WithinAt, Beyond
<1>2. WithinAt(E, a, n, g)
  BY WithinExists
<1>. QED
  BY <1>1, <1>2

\* The lesser one is the beginning of the greater one.
LEMMA WithinAgrees ==
  ASSUME NEW E \in SUBSET Edge, NEW a \in Topic, NEW n \in Nat, NEW m \in 0 .. n,
         NEW g, WithinAt(E, a, m, g), NEW h, WithinAt(E, a, n, h)
  PROVE  g[m] = h[m]
<1>. DEFINE P == {k \in 0 .. m : g[k] = h[k]}
<1>1. \A k \in 0 .. m : g[k] = IF k = 0 THEN {a} ELSE g[k - 1] \cup Beyond(E, g[k - 1])
  BY DEF WithinAt
<1>2. \A k \in 0 .. m : h[k] = IF k = 0 THEN {a} ELSE h[k - 1] \cup Beyond(E, h[k - 1])
  <2>1. \A k \in 0 .. m : k \in 0 .. n
    OBVIOUS
  <2>2. \A k \in 0 .. n : h[k] = IF k = 0 THEN {a} ELSE h[k - 1] \cup Beyond(E, h[k - 1])
    BY DEF WithinAt
  <2>. QED
    BY <2>1, <2>2
<1>3. 0 \in P
  <2>1. 0 \in 0 .. m
    OBVIOUS
  <2>2. g[0] = {a} /\ h[0] = {a}
    BY <1>1, <1>2, <2>1
  <2>. QED
    BY <2>1, <2>2
<1>4. ASSUME NEW k \in 1 .. m, k - 1 \in P PROVE k \in P
  <2>1. k \in 0 .. m /\ k # 0
    OBVIOUS
  <2>2. g[k - 1] = h[k - 1]
    BY <1>4
  <2>. QED
    BY <1>1, <1>2, <2>1, <2>2
<1>. HIDE DEF P
<1>5. m \in P
  <2>1. m \in Nat /\ m \in 0 .. m
    OBVIOUS
  <2>. QED
    BY <1>3, <1>4, <2>1, UpTo
<1>. QED
  BY <1>5 DEF P

LEMMA WithinSteps ==
  ASSUME NEW E \in SUBSET Edge, NEW a \in Topic
  PROVE  /\ Within(E, a, 0) = {a}
         /\ \A n \in Nat : Within(E, a, n + 1) = Within(E, a, n) \cup Beyond(E, Within(E, a, n))
<1>1. Within(E, a, 0) = {a}
  <2>1. PICK g : WithinAt(E, a, 0, g) /\ Within(E, a, 0) = g[0]
    BY WithinUnfolds
  <2>. QED
    BY <2>1 DEF WithinAt
<1>2. ASSUME NEW n \in Nat
      PROVE  Within(E, a, n + 1) = Within(E, a, n) \cup Beyond(E, Within(E, a, n))
  <2>1. n + 1 \in Nat /\ n \in 0 .. n + 1 /\ n + 1 \in 0 .. n + 1 /\ n + 1 # 0 /\ (n + 1) - 1 = n
    OBVIOUS
  <2>2. PICK g : WithinAt(E, a, n, g) /\ Within(E, a, n) = g[n]
    BY WithinUnfolds
  <2>3. PICK h : WithinAt(E, a, n + 1, h) /\ Within(E, a, n + 1) = h[n + 1]
    BY <2>1, WithinUnfolds
  <2>4. g[n] = h[n]
    BY <2>1, <2>2, <2>3, WithinAgrees
  <2>5. h[n + 1] = h[n] \cup Beyond(E, h[n])
    BY <2>1, <2>3 DEF WithinAt
  <2>. QED
    BY <2>2, <2>3, <2>4, <2>5
<1>. QED
  BY <1>1, <1>2

LEMMA WithinTopics ==
  ASSUME NEW E \in SUBSET Edge, NEW a \in Topic, NEW n \in Nat
  PROVE  Within(E, a, n) \subseteq Topic /\ a \in Within(E, a, n)
<1>. DEFINE P == {k \in 0 .. n : Within(E, a, k) \subseteq Topic /\ a \in Within(E, a, k)}
<1>1. 0 \in P
  BY WithinSteps
<1>2. ASSUME NEW k \in 1 .. n, k - 1 \in P PROVE k \in P
  <2>1. k - 1 \in Nat /\ (k - 1) + 1 = k /\ k \in 0 .. n
    OBVIOUS
  <2>2. Within(E, a, k) = Within(E, a, k - 1) \cup Beyond(E, Within(E, a, k - 1))
    <3>1. \A j \in Nat : Within(E, a, j + 1) = Within(E, a, j) \cup Beyond(E, Within(E, a, j))
      BY WithinSteps
    <3>. QED
      BY <2>1, <3>1
  <2>3. Beyond(E, Within(E, a, k - 1)) \subseteq Topic
    BY DEF Beyond, Edge
  <2>. QED
    BY <1>2, <2>1, <2>2, <2>3
<1>. HIDE DEF P
<1>3. n \in P
  <2>1. n \in 0 .. n
    OBVIOUS
  <2>. QED
    BY <1>1, <1>2, <2>1, UpTo
<1>. QED
  BY <1>3 DEF P

\* It grows, and it has all there is to reach once it has had as many rounds
\* as there are topics, for until then each round adds one.
LEMMA WithinGrows ==
  ASSUME NEW E \in SUBSET Edge, NEW a \in Topic, NEW n \in Nat
  PROVE  \A k \in 0 .. n : Within(E, a, k) \subseteq Within(E, a, n)
<1>. DEFINE P == {m \in 0 .. n : \A k \in 0 .. m : Within(E, a, k) \subseteq Within(E, a, m)}
<1>1. 0 \in P
  <2>1. \A k \in 0 .. 0 : k = 0
    OBVIOUS
  <2>. QED
    BY <2>1
<1>2. ASSUME NEW m \in 1 .. n, m - 1 \in P PROVE m \in P
  <2>1. m - 1 \in Nat /\ (m - 1) + 1 = m /\ m \in 0 .. n /\ \A k \in 0 .. m : k = m \/ k \in 0 .. m - 1
    OBVIOUS
  <2>2. Within(E, a, m) = Within(E, a, m - 1) \cup Beyond(E, Within(E, a, m - 1))
    <3>1. \A j \in Nat : Within(E, a, j + 1) = Within(E, a, j) \cup Beyond(E, Within(E, a, j))
      BY WithinSteps
    <3>. QED
      BY <2>1, <3>1
  <2>. QED
    BY <1>2, <2>1, <2>2
<1>. HIDE DEF P
<1>3. n \in P
  <2>1. n \in 0 .. n
    OBVIOUS
  <2>. QED
    BY <1>1, <1>2, <2>1, UpTo
<1>. QED
  BY <1>3 DEF P

Grown(E, a, n) ==
    \/ Cardinality(Within(E, a, n)) > n
    \/ Beyond(E, Within(E, a, n)) \subseteq Within(E, a, n)

LEMMA WithinGrown ==
  ASSUME NEW E \in SUBSET Edge, NEW a \in Topic, NEW n \in Nat, Grown(E, a, n)
  PROVE  Grown(E, a, n + 1)
<1>. DEFINE W == Within(E, a, n)
            V == Within(E, a, n + 1)
<1>1. V = W \cup Beyond(E, W)
  BY WithinSteps
<1>2. W \subseteq Topic /\ V \subseteq Topic
  BY WithinTopics
<1>3. IsFiniteSet(W) /\ IsFiniteSet(V)
  BY <1>2, GraphAssumption, FS_Subset
<1>4. Cardinality(W) \in Nat /\ Cardinality(V) \in Nat
  BY <1>3, FS_CardinalityType
<1>. HIDE DEF W, V
<1>5. CASE Beyond(E, W) \subseteq W
  <2>1. V = W
    BY <1>1, <1>5
  <2>. QED
    BY <1>5, <2>1 DEF Grown, V
<1>6. CASE ~ Beyond(E, W) \subseteq W
  <2>1. Cardinality(W) > n
    BY <1>6 DEF Grown, W
  <2>2. PICK x \in Beyond(E, W) : x \notin W
    BY <1>6
  <2>3. Cardinality(W \cup {x}) = Cardinality(W) + 1
    BY <1>3, <2>2, FS_AddElement
  <2>4. Cardinality(W \cup {x}) <= Cardinality(V)
    <3>1. W \cup {x} \in SUBSET V
      BY <1>1, <2>2
    <3>. QED
      BY <1>3, <3>1, FS_Subset
  <2>5. Cardinality(V) > n + 1
    BY <1>4, <2>1, <2>3, <2>4
  <2>. QED
    BY <2>5 DEF Grown, V
<1>. QED
  BY <1>5, <1>6

LEMMA WithinIsClosed ==
  ASSUME NEW E \in SUBSET Edge, NEW a \in Topic
  PROVE  LET reached == Within(E, a, Cardinality(Topic))
         IN  reached \subseteq Topic /\ a \in reached /\ Beyond(E, reached) \subseteq reached
<1>. DEFINE N == Cardinality(Topic)
            reached == Within(E, a, N)
            P == {k \in 0 .. N : Grown(E, a, k)}
<1>1. N \in Nat
  BY GraphAssumption, FS_CardinalityType
<1>2. reached \subseteq Topic /\ a \in reached
  BY <1>1, WithinTopics
<1>3. Cardinality(reached) <= N /\ Cardinality(reached) \in Nat
  BY <1>2, GraphAssumption, FS_Subset, FS_CardinalityType
<1>. HIDE DEF N
<1>4. 0 \in P
  <2>1. Within(E, a, 0) = {a}
    BY WithinSteps
  <2>2. Cardinality({a}) = 1
    BY FS_Singleton
  <2>. QED
    BY <1>1, <2>1, <2>2 DEF Grown
<1>5. ASSUME NEW k \in 1 .. N, k - 1 \in P PROVE k \in P
  <2>1. k - 1 \in Nat /\ (k - 1) + 1 = k /\ k \in 0 .. N
    BY <1>1
  <2>2. Grown(E, a, k - 1)
    BY <1>5
  <2>3. Grown(E, a, (k - 1) + 1)
    BY <2>1, <2>2, WithinGrown
  <2>. QED
    BY <2>1, <2>3
<1>6. Grown(E, a, N)
  <2>. HIDE DEF P
  <2>1. N \in P
    <3>1. N \in 0 .. N
      BY <1>1
    <3>. QED
      BY <1>1, <1>4, <1>5, <3>1, UpTo
  <2>. QED
    BY <2>1 DEF P
<1>. QED
  BY <1>1, <1>2, <1>3, <1>6 DEF Grown, N

-----------------------------------------------------------------------------
(***************************************************************************)
(* get_subgraph: a neighbourhood.                                          *)
(***************************************************************************)

Beginning(root) == [visited |-> {root}, frontier |-> {root}, edges |-> {}]

EdgesAt(E, S) == {e \in E : e[1] \in S \/ e[2] \in S}
EndsOf(D) == {x \in Topic : \E e \in D : x \in {e[1], e[2]}}

Around(E, w) ==
    [visited |-> w.visited \cup (EndsOf(EdgesAt(E, w.frontier)) \ w.visited),
     frontier |-> EndsOf(EdgesAt(E, w.frontier)) \ w.visited,
     edges |-> w.edges \cup EdgesAt(E, w.frontier)]

BothWays(E) == E \cup {<<e[2], e[1]>> : e \in E}

SubgraphAt(E, root, n, g) ==
    g = [k \in 0 .. n |-> IF k = 0 THEN Beginning(root) ELSE Around(E, g[k - 1])]

LEMMA SubgraphUnfolds ==
  ASSUME NEW E \in SUBSET Edge, NEW root \in Topic, NEW n \in Nat
  PROVE  \E g : SubgraphAt(E, root, n, g) /\ Subgraph(E, root, n) = g[n]
<1>. DEFINE X == [visited : SUBSET Topic, frontier : SUBSET Topic, edges : SUBSET E]
            step == [k \in 1 .. n |-> [w \in X |-> Around(E, w)]]
<1>1. step \in [1 .. n -> [X -> X]]
  <2>1. ASSUME NEW w \in X PROVE Around(E, w) \in X
    <3>. DEFINE at == EdgesAt(E, w.frontier)
                ends == EndsOf(at)
    <3>1. Around(E, w) = [visited |-> w.visited \cup (ends \ w.visited),
                          frontier |-> ends \ w.visited, edges |-> w.edges \cup at]
      BY DEF Around
    <3>2. ends \subseteq Topic /\ at \subseteq E
      BY DEF Edge, EdgesAt, EndsOf
    <3>. HIDE DEF at, ends
    <3>. QED
      BY <3>1, <3>2
  <2>. QED
    BY <2>1
<1>2. Beginning(root) \in X
  BY DEF Beginning
<1>. HIDE DEF step
<1>3. PICK g \in [0 .. n -> X] : Recurs(g, n, Beginning(root), step)
  <2>. HIDE DEF X
  <2>. QED
    BY <1>1, <1>2, Recursion
<1>4. ASSUME NEW k \in 0 .. n
      PROVE  g[k] = IF k = 0 THEN Beginning(root) ELSE Around(E, g[k - 1])
  <2>1. k # 0 => k \in 1 .. n /\ k - 1 \in 0 .. n
    OBVIOUS
  <2>. HIDE DEF X
  <2>2. k # 0 => g[k - 1] \in X
    BY <2>1
  <2>. QED
    BY <1>3, <2>1, <2>2 DEF Recurs, step
<1>5. SubgraphAt(E, root, n, g)
  BY <1>4 DEF SubgraphAt
<1>. DEFINE h == CHOOSE h : SubgraphAt(E, root, n, h)
<1>6. Subgraph(E, root, n) = h[n]
  BY DEF Subgraph, SubgraphAt, Around, Beginning, EdgesAt, EndsOf
<1>7. SubgraphAt(E, root, n, h)
  BY <1>5
<1>. QED
  BY <1>6, <1>7

\* After n rounds: all within n edges, and the edges at what was within n - 1.
RingOf(E, root, w, n) ==
    /\ w.visited = Within(BothWays(E), root, n)
    /\ w.frontier \subseteq w.visited
    /\ \A e \in E : e[1] \in w.visited \ w.frontier \/ e[2] \in w.visited \ w.frontier
                    <=> e \in w.edges
    /\ w.edges \subseteq E
    /\ \A e \in w.edges : {e[1], e[2]} \subseteq w.visited

LEMMA AroundKeeps ==
  ASSUME NEW E \in SUBSET Edge, NEW root \in Topic, NEW n \in Nat, NEW w, RingOf(E, root, w, n)
  PROVE  RingOf(E, root, Around(E, w), n + 1)
<1>. DEFINE at == EdgesAt(E, w.frontier)
            ends == EndsOf(at)
            v == Around(E, w)
            B == BothWays(E)
<1>1. v = [visited |-> w.visited \cup (ends \ w.visited),
           frontier |-> ends \ w.visited, edges |-> w.edges \cup at]
  BY DEF Around
<1>2. /\ v.visited = w.visited \cup ends /\ v.frontier = ends \ w.visited
      /\ v.edges = w.edges \cup at
  <2>. HIDE DEF at, ends, v
  <2>. QED
    BY <1>1
<1>3. B \subseteq Edge
  BY DEF BothWays, Edge
<1>4. \A x : x \in ends <=> \E e \in at : x = e[1] \/ x = e[2]
  BY DEF EndsOf, EdgesAt, Edge
<1>5. \A e \in E : e \in at <=> e[1] \in w.frontier \/ e[2] \in w.frontier
  BY DEF EdgesAt
<1>6. at \subseteq E
  BY DEF EdgesAt
<1>. HIDE DEF at, ends, v
<1>7. w.visited \cup ends = w.visited \cup Beyond(B, w.visited)
  <2>1. ASSUME NEW x \in ends PROVE x \in w.visited \cup Beyond(B, w.visited)
    <3>1. PICK e \in at : x = e[1] \/ x = e[2]
      BY <1>4
    <3>2. e \in E /\ e = <<e[1], e[2]>> /\ e \in B /\ <<e[2], e[1]>> \in B
      BY <1>6 DEF BothWays, Edge
    <3>3. e[1] \in w.visited => e[2] \in Beyond(B, w.visited)
      BY <3>2 DEF Beyond
    <3>4. e[2] \in w.visited => e[1] \in Beyond(B, w.visited)
      BY <3>2 DEF Beyond
    <3>. QED
      BY <1>5, <3>1, <3>2, <3>3, <3>4 DEF RingOf
  <2>2. ASSUME NEW x \in Beyond(B, w.visited) PROVE x \in w.visited \cup ends
    <3>1. PICK b \in B : b[1] \in w.visited /\ x = b[2]
      BY DEF Beyond
    <3>2. PICK e \in E : (b[1] = e[1] /\ b[2] = e[2]) \/ (b[1] = e[2] /\ b[2] = e[1])
      BY DEF BothWays
    <3>3. CASE e \in at
      BY <1>4, <3>1, <3>2, <3>3
    <3>4. CASE e \notin at
      <4>1. e \in w.edges
        BY <1>5, <3>1, <3>2, <3>4 DEF RingOf
      <4>. QED
        BY <3>1, <3>2, <4>1 DEF RingOf
    <3>. QED
      BY <3>3, <3>4
  <2>. QED
    BY <2>1, <2>2
<1>8. v.visited = Within(B, root, n + 1)
  BY <1>2, <1>3, <1>7, WithinSteps DEF RingOf
<1>9. ASSUME NEW e \in E
      PROVE  e[1] \in v.visited \ v.frontier \/ e[2] \in v.visited \ v.frontier <=> e \in v.edges
  <2>1. v.visited \ v.frontier = w.visited
    BY <1>2
  <2>. QED
    BY <1>2, <1>5, <2>1 DEF RingOf
<1>10. ASSUME NEW e \in v.edges PROVE {e[1], e[2]} \subseteq v.visited
  BY <1>2, <1>4 DEF RingOf
<1>11. v.edges \subseteq E
  BY <1>2, <1>6 DEF RingOf
<1>. QED
  BY <1>2, <1>8, <1>9, <1>10, <1>11 DEF RingOf, v

LEMMA NeighbourhoodLemma ==
  ASSUME NEW E \in SUBSET Edge, NEW root \in Topic, NEW n \in Nat
  PROVE  RingOf(E, root, Subgraph(E, root, n), n)
<1>1. PICK g : SubgraphAt(E, root, n, g) /\ Subgraph(E, root, n) = g[n]
  BY SubgraphUnfolds
<1>2. \A k \in 0 .. n : g[k] = IF k = 0 THEN Beginning(root) ELSE Around(E, g[k - 1])
  BY <1>1 DEF SubgraphAt
<1>. DEFINE P == {k \in 0 .. n : RingOf(E, root, g[k], k)}
<1>3. 0 \in P
  <2>1. BothWays(E) \subseteq Edge
    BY DEF BothWays, Edge
  <2>2. Within(BothWays(E), root, 0) = {root}
    BY <2>1, WithinSteps
  <2>3. RingOf(E, root, Beginning(root), 0)
    BY <2>2 DEF RingOf, Beginning
  <2>4. 0 \in 0 .. n
    OBVIOUS
  <2>. QED
    BY <1>2, <2>3, <2>4
<1>4. ASSUME NEW k \in 1 .. n, k - 1 \in P PROVE k \in P
  <2>1. k - 1 \in Nat /\ (k - 1) + 1 = k /\ k \in 0 .. n /\ k # 0
    OBVIOUS
  <2>2. RingOf(E, root, Around(E, g[k - 1]), (k - 1) + 1)
    BY <1>4, <2>1, AroundKeeps
  <2>. QED
    BY <1>2, <2>1, <2>2
<1>. HIDE DEF P
<1>5. n \in P
  <2>1. n \in 0 .. n
    OBVIOUS
  <2>. QED
    BY <1>3, <1>4, <2>1, UpTo
<1>. QED
  BY <1>1, <1>5 DEF P

LEMMA NeighbourhoodsAreWhole == edges \in SUBSET Edge => NeighbourhoodIsWhole
<1>. SUFFICES ASSUME edges \in SUBSET Edge, NEW root \in Topic, NEW depth \in 1 .. 2
              PROVE  LET around == Subgraph(edges, root, depth)
                     IN /\ \A e \in around.edges : {e[1], e[2]} \subseteq around.visited
                        /\ \A e \in edges \ around.edges :
                              {e[1], e[2]} \subseteq around.visited
                              => {e[1], e[2]} \subseteq around.frontier
                        /\ Within(edges \cup {<<e[2], e[1]>> : e \in edges}, root, depth)
                           = around.visited
  BY Zenon DEF NeighbourhoodIsWhole
<1>. DEFINE around == Subgraph(edges, root, depth)
<1>1. RingOf(edges, root, around, depth)
  BY NeighbourhoodLemma
<1>. HIDE DEF around
<1>2. \A e \in edges \ around.edges : {e[1], e[2]} \subseteq around.visited
                                    => {e[1], e[2]} \subseteq around.frontier
  BY <1>1 DEF RingOf
<1>. QED
  BY <1>1, <1>2 DEF RingOf, BothWays, around

(***************************************************************************)
(* Lists of topics without repetition.                                     *)
(***************************************************************************)

NoRepeat(q) == \A i, j \in DOMAIN q : q[i] = q[j] => i = j

LEMMA SetToSeqLemma ==
  ASSUME NEW S, IsFiniteSet(S)
  PROVE  /\ SetToSeq(S) \in Seq(S) /\ Range(SetToSeq(S)) = S
         /\ NoRepeat(SetToSeq(S))
<1>. DEFINE n == Cardinality(S)
            q == SetToSeq(S)
<1>1. n \in Nat /\ ExistsBijection(1 .. n, S)
  BY FS_CardinalityType
<1>2. PICK f \in [1 .. n -> S] : IsInjective(f)
  BY <1>1 DEF ExistsBijection, Bijection, Injection, IsInjective
<1>3. q \in [1 .. n -> S] /\ IsInjective(q)
  BY <1>2 DEF SetToSeq
<1>. HIDE DEF n, q
<1>4. q \in Seq(S)
  BY <1>1, <1>3
<1>5. NoRepeat(q)
  BY <1>3 DEF NoRepeat, IsInjective
<1>6. Range(q) = S
  <2>1. q \in Injection(1 .. n, S)
    BY <1>3 DEF Injection, IsInjective
  <2>2. Cardinality(1 .. n) = n
    BY <1>1, FS_Interval
  <2>3. q \in Surjection(1 .. n, S)
    BY <2>1, <2>2, FS_Injection DEF n
  <2>. QED
    BY <1>3, <2>3 DEF Surjection, Range
<1>. QED
  BY <1>4, <1>5, <1>6 DEF q

LEMMA AppendLemma ==
  ASSUME NEW T, NEW q \in Seq(T), NEW x \in T
  PROVE  /\ Append(q, x) \in Seq(T) /\ Range(Append(q, x)) = Range(q) \cup {x}
         /\ NoRepeat(q) /\ x \notin Range(q) => NoRepeat(Append(q, x))
<1>. DEFINE p == Append(q, x)
<1>1. /\ p \in Seq(T) /\ Len(p) = Len(q) + 1 /\ DOMAIN p = 1 .. Len(q) + 1
      /\ DOMAIN q = 1 .. Len(q) /\ p[Len(q) + 1] = x /\ \A i \in 1 .. Len(q) : p[i] = q[i]
      /\ Len(q) \in Nat
  OBVIOUS
<1>. HIDE DEF p
<1>2. Range(p) = Range(q) \cup {x}
  BY <1>1 DEF Range
<1>3. NoRepeat(q) /\ x \notin Range(q) => NoRepeat(p)
  BY <1>1 DEF NoRepeat, Range
<1>. QED
  BY <1>1, <1>2, <1>3 DEF p

LEMMA HeadTailLemma ==
  ASSUME NEW T, NEW q \in Seq(T), q # <<>>
  PROVE  /\ Head(q) \in T /\ Tail(q) \in Seq(T) /\ Range(q) = {Head(q)} \cup Range(Tail(q))
         /\ NoRepeat(q) => NoRepeat(Tail(q)) /\ Head(q) \notin Range(Tail(q))
<1>. DEFINE p == Tail(q)
<1>1. /\ p \in Seq(T) /\ DOMAIN p = 1 .. Len(q) - 1 /\ Len(q) \in Nat \ {0}
      /\ DOMAIN q = 1 .. Len(q) /\ \A i \in 1 .. Len(q) - 1 : p[i] = q[i + 1]
      /\ Head(q) = q[1] /\ q[1] \in T
  OBVIOUS
<1>. HIDE DEF p
<1>2. Range(q) = {Head(q)} \cup Range(p)
  <2>1. \A i \in DOMAIN q : i = 1 \/ (i - 1 \in DOMAIN p /\ q[i] = p[i - 1])
    BY <1>1
  <2>2. \A i \in DOMAIN p : i + 1 \in DOMAIN q /\ p[i] = q[i + 1]
    BY <1>1
  <2>3. 1 \in DOMAIN q
    BY <1>1
  <2>. QED
    BY <1>1, <2>1, <2>2, <2>3 DEF Range
<1>3. ASSUME NoRepeat(q) PROVE NoRepeat(p) /\ Head(q) \notin Range(p)
  <2>1. \A i \in DOMAIN p : i + 1 \in DOMAIN q /\ p[i] = q[i + 1] /\ i \in Nat
    BY <1>1
  <2>2. NoRepeat(p)
    BY <1>3, <2>1 DEF NoRepeat
  <2>3. \A i \in DOMAIN p : p[i] # q[1]
    BY <1>1, <1>3, <2>1 DEF NoRepeat
  <2>. QED
    BY <1>1, <2>2, <2>3 DEF Range
<1>. QED
  BY <1>1, <1>2, <1>3 DEF p

LEMMA ConcatLemma ==
  ASSUME NEW T, NEW p \in Seq(T), NEW q \in Seq(T)
  PROVE  /\ p \o q \in Seq(T) /\ Range(p \o q) = Range(p) \cup Range(q)
         /\ NoRepeat(p) /\ NoRepeat(q) /\ Range(p) \cap Range(q) = {} => NoRepeat(p \o q)
<1>. DEFINE r == p \o q
<1>1. /\ r \in Seq(T) /\ DOMAIN r = 1 .. Len(p) + Len(q)
      /\ DOMAIN p = 1 .. Len(p) /\ DOMAIN q = 1 .. Len(q) /\ Len(p) \in Nat /\ Len(q) \in Nat
      /\ \A i \in 1 .. Len(p) + Len(q) : r[i] = IF i <= Len(p) THEN p[i] ELSE q[i - Len(p)]
  OBVIOUS
<1>. HIDE DEF r
<1>2. \A i \in DOMAIN r : \/ i \in DOMAIN p /\ r[i] = p[i]
                          \/ i - Len(p) \in DOMAIN q /\ r[i] = q[i - Len(p)] /\ i > Len(p)
  BY <1>1
<1>3. \A i \in DOMAIN p : i \in DOMAIN r /\ r[i] = p[i]
  BY <1>1
<1>4. \A i \in DOMAIN q : i + Len(p) \in DOMAIN r /\ r[i + Len(p)] = q[i]
  BY <1>1
<1>5. Range(r) = Range(p) \cup Range(q)
  BY <1>2, <1>3, <1>4 DEF Range
<1>6. ASSUME NoRepeat(p), NoRepeat(q), Range(p) \cap Range(q) = {}, NEW i \in DOMAIN r,
             NEW j \in DOMAIN r, r[i] = r[j]
      PROVE  i = j
  <2>1. CASE i \in DOMAIN p /\ r[i] = p[i] /\ j \in DOMAIN p /\ r[j] = p[j]
    BY <1>6, <2>1 DEF NoRepeat
  <2>2. CASE i - Len(p) \in DOMAIN q /\ r[i] = q[i - Len(p)] /\ j - Len(p) \in DOMAIN q /\ r[j] = q[j - Len(p)]
    <3>1. i - Len(p) = j - Len(p)
      BY <1>6, <2>2 DEF NoRepeat
    <3>2. i \in Int /\ j \in Int
      BY <1>1
    <3>. QED
      BY <1>1, <3>1, <3>2
  <2>3. \A k \in DOMAIN p, m \in DOMAIN q : p[k] # q[m]
    BY <1>6 DEF Range
  <2>. QED
    BY <1>2, <1>6, <2>1, <2>2, <2>3
<1>. QED
  BY <1>1, <1>5, <1>6 DEF r, NoRepeat

LEMMA RangeLemma ==
  ASSUME NEW T, NEW q \in Seq(T)
  PROVE  Range(q) \subseteq T /\ (Range(q) = {} => q = <<>>)
<1>1. DOMAIN q = 1 .. Len(q) /\ Len(q) \in Nat /\ \A i \in 1 .. Len(q) : q[i] \in T
  OBVIOUS
<1>2. Range(q) \subseteq T
  BY <1>1 DEF Range
<1>3. ASSUME Range(q) = {} PROVE q = <<>>
  <2>1. 1 \notin DOMAIN q
    BY <1>3 DEF Range
  <2>2. Len(q) = 0
    BY <1>1, <2>1
  <2>. QED
    BY <2>2
<1>. QED
  BY <1>2, <1>3

LEMMA LengthIsCount ==
  ASSUME NEW T, NEW q \in Seq(T), NoRepeat(q)
  PROVE  IsFiniteSet(Range(q)) /\ Cardinality(Range(q)) = Len(q)
<1>1. Len(q) \in Nat /\ DOMAIN q = 1 .. Len(q)
  OBVIOUS
<1>2. q \in Bijection(1 .. Len(q), Range(q))
  <2>1. q \in [1 .. Len(q) -> Range(q)]
    BY <1>1 DEF Range
  <2>. QED
    <3>1. q \in Injection(1 .. Len(q), Range(q))
      BY <1>1, <2>1 DEF Injection, IsInjective, NoRepeat
    <3>2. q \in Surjection(1 .. Len(q), Range(q))
      BY <1>1, <2>1 DEF Surjection, Range
    <3>. QED
      BY <3>1, <3>2 DEF Bijection
<1>3. ExistsBijection(1 .. Len(q), Range(q))
  BY <1>2 DEF ExistsBijection
<1>. QED
  BY <1>1, <1>3, FS_NatBijection, FS_CountingElements

-----------------------------------------------------------------------------
(***************************************************************************)
(* _topological_sort: Kahn's algorithm.                                    *)
(***************************************************************************)

Inner(E, T) == {e \in E : e[1] \in T /\ e[2] \in T}

KahnStart(I, T) ==
    LET degree == [x \in T |-> InDegree(I, T, x)]
    IN  [degree |-> degree, result |-> <<>>, queue |-> SetToSeq({x \in T : degree[x] = 0})]

KahnStep(I, T, k) ==
    LET x == Head(k.queue)
        next == {y \in T : <<x, y>> \in I}
    IN  IF k.queue = <<>> THEN k
        ELSE [degree |-> [y \in T |-> IF y \in next THEN k.degree[y] - 1 ELSE k.degree[y]],
              result |-> Append(k.result, x),
              queue |-> Tail(k.queue) \o SetToSeq({y \in next : Released(k.degree, y)})]

KahnAt(I, T, g) ==
    g = [n \in 0 .. Cardinality(T) |-> IF n = 0 THEN KahnStart(I, T) ELSE KahnStep(I, T, g[n - 1])]

KahnType(T) == [degree : [T -> Int], result : Seq(T), queue : Seq(T)]

\* Each degree counts the prerequisites that are not in the result yet; those
\* of degree 0 are in the result or in the queue, after all they need.
Sorted(I, T, k, n) ==
    /\ k \in KahnType(T)
    /\ NoRepeat(k.result) /\ NoRepeat(k.queue) /\ Range(k.result) \cap Range(k.queue) = {}
    /\ \A x \in T : k.degree[x] = InDegree(I, T \ Range(k.result), x)
    /\ \A x \in T : x \in Range(k.result) \cup Range(k.queue) <=> k.degree[x] = 0
    /\ \A j \in DOMAIN k.result : \A y \in T :
          <<y, k.result[j]>> \in I => \E i \in 1 .. j - 1 : k.result[i] = y
    /\ Len(k.result) = n \/ k.queue = <<>>

LEMMA InDegreeLemma ==
  ASSUME NEW I \in SUBSET Edge, NEW S, NEW x
  PROVE  /\ InDegree(I, S, x) \in Nat
         /\ InDegree(I, S, x) = 0 <=> \A y \in S : <<y, x>> \notin I
         /\ \A z \in S : InDegree(I, S \ {z}, x) = IF <<z, x>> \in I THEN InDegree(I, S, x) - 1
                                                   ELSE InDegree(I, S, x)
<1>. DEFINE W(R) == {e \in I : e[2] = x /\ e[1] \in R}
<1>1. IsFiniteSet(Edge)
  <2>1. IsFiniteSet(Topic \X Topic)
    BY GraphAssumption, FS_Product
  <2>2. Edge \in SUBSET (Topic \X Topic)
    BY DEF Edge
  <2>. QED
    BY <2>1, <2>2, FS_Subset
<1>2. \A R : IsFiniteSet(W(R))
  <2>1. \A R : W(R) \in SUBSET Edge
    OBVIOUS
  <2>. QED
    BY <1>1, <2>1, FS_Subset
<1>3. \A R : InDegree(I, R, x) = Cardinality(W(R))
  BY DEF InDegree
<1>4. \A e \in I : e = <<e[1], e[2]>>
  BY DEF Edge
<1>5. ASSUME NEW z \in S
      PROVE  InDegree(I, S \ {z}, x) = IF <<z, x>> \in I THEN InDegree(I, S, x) - 1
                                       ELSE InDegree(I, S, x)
  <2>1. W(S \ {z}) = W(S) \ {<<z, x>>}
    BY <1>4
  <2>2. <<z, x>> \in W(S) <=> <<z, x>> \in I
    OBVIOUS
  <2>3. IsFiniteSet(W(S))
    BY <1>2
  <2>4. InDegree(I, S \ {z}, x) = Cardinality(W(S \ {z})) /\ InDegree(I, S, x) = Cardinality(W(S))
    BY <1>3
  <2>. HIDE DEF W
  <2>5. Cardinality(W(S) \ {<<z, x>>})
        = IF <<z, x>> \in W(S) THEN Cardinality(W(S)) - 1 ELSE Cardinality(W(S))
    BY <2>3, FS_RemoveElement
  <2>. QED
    BY <2>1, <2>2, <2>4, <2>5
<1>6. InDegree(I, S, x) = 0 <=> \A y \in S : <<y, x>> \notin I
  <2>1. W(S) = {} <=> \A y \in S : <<y, x>> \notin I
    BY <1>4
  <2>. HIDE DEF W
  <2>2. Cardinality(W(S)) = 0 <=> W(S) = {}
    BY <1>2, FS_EmptySet
  <2>. QED
    BY <1>3, <2>1, <2>2
<1>7. InDegree(I, S, x) \in Nat
  <2>. HIDE DEF W
  <2>. QED
    BY <1>2, <1>3, FS_CardinalityType
<1>. QED
  BY <1>5, <1>6, <1>7

LEMMA KahnStarts ==
  ASSUME NEW I \in SUBSET Edge, NEW T \in SUBSET Topic
  PROVE  Sorted(I, T, KahnStart(I, T), 0)
<1>. DEFINE degree == [x \in T |-> InDegree(I, T, x)]
            S == {x \in T : degree[x] = 0}
            k == KahnStart(I, T)
<1>1. k.degree = degree /\ k.result = <<>> /\ k.queue = SetToSeq(S)
      /\ k = [degree |-> k.degree, result |-> k.result, queue |-> k.queue]
  BY DEF KahnStart
<1>2. IsFiniteSet(S)
  <2>1. S \in SUBSET Topic
    OBVIOUS
  <2>. QED
    BY <2>1, GraphAssumption, FS_Subset
<1>3. degree \in [T -> Int] /\ \A x \in T : degree[x] = InDegree(I, T, x)
  BY InDegreeLemma
<1>4. \A x \in T : x \in S <=> degree[x] = 0
  OBVIOUS
<1>. HIDE DEF degree, S, k
<1>5. k.queue \in Seq(T) /\ Range(k.queue) = S /\ NoRepeat(k.queue)
  <2>1. SetToSeq(S) \in Seq(S) /\ Range(SetToSeq(S)) = S /\ NoRepeat(SetToSeq(S))
    BY <1>2, SetToSeqLemma
  <2>2. S \subseteq T
    BY DEF S
  <2>. QED
    BY <1>1, <2>1, <2>2
<1>6. k.result \in Seq(T) /\ Range(k.result) = {} /\ NoRepeat(k.result) /\ Len(k.result) = 0
      /\ DOMAIN k.result = {}
  BY <1>1 DEF Range, NoRepeat
<1>7. k \in KahnType(T)
  BY <1>1, <1>3, <1>5, <1>6 DEF KahnType
<1>8. T \ Range(k.result) = T
  BY <1>6
<1>. QED
  BY <1>1, <1>3, <1>4, <1>5, <1>6, <1>7, <1>8 DEF Sorted, k
LEMMA KahnKeeps ==
  ASSUME NEW I \in SUBSET Edge, NEW T \in SUBSET Topic, NEW n \in Nat, NEW k, Sorted(I, T, k, n)
  PROVE  Sorted(I, T, KahnStep(I, T, k), n + 1)
<1>1. CASE k.queue = <<>>
  BY <1>1 DEF KahnStep, Sorted
<1>2. CASE k.queue # <<>>
  <2>. DEFINE x == Head(k.queue)
              next == {y \in T : <<x, y>> \in I}
              freed == {y \in next : Released(k.degree, y)}
              m == KahnStep(I, T, k)
              R == Range(k.result)
              Q == Range(k.queue)
  <2>1. /\ m = [degree |-> [y \in T |-> IF y \in next THEN k.degree[y] - 1 ELSE k.degree[y]],
                result |-> Append(k.result, x), queue |-> Tail(k.queue) \o SetToSeq(freed)]
    BY <1>2 DEF KahnStep
  <2>2. /\ m.degree = [y \in T |-> IF y \in next THEN k.degree[y] - 1 ELSE k.degree[y]]
        /\ m.result = Append(k.result, x) /\ m.queue = Tail(k.queue) \o SetToSeq(freed)
        /\ m = [degree |-> m.degree, result |-> m.result, queue |-> m.queue]
    <3>. HIDE DEF x, next, freed, m
    <3>. QED
      BY <2>1
  <2>3. k.degree \in [T -> Int] /\ k.result \in Seq(T) /\ k.queue \in Seq(T)
    BY DEF Sorted, KahnType
  <2>4. \A y \in T : k.degree[y] = InDegree(I, T \ R, y)
    BY DEF Sorted
  <2>5. \A y \in T : y \in R \cup Q <=> k.degree[y] = 0
    BY DEF Sorted
  <2>6. /\ x \in T /\ Tail(k.queue) \in Seq(T) /\ Q = {x} \cup Range(Tail(k.queue))
        /\ NoRepeat(Tail(k.queue)) /\ x \notin Range(Tail(k.queue))
    <3>1. NoRepeat(k.queue)
      BY DEF Sorted
    <3>. QED
      BY <1>2, <2>3, <3>1, HeadTailLemma
  <2>7. R \cap Q = {} /\ R \subseteq T /\ Q \subseteq T
    BY <2>3, RangeLemma DEF Sorted
  <2>8. \A y \in T : y \in next <=> <<x, y>> \in I
    OBVIOUS
  <2>9. \A y \in T : y \in freed <=> y \in next /\ k.degree[y] - 1 = 0
    BY DEF Released
  <2>10. freed \subseteq T /\ next \subseteq T /\ IsFiniteSet(freed)
    <3>1. freed \in SUBSET Topic
      OBVIOUS
    <3>. QED
      BY <3>1, GraphAssumption, FS_Subset
  <2>. HIDE DEF x, next, freed, m, R, Q
  <2>11. /\ SetToSeq(freed) \in Seq(T) /\ Range(SetToSeq(freed)) = freed
         /\ NoRepeat(SetToSeq(freed))
    <3>1. SetToSeq(freed) \in Seq(freed) /\ Range(SetToSeq(freed)) = freed /\ NoRepeat(SetToSeq(freed))
      BY <2>10, SetToSeqLemma
    <3>. QED
      BY <2>10, <3>1
  \* What comes after x waited for it, and is neither placed nor in the queue.
  <2>12. \A y \in next : k.degree[y] # 0 /\ y \notin R \cup Q
    <3>1. ASSUME NEW y \in next PROVE k.degree[y] # 0
      <4>1. x \in T \ R /\ <<x, y>> \in I /\ y \in T
        BY <2>6, <2>7, <2>8, <2>10
      <4>2. InDegree(I, T \ R, y) # 0
        BY <4>1, InDegreeLemma
      <4>. QED
        BY <2>4, <4>1, <4>2
    <3>. QED
      BY <2>5, <2>10, <3>1
  <2>13. m.result \in Seq(T) /\ Range(m.result) = R \cup {x} /\ NoRepeat(m.result)
         /\ Len(m.result) = Len(k.result) + 1
    <3>1. x \notin Range(k.result) /\ NoRepeat(k.result)
      BY <2>6, <2>7 DEF R, Sorted
    <3>2. Len(Append(k.result, x)) = Len(k.result) + 1
      BY <2>3, <2>6
    <3>. QED
      BY <2>2, <2>3, <2>6, <3>1, <3>2, AppendLemma DEF R
  <2>14. m.queue \in Seq(T) /\ Range(m.queue) = Range(Tail(k.queue)) \cup freed /\ NoRepeat(m.queue)
    <3>1. Range(Tail(k.queue)) \cap freed = {}
      BY <2>6, <2>9, <2>10, <2>12
    <3>2. /\ Tail(k.queue) \o SetToSeq(freed) \in Seq(T)
          /\ Range(Tail(k.queue) \o SetToSeq(freed)) = Range(Tail(k.queue)) \cup Range(SetToSeq(freed))
          /\ NoRepeat(Tail(k.queue) \o SetToSeq(freed))
      <4>. DEFINE p == Tail(k.queue)
                  q == SetToSeq(freed)
      <4>1. p \in Seq(T) /\ q \in Seq(T) /\ NoRepeat(p) /\ NoRepeat(q) /\ Range(p) \cap Range(q) = {}
        BY <2>6, <2>11, <3>1
      <4>. HIDE DEF p, q
      <4>2. p \o q \in Seq(T) /\ Range(p \o q) = Range(p) \cup Range(q) /\ NoRepeat(p \o q)
        BY <4>1, ConcatLemma
      <4>. QED
        BY <4>2 DEF p, q
    <3>. QED
      BY <2>2, <2>11, <3>2
  <2>15. m.degree \in [T -> Int]
         /\ \A y \in T : m.degree[y] = IF y \in next THEN k.degree[y] - 1 ELSE k.degree[y]
    BY <2>2, <2>3
  <2>16. Range(m.result) \cap Range(m.queue) = {}
    BY <2>6, <2>7, <2>9, <2>10, <2>12, <2>13, <2>14
  <2>17. ASSUME NEW y \in T PROVE m.degree[y] = InDegree(I, T \ Range(m.result), y)
    <3>1. T \ Range(m.result) = (T \ R) \ {x} /\ x \in T \ R
      BY <2>6, <2>7, <2>13
    <3>2. InDegree(I, (T \ R) \ {x}, y) = IF <<x, y>> \in I THEN InDegree(I, T \ R, y) - 1
                                          ELSE InDegree(I, T \ R, y)
      BY <3>1, InDegreeLemma
    <3>. QED
      BY <2>4, <2>8, <2>15, <3>1, <3>2
  <2>18. ASSUME NEW y \in T
         PROVE  y \in Range(m.result) \cup Range(m.queue) <=> m.degree[y] = 0
    <3>1. Range(m.result) \cup Range(m.queue) = R \cup Q \cup freed
      BY <2>6, <2>13, <2>14
    <3>2. CASE y \in next
      BY <2>9, <2>12, <2>15, <3>1, <3>2
    <3>3. CASE y \notin next
      BY <2>5, <2>9, <2>15, <3>1, <3>3
    <3>. QED
      BY <3>2, <3>3
  <2>19. ASSUME NEW j \in DOMAIN m.result, NEW y \in T, <<y, m.result[j]>> \in I
         PROVE  \E i \in 1 .. j - 1 : m.result[i] = y
    <3>1. /\ DOMAIN k.result = 1 .. Len(k.result) /\ Len(k.result) \in Nat
          /\ DOMAIN m.result = 1 .. Len(k.result) + 1 /\ m.result[Len(k.result) + 1] = x
          /\ \A i \in 1 .. Len(k.result) : m.result[i] = k.result[i]
      BY <2>2, <2>3, <2>6
    <3>2. CASE j \in DOMAIN k.result
      <4>1. PICK i \in 1 .. j - 1 : k.result[i] = y
        BY <2>19, <3>1, <3>2 DEF Sorted
      <4>2. i \in 1 .. Len(k.result)
        BY <3>1, <3>2
      <4>. QED
        BY <3>1, <4>1, <4>2
    <3>3. CASE j = Len(k.result) + 1
      <4>1. k.degree[x] = 0
        BY <2>5, <2>6
      <4>2. InDegree(I, T \ R, x) = 0
        BY <2>4, <2>6, <4>1
      <4>3. y \in R
        BY <2>19, <3>1, <3>3, <4>2, InDegreeLemma
      <4>4. PICK i \in 1 .. Len(k.result) : k.result[i] = y
        BY <3>1, <4>3 DEF R, Range
      <4>. QED
        BY <3>1, <3>3, <4>4
    <3>. QED
      BY <3>1, <3>2, <3>3
  <2>20. Len(m.result) = n + 1
    BY <1>2, <2>13 DEF Sorted
  <2>21. m \in KahnType(T)
    BY <2>2, <2>13, <2>14, <2>15 DEF KahnType
  <2>. QED
    BY <2>13, <2>14, <2>16, <2>17, <2>18, <2>19, <2>20, <2>21 DEF Sorted, m
<1>. QED
  BY <1>1, <1>2

LEMMA KahnTyped ==
  ASSUME NEW I \in SUBSET Edge, NEW T \in SUBSET Topic, NEW k \in KahnType(T)
  PROVE  KahnStep(I, T, k) \in KahnType(T)
<1>1. CASE k.queue = <<>>
  BY <1>1 DEF KahnStep
<1>2. CASE k.queue # <<>>
  <2>. DEFINE x == Head(k.queue)
              next == {y \in T : <<x, y>> \in I}
              freed == {y \in next : Released(k.degree, y)}
  <2>1. KahnStep(I, T, k)
        = [degree |-> [y \in T |-> IF y \in next THEN k.degree[y] - 1 ELSE k.degree[y]],
           result |-> Append(k.result, x), queue |-> Tail(k.queue) \o SetToSeq(freed)]
    BY <1>2 DEF KahnStep
  <2>2. k.degree \in [T -> Int] /\ k.result \in Seq(T) /\ k.queue \in Seq(T)
    BY DEF KahnType
  <2>3. x \in T /\ Tail(k.queue) \in Seq(T)
    BY <1>2, <2>2, HeadTailLemma
  <2>4. SetToSeq(freed) \in Seq(T)
    <3>1. freed \in SUBSET Topic /\ freed \subseteq T
      OBVIOUS
    <3>. HIDE DEF freed
    <3>2. SetToSeq(freed) \in Seq(freed)
      BY <3>1, GraphAssumption, FS_Subset, SetToSeqLemma
    <3>. QED
      BY <3>1, <3>2
  <2>. HIDE DEF x, freed, next
  <2>5. [y \in T |-> IF y \in next THEN k.degree[y] - 1 ELSE k.degree[y]] \in [T -> Int]
    BY <2>2
  <2>6. Append(k.result, x) \in Seq(T) /\ Tail(k.queue) \o SetToSeq(freed) \in Seq(T)
    BY <2>2, <2>3, <2>4, AppendLemma, ConcatLemma
  <2>. QED
    BY <2>1, <2>5, <2>6 DEF KahnType
<1>. QED
  BY <1>1, <1>2

\* The result has each of T at most once, after all it needs; what it leaves
\* out waits for something that it leaves out.
LEMMA KahnLemma ==
  ASSUME NEW E \in SUBSET Edge, NEW T \in SUBSET Topic
  PROVE  LET chain == Kahn(E, T)
         IN  /\ chain \in Seq(T) /\ NoRepeat(chain)
             /\ \A x \in T \ Range(chain) : \E y \in T \ Range(chain) : <<y, x>> \in E
             /\ \A j \in DOMAIN chain : \A y \in T :
                   <<y, chain[j]>> \in E => \E i \in 1 .. j - 1 : chain[i] = y
<1>. DEFINE I == Inner(E, T)
            X == KahnType(T)
            N == Cardinality(T)
            step == [n \in 1 .. N |-> [k \in X |-> KahnStep(I, T, k)]]
            chain == Kahn(E, T)
<1>1. I \in SUBSET Edge /\ \A x, y \in T : <<x, y>> \in I <=> <<x, y>> \in E
  BY DEF Inner, Edge
<1>2. N \in Nat /\ IsFiniteSet(T)
  BY GraphAssumption, FS_Subset, FS_CardinalityType
<1>3. Sorted(I, T, KahnStart(I, T), 0)
  <2>. HIDE DEF I
  <2>. QED
    BY <1>1, KahnStarts
<1>4. KahnStart(I, T) \in X
  BY <1>3 DEF Sorted
<1>5. step \in [1 .. N -> [X -> X]]
  <2>. HIDE DEF I, N
  <2>1. \A k \in KahnType(T) : KahnStep(I, T, k) \in KahnType(T)
    BY <1>1, KahnTyped
  <2>. QED
    BY <2>1
<1>. HIDE DEF step
<1>6. \E g : KahnAt(I, T, g)
  <2>1. PICK g \in [0 .. N -> X] : Recurs(g, N, KahnStart(I, T), step)
    <3>. HIDE DEF X, I, N
    <3>. QED
      BY <1>2, <1>4, <1>5, Recursion
  <2>2. ASSUME NEW n \in 0 .. N
        PROVE  g[n] = IF n = 0 THEN KahnStart(I, T) ELSE KahnStep(I, T, g[n - 1])
    <3>. HIDE DEF X, I, N
    <3>1. n # 0 => n \in 1 .. N /\ n - 1 \in 0 .. N
      BY <1>2
    <3>2. n # 0 => g[n - 1] \in X
      BY <3>1
    <3>. QED
      BY <2>1, <3>1, <3>2 DEF Recurs, step
  <2>3. KahnAt(I, T, g)
    BY <2>2 DEF KahnAt
  <2>. QED
    BY <2>3
<1>. DEFINE kahn == CHOOSE g : KahnAt(I, T, g)
<1>7. chain = kahn[N].result
  BY DEF Kahn, KahnAt, KahnStart, KahnStep, Inner
<1>8. KahnAt(I, T, kahn)
  BY <1>6
<1>. HIDE DEF kahn, I, X, chain
<1>9. /\ kahn[0] = KahnStart(I, T)
      /\ \A n \in 1 .. N : kahn[n] = KahnStep(I, T, kahn[n - 1])
  <2>. HIDE DEF N
  <2>1. \A n \in 0 .. Cardinality(T) :
           kahn[n] = IF n = 0 THEN KahnStart(I, T) ELSE KahnStep(I, T, kahn[n - 1])
    BY <1>8 DEF KahnAt
  <2>2. 0 \in 0 .. N /\ \A n \in 1 .. N : n \in 0 .. N /\ n # 0
    BY <1>2
  <2>. QED
    BY <2>1, <2>2 DEF N
<1>. HIDE DEF N
<1>. DEFINE P == {n \in 0 .. N : Sorted(I, T, kahn[n], n)}
<1>10. 0 \in P
  BY <1>2, <1>3, <1>9
<1>11. ASSUME NEW n \in 1 .. N, n - 1 \in P PROVE n \in P
  <2>1. n - 1 \in Nat /\ (n - 1) + 1 = n /\ n \in 0 .. N
    BY <1>2
  <2>2. Sorted(I, T, KahnStep(I, T, kahn[n - 1]), (n - 1) + 1)
    BY <1>1, <1>11, <2>1, KahnKeeps
  <2>. QED
    BY <1>9, <2>1, <2>2
<1>12. Sorted(I, T, kahn[N], N)
  <2>. HIDE DEF P
  <2>1. N \in P
    <3>1. N \in 0 .. N
      BY <1>2
    <3>. QED
      BY <1>2, <1>10, <1>11, <3>1, UpTo
  <2>. QED
    BY <2>1 DEF P
<1>13. PICK k : k = kahn[N] /\ Sorted(I, T, k, N) /\ chain = k.result
  BY <1>7, <1>12
<1>14. chain \in Seq(T) /\ NoRepeat(chain) /\ k.queue \in Seq(T)
  BY <1>13 DEF Sorted, KahnType
<1>15. k.queue = <<>>
  <2>1. CASE Len(chain) = N
    <3>1. Range(chain) = T
      <4>1. Cardinality(Range(chain)) = Cardinality(T)
        BY <1>14, <2>1, LengthIsCount DEF N
      <4>2. Range(chain) \in SUBSET T
        BY <1>14 DEF Range
      <4>. QED
        BY <1>2, <4>1, <4>2, FS_Subset
    <3>2. Range(k.queue) \subseteq T /\ Range(k.queue) \cap T = {}
      BY <1>13, <1>14, <3>1, RangeLemma DEF Sorted
    <3>. QED
      BY <1>14, <3>2, RangeLemma
  <2>. QED
    BY <1>13, <2>1 DEF Sorted
<1>16. ASSUME NEW x \in T \ Range(chain)
       PROVE  \E y \in T \ Range(chain) : <<y, x>> \in E
  <2>1. Range(k.queue) = {}
    BY <1>15 DEF Range
  <2>2. k.degree[x] # 0
    BY <1>13, <2>1 DEF Sorted
  <2>3. InDegree(I, T \ Range(chain), x) # 0
    BY <1>13, <2>2 DEF Sorted
  <2>4. PICK y \in T \ Range(chain) : <<y, x>> \in I
    BY <1>1, <2>3, InDegreeLemma
  <2>. QED
    BY <1>1, <2>4
<1>17. ASSUME NEW j \in DOMAIN chain, NEW y \in T, <<y, chain[j]>> \in E
       PROVE  \E i \in 1 .. j - 1 : chain[i] = y
  <2>1. chain[j] \in T
    BY <1>14
  <2>2. <<y, chain[j]>> \in I
    BY <1>1, <1>17, <2>1
  <2>. QED
    BY <1>13, <2>2 DEF Sorted
<1>. QED
  BY <1>14, <1>16, <1>17 DEF chain

\* What a chain keeps: all but the topics on a cycle or after one.
KeptOf(E, all) == {x \in all : \A S \in SUBSET all : Stuck(E, S) => x \notin S}

LEMMA ChainLemma ==
  ASSUME NEW E \in SUBSET Edge, NEW T \in SUBSET Topic
  PROVE  LET chain == Kahn(E, T)
         IN  /\ chain \in Seq(T) /\ Range(chain) = KeptOf(E, T)
             /\ Len(chain) = Cardinality(KeptOf(E, T))
             /\ \A i, j \in DOMAIN chain : <<chain[i], chain[j]>> \in E => i < j
<1>. DEFINE chain == Kahn(E, T)
<1>1. /\ chain \in Seq(T) /\ NoRepeat(chain)
      /\ \A x \in T \ Range(chain) : \E y \in T \ Range(chain) : <<y, x>> \in E
      /\ \A j \in DOMAIN chain : \A y \in T :
            <<y, chain[j]>> \in E => \E i \in 1 .. j - 1 : chain[i] = y
  BY KahnLemma
<1>. HIDE DEF chain
<1>2. DOMAIN chain = 1 .. Len(chain) /\ Len(chain) \in Nat /\ Range(chain) \subseteq T
  BY <1>1, RangeLemma
<1>3. ASSUME NEW x \in Range(chain), NEW S \in SUBSET T, Stuck(E, S), x \in S
      PROVE  FALSE
  <2>. DEFINE J == {j \in DOMAIN chain : chain[j] \in S}
  <2>1. J # {} /\ J \in SUBSET Nat
    BY <1>2, <1>3 DEF Range
  <2>2. PICK j \in J : \A i \in J : j <= i
    <3>. HIDE DEF J
    <3>. QED
      BY <2>1, LeastOfSet
  <2>3. PICK y \in S : <<y, chain[j]>> \in E
    BY <1>3 DEF Stuck
  <2>4. PICK i \in 1 .. j - 1 : chain[i] = y
    BY <1>1, <2>3
  <2>5. i \in J /\ i < j
    BY <1>2, <2>3, <2>4
  <2>. QED
    BY <1>2, <2>2, <2>5
<1>4. ASSUME NEW x \in KeptOf(E, T), x \notin Range(chain)
      PROVE  FALSE
  <2>1. Stuck(E, T \ Range(chain))
    BY <1>1, <1>4 DEF Stuck, KeptOf
  <2>. QED
    BY <1>4, <2>1 DEF KeptOf
<1>5. Range(chain) = KeptOf(E, T)
  <2>1. Range(chain) \subseteq KeptOf(E, T)
    BY <1>2, <1>3 DEF KeptOf
  <2>. QED
    BY <1>4, <2>1
<1>6. Len(chain) = Cardinality(KeptOf(E, T))
  BY <1>1, <1>5, LengthIsCount
<1>7. ASSUME NEW i \in DOMAIN chain, NEW j \in DOMAIN chain, <<chain[i], chain[j]>> \in E
      PROVE  i < j
  <2>1. chain[i] \in T
    BY <1>1
  <2>2. PICK h \in 1 .. j - 1 : chain[h] = chain[i]
    BY <1>1, <1>7, <2>1
  <2>3. h = i
    BY <1>1, <1>2, <2>2 DEF NoRepeat
  <2>. QED
    BY <1>2, <2>2, <2>3
<1>. QED
  BY <1>1, <1>5, <1>6, <1>7 DEF chain

LEMMA PrerequisitesAreTopics ==
  ASSUME NEW E \in SUBSET Edge, NEW t \in Topic
  PROVE  Prerequisites(E, t) \in SUBSET Topic
BY WalkIsClosed DEF Prerequisites

LEMMA ChainsAreComplete == edges \in SUBSET Edge => ChainIsComplete
<1>. SUFFICES ASSUME edges \in SUBSET Edge, NEW t \in Topic
              PROVE  LET all == Prerequisites(edges, t)
                         chain == Chain(edges, t)
                         kept == KeptOf(edges, all)
                     IN /\ {chain[i] : i \in DOMAIN chain} = kept
                        /\ Len(chain) = Cardinality(kept)
                        /\ \A i, j \in DOMAIN chain : <<chain[i], chain[j]>> \in edges => i < j
  BY Zenon DEF ChainIsComplete, KeptOf
<1>. DEFINE all == Prerequisites(edges, t)
            chain == Chain(edges, t)
<1>1. all \in SUBSET Topic
  BY PrerequisitesAreTopics
<1>2. chain = Kahn(edges, all)
  BY DEF Chain
<1>. HIDE DEF all, chain
<1>3. /\ Range(chain) = KeptOf(edges, all) /\ Len(chain) = Cardinality(KeptOf(edges, all))
      /\ \A i, j \in DOMAIN chain : <<chain[i], chain[j]>> \in edges => i < j
  BY <1>1, <1>2, ChainLemma
<1>. QED
  BY <1>3 DEF Range, all, chain

LEMMA ReadyAreReady == edges \in SUBSET Edge => ReadyIsReady
<1>. SUFFICES ASSUME edges \in SUBSET Edge, Acyclic(edges), NEW t \in Topic, NEW done \in SUBSET Topic
              PROVE  Ready(edges, done, t) <=> Prerequisites(edges, t) \subseteq done
  BY DEF ReadyIsReady
<1>. DEFINE all == Prerequisites(edges, t)
<1>1. all \in SUBSET Topic
  BY PrerequisitesAreTopics
<1>2. KeptOf(edges, all) = all
  <2>1. \A S \in SUBSET all : ~ Stuck(edges, S)
    BY <1>1 DEF Acyclic
  <2>. QED
    BY <2>1 DEF KeptOf
<1>. HIDE DEF all
<1>3. Range(Kahn(edges, all)) = all
  BY <1>1, <1>2, ChainLemma
<1>4. Chain(edges, t) = Kahn(edges, all)
  BY DEF Chain, all
<1>5. ToSet(Chain(edges, t)) = all
  BY <1>3, <1>4 DEF ToSet, Range
<1>. QED
  BY <1>5 DEF Ready, Missing, all

-----------------------------------------------------------------------------
(***************************************************************************)
(* get_learning_path.                                                      *)
(***************************************************************************)

Reached(E, a) == Within(E, a, Cardinality(Topic))

\* d is how many edges away from a each topic is that is reached from it.
Distances(E, a, d) ==
    /\ d \in [Reached(E, a) -> 0 .. Cardinality(Topic)] /\ a \in Reached(E, a)
    /\ \A x \in Reached(E, a), j \in Nat : x \in Within(E, a, j) => d[x] <= j
    /\ \A x \in Reached(E, a) : d[x] = 0 <=> x = a
    /\ \A x \in Reached(E, a), y \in Topic :
          <<x, y>> \in E => y \in Reached(E, a) /\ d[y] <= d[x] + 1
    /\ \A x \in Reached(E, a) \ {a} : \E z \in Reached(E, a) : <<z, x>> \in E /\ d[x] = d[z] + 1

LEMMA BeyondLemma ==
  ASSUME NEW E \in SUBSET Edge, NEW S
  PROVE  \A y : y \in Beyond(E, S) <=> \E x \in S : <<x, y>> \in E
<1>1. \A e \in E : e = <<e[1], e[2]>>
  BY DEF Edge
<1>. QED
  BY <1>1 DEF Beyond

LEMMA DistancesExist ==
  ASSUME NEW E \in SUBSET Edge, NEW a \in Topic
  PROVE  \E d : Distances(E, a, d)
<1>. DEFINE N == Cardinality(Topic)
            R == Reached(E, a)
            When(x) == {k \in Nat : x \in Within(E, a, k)}
            Least(x) == CHOOSE k \in When(x) : \A j \in When(x) : k <= j
            d == [x \in R |-> Least(x)]
<1>1. N \in Nat
  BY GraphAssumption, FS_CardinalityType
<1>2. R \subseteq Topic /\ a \in R /\ Beyond(E, R) \subseteq R /\ R = Within(E, a, N)
  BY WithinIsClosed DEF Reached
<1>. HIDE DEF R, N
<1>3. ASSUME NEW x \in R
      PROVE  /\ d[x] \in 0 .. N /\ x \in Within(E, a, d[x])
             /\ \A j \in Nat : x \in Within(E, a, j) => d[x] <= j
  <2>1. N \in When(x) /\ When(x) \in SUBSET Nat
    BY <1>1, <1>2
  <2>2. \E k \in When(x) : \A j \in When(x) : k <= j
    <3>. HIDE DEF When
    <3>. QED
      BY <2>1, LeastOfSet
  <2>3. Least(x) \in When(x) /\ \A j \in When(x) : Least(x) <= j
    BY <2>2
  <2>4. d[x] = Least(x)
    OBVIOUS
  <2>. HIDE DEF Least, d
  <2>. QED
    BY <1>1, <2>1, <2>3, <2>4
<1>4. d \in [R -> 0 .. N]
  <2>1. \A x \in R : d[x] \in 0 .. N
    BY <1>3
  <2>. HIDE DEF Least
  <2>. QED
    BY <2>1
<1>. HIDE DEF d
<1>5. \A n \in Nat : Within(E, a, n + 1) = Within(E, a, n) \cup Beyond(E, Within(E, a, n))
  BY WithinSteps
<1>6. ASSUME NEW x \in R PROVE d[x] = 0 <=> x = a
  <2>1. Within(E, a, 0) = {a}
    BY WithinSteps
  <2>2. d[x] \in Nat
    BY <1>1, <1>3
  <2>. QED
    BY <1>3, <2>1, <2>2
<1>7. ASSUME NEW x \in R, NEW y \in Topic, <<x, y>> \in E
      PROVE  y \in R /\ d[y] <= d[x] + 1
  <2>1. y \in R
    BY <1>2, <1>7, BeyondLemma
  <2>2. d[x] \in Nat /\ d[x] + 1 \in Nat
    BY <1>1, <1>3
  <2>3. y \in Beyond(E, Within(E, a, d[x]))
    BY <1>3, <1>7, BeyondLemma
  <2>4. y \in Within(E, a, d[x] + 1)
    BY <1>5, <2>2, <2>3
  <2>. QED
    BY <1>3, <2>1, <2>2, <2>4
<1>8. ASSUME NEW x \in R \ {a}
      PROVE  \E z \in R : <<z, x>> \in E /\ d[x] = d[z] + 1
  <2>1. d[x] \in 0 .. N /\ d[x] # 0
    BY <1>3, <1>6
  <2>2. PICK m \in Nat : m + 1 = d[x] /\ m \in 0 .. N
    <3>1. d[x] - 1 \in Nat /\ (d[x] - 1) + 1 = d[x] /\ d[x] - 1 \in 0 .. N
      BY <1>1, <2>1
    <3>. QED
      BY <3>1
  <2>3. x \in Within(E, a, m + 1) /\ x \notin Within(E, a, m)
    <3>1. x \in Within(E, a, m + 1)
      BY <1>3, <2>2
    <3>2. x \in Within(E, a, m) => d[x] <= m
      BY <1>3
    <3>. QED
      BY <2>1, <2>2, <3>1, <3>2
  <2>4. x \in Beyond(E, Within(E, a, m))
    BY <1>5, <2>2, <2>3
  <2>5. PICK z \in Within(E, a, m) : <<z, x>> \in E
    BY <2>4, BeyondLemma
  <2>6. z \in R
    <3>1. \A k \in 0 .. N : Within(E, a, k) \subseteq Within(E, a, N)
      BY <1>1, WithinGrows
    <3>. QED
      BY <1>2, <2>2, <2>5, <3>1
  <2>7. d[z] <= m /\ d[z] \in Nat
    BY <1>1, <1>3, <2>5, <2>6
  <2>8. d[x] <= d[z] + 1
    BY <1>2, <1>7, <2>5, <2>6
  <2>. QED
    BY <2>1, <2>2, <2>5, <2>6, <2>7, <2>8
<1>9. Distances(E, a, d)
  BY <1>2, <1>3, <1>4, <1>6, <1>7, <1>8 DEF Distances, R, N
<1>. QED
  BY <1>9

-----------------------------------------------------------------------------
BfsStart(a) == [queue |-> <<a>>, parent |-> [x \in {a} |-> a]]

BfsStep(E, b, k) ==
    LET x == Head(k.queue)
        new == Fresh(E, k.parent, x)
    IN  IF k.queue = <<>> \/ x = b THEN k
        ELSE [queue |-> Tail(k.queue) \o SetToSeq(new),
              parent |-> [y \in new \cup DOMAIN k.parent |->
                            IF y \in new THEN x ELSE k.parent[y]]]

BfsAt(E, a, b, g) ==
    g = [n \in 0 .. Cardinality(Topic) |-> IF n = 0 THEN BfsStart(a) ELSE BfsStep(E, b, g[n - 1])]

BfsType == [queue : Seq(Topic), parent : UNION {[D -> Topic] : D \in SUBSET Topic}]

\* What the search has left behind.
Done(k) == DOMAIN k.parent \ Range(k.queue)

\* A round takes x from the queue and meets the topics new.
Advanced(E, k, m, x, new) ==
    /\ m \in BfsType /\ x \in Topic /\ IsFiniteSet(new)
    /\ \A y \in Topic : y \in new <=> <<x, y>> \in E /\ y \notin DOMAIN k.parent
    /\ new \subseteq Topic
    /\ m.queue = Tail(k.queue) \o SetToSeq(new)
    /\ DOMAIN m.parent = DOMAIN k.parent \cup new
    /\ \A y \in new : m.parent[y] = x
    /\ \A y \in DOMAIN k.parent : m.parent[y] = k.parent[y]

LEMMA BfsStepLemma ==
  ASSUME NEW E \in SUBSET Edge, NEW b, NEW k \in BfsType, k.queue # <<>>, Head(k.queue) # b
  PROVE  Advanced(E, k, BfsStep(E, b, k), Head(k.queue), Fresh(E, k.parent, Head(k.queue)))
<1>. DEFINE x == Head(k.queue)
            new == Fresh(E, k.parent, x)
            m == BfsStep(E, b, k)
            p == [y \in new \cup DOMAIN k.parent |-> IF y \in new THEN x ELSE k.parent[y]]
<1>1. m = [queue |-> Tail(k.queue) \o SetToSeq(new), parent |-> p]
  BY DEF BfsStep
<1>2. k.queue \in Seq(Topic) /\ k.parent \in UNION {[D -> Topic] : D \in SUBSET Topic}
  BY DEF BfsType
<1>3. PICK D \in SUBSET Topic : k.parent \in [D -> Topic]
  BY <1>2
<1>4. x \in Topic /\ Tail(k.queue) \in Seq(Topic)
  BY <1>2, HeadTailLemma
<1>5. \A y \in Topic : y \in new <=> <<x, y>> \in E /\ y \notin DOMAIN k.parent
  BY DEF Fresh
<1>6. new \in SUBSET Topic
  BY DEF Fresh
<1>. HIDE DEF x, new, m
<1>7. p = [y \in new \cup DOMAIN k.parent |-> IF y \in new THEN x ELSE k.parent[y]]
  OBVIOUS
<1>. HIDE DEF p
<1>8. new \cap DOMAIN k.parent = {} /\ DOMAIN k.parent = D
  BY <1>3, <1>5, <1>6
<1>9. /\ DOMAIN p = DOMAIN k.parent \cup new /\ \A y \in new : p[y] = x
      /\ \A y \in DOMAIN k.parent : p[y] = k.parent[y]
  BY <1>7, <1>8
<1>10. p \in [D \cup new -> Topic]
  BY <1>3, <1>4, <1>6, <1>7, <1>8
<1>11. p \in UNION {[C -> Topic] : C \in SUBSET Topic}
  <2>1. D \cup new \in SUBSET Topic
    BY <1>6
  <2>. QED
    BY <1>10, <2>1
<1>12. IsFiniteSet(new) /\ SetToSeq(new) \in Seq(Topic)
  <2>1. IsFiniteSet(new)
    BY <1>6, GraphAssumption, FS_Subset
  <2>2. SetToSeq(new) \in Seq(new)
    BY <2>1, SetToSeqLemma
  <2>. QED
    BY <1>6, <2>1, <2>2
<1>13. Tail(k.queue) \o SetToSeq(new) \in Seq(Topic)
  BY <1>4, <1>12, ConcatLemma
<1>14. m.queue = Tail(k.queue) \o SetToSeq(new) /\ m.parent = p
  BY <1>1
<1>15. m \in BfsType
  BY <1>1, <1>11, <1>13 DEF BfsType
<1>. QED
  BY <1>4, <1>5, <1>6, <1>9, <1>12, <1>14, <1>15 DEF Advanced, x, new, m

\* The search goes by distance: its queue is in the order of distance, and of
\* two distances that follow one another; what is as near as the head has been
\* met, and what follows one that the search has left behind; each parent is
\* one edge nearer.
Searching(E, a, b, d, k, n) ==
    /\ k \in BfsType
    /\ a \in DOMAIN k.parent /\ DOMAIN k.parent \subseteq Reached(E, a)
    /\ \A x \in DOMAIN k.parent \ {a} :
          /\ k.parent[x] \in DOMAIN k.parent /\ <<k.parent[x], x>> \in E
          /\ d[x] = d[k.parent[x]] + 1
    /\ NoRepeat(k.queue) /\ Range(k.queue) \subseteq DOMAIN k.parent
    /\ \A i, j \in DOMAIN k.queue : i <= j => d[k.queue[i]] <= d[k.queue[j]]
    /\ \A y \in Range(k.queue) : d[y] <= d[Head(k.queue)] + 1
    /\ k.queue # <<>> => \A y \in Reached(E, a) : d[y] <= d[Head(k.queue)] => y \in DOMAIN k.parent
    /\ \A x \in Done(k), y \in Topic : <<x, y>> \in E => y \in DOMAIN k.parent
    /\ Cardinality(Done(k)) = n \/ k.queue = <<>> \/ Head(k.queue) = b

LEMMA BfsStarts ==
  ASSUME NEW E \in SUBSET Edge, NEW a \in Topic, NEW b, NEW d, Distances(E, a, d)
  PROVE  Searching(E, a, b, d, BfsStart(a), 0)
<1>. DEFINE k == BfsStart(a)
<1>1. k.queue = <<a>> /\ k.parent = [x \in {a} |-> a] /\ k = [queue |-> <<a>>, parent |-> [x \in {a} |-> a]]
  BY DEF BfsStart
<1>2. k \in BfsType
  <2>1. [x \in {a} |-> a] \in UNION {[D -> Topic] : D \in SUBSET Topic}
    <3>1. {a} \in SUBSET Topic /\ [x \in {a} |-> a] \in [{a} -> Topic]
      OBVIOUS
    <3>. QED
      BY <3>1
  <2>. QED
    BY <1>1, <2>1 DEF BfsType
<1>. HIDE DEF k
<1>3. DOMAIN k.parent = {a} /\ k.parent[a] = a
  BY <1>1
<1>4. DOMAIN k.queue = {1} /\ k.queue[1] = a /\ Head(k.queue) = a /\ Range(k.queue) = {a}
  BY <1>1 DEF Range
<1>5. a \in Reached(E, a) /\ d[a] = 0 /\ d \in [Reached(E, a) -> 0 .. Cardinality(Topic)]
      /\ \A x \in Reached(E, a) : d[x] = 0 <=> x = a
  BY DEF Distances
<1>6. Done(k) = {} /\ Cardinality({}) = 0
  BY <1>3, <1>4, FS_EmptySet DEF Done
<1>7. NoRepeat(k.queue)
  BY <1>4 DEF NoRepeat
<1>8. Cardinality(Topic) \in Nat
  BY GraphAssumption, FS_CardinalityType
<1>9. \A y \in Reached(E, a) : d[y] <= 0 => y = a
  BY <1>5, <1>8
<1>. QED
  BY <1>2, <1>3, <1>4, <1>5, <1>6, <1>7, <1>9 DEF Searching, k

LEMMA BfsKeeps ==
  ASSUME NEW E \in SUBSET Edge, NEW a \in Topic, NEW b, NEW d, Distances(E, a, d),
         NEW n \in Nat, NEW k, Searching(E, a, b, d, k, n)
  PROVE  Searching(E, a, b, d, BfsStep(E, b, k), n + 1)
<1>1. CASE k.queue = <<>> \/ Head(k.queue) = b
  BY <1>1 DEF BfsStep, Searching
<1>2. CASE k.queue # <<>> /\ Head(k.queue) # b
  <2>. DEFINE x == Head(k.queue)
              new == Fresh(E, k.parent, x)
              m == BfsStep(E, b, k)
              D == DOMAIN k.parent
              C == DOMAIN m.parent
              R == Reached(E, a)
              t == Tail(k.queue)
              s == SetToSeq(new)
  <2>1. k \in BfsType /\ k.queue \in Seq(Topic)
    BY DEF Searching, BfsType
  <2>2. /\ m \in BfsType /\ x \in Topic /\ IsFiniteSet(new)
        /\ \A y \in Topic : y \in new <=> <<x, y>> \in E /\ y \notin D
        /\ new \subseteq Topic
        /\ m.queue = t \o s /\ C = D \cup new
        /\ \A y \in new : m.parent[y] = x
        /\ \A y \in D : m.parent[y] = k.parent[y]
    <3>1. k.queue # <<>> /\ Head(k.queue) # b
      BY <1>2
    <3>2. Advanced(E, k, m, x, new)
      BY <2>1, <3>1, BfsStepLemma
    <3>. HIDE DEF m, x, new
    <3>. QED
      BY <3>2 DEF Advanced
  <2>3. /\ t \in Seq(Topic) /\ Range(k.queue) = {x} \cup Range(t)
        /\ NoRepeat(t) /\ x \notin Range(t)
    <3>1. NoRepeat(k.queue)
      BY DEF Searching
    <3>. QED
      BY <1>2, <2>1, <3>1, HeadTailLemma
  <2>4. /\ s \in Seq(Topic) /\ Range(s) = new /\ NoRepeat(s)
    <3>. HIDE DEF new
    <3>1. s \in Seq(new) /\ Range(s) = new /\ NoRepeat(s)
      BY <2>2, SetToSeqLemma
    <3>. QED
      BY <2>2, <3>1
  <2>5. /\ a \in D /\ D \subseteq R /\ Range(k.queue) \subseteq D
        /\ \A y \in Range(k.queue) : d[y] <= d[x] + 1
        /\ \A y \in R : d[y] <= d[x] => y \in D
        /\ \A z \in Done(k), y \in Topic : <<z, y>> \in E => y \in D
    BY <1>2 DEF Searching
  <2>6. /\ d \in [R -> 0 .. Cardinality(Topic)] /\ R \subseteq Topic
        /\ \A z \in R, y \in Topic : <<z, y>> \in E => y \in R /\ d[y] <= d[z] + 1
        /\ \A z \in R \ {a} : \E y \in R : <<y, z>> \in E /\ d[z] = d[y] + 1
    <3>1. R \subseteq Topic
      BY WithinIsClosed DEF Reached
    <3>. QED
      BY <3>1 DEF Distances
  <2>7. \A y \in R : d[y] \in Nat
    <3>1. Cardinality(Topic) \in Nat
      BY GraphAssumption, FS_CardinalityType
    <3>. QED
      BY <2>6, <3>1
  <2>8. /\ DOMAIN k.queue = 1 .. Len(k.queue) /\ Len(k.queue) \in Nat \ {0} /\ x = k.queue[1]
        /\ DOMAIN t = 1 .. Len(k.queue) - 1 /\ \A i \in DOMAIN t : t[i] = k.queue[i + 1]
        /\ DOMAIN s = 1 .. Len(s) /\ Len(s) \in Nat
        /\ Len(t) = Len(k.queue) - 1 /\ Len(t) \in Nat
    BY <1>2, <2>1, <2>4
  <2>9. \A i, j \in DOMAIN k.queue : i <= j => d[k.queue[i]] <= d[k.queue[j]]
    BY DEF Searching
  <2>. HIDE DEF x, new, m, D, C, R, t, s
  <2>10. x \in D /\ x \in R
    BY <2>3, <2>5
  <2>11. \A y \in new : y \in R /\ y \notin D /\ d[y] = d[x] + 1
    <3>1. SUFFICES ASSUME NEW y \in new PROVE y \in R /\ y \notin D /\ d[y] = d[x] + 1
      OBVIOUS
    <3>2. y \in Topic /\ <<x, y>> \in E /\ y \notin D
      BY <2>2
    <3>3. y \in R /\ d[y] <= d[x] + 1
      BY <2>6, <2>10, <3>2
    <3>4. ~ (d[y] <= d[x])
      BY <2>5, <3>2, <3>3
    <3>5. d[y] \in Nat /\ d[x] \in Nat
      BY <2>7, <2>10, <3>3
    <3>. QED
      BY <3>2, <3>3, <3>4, <3>5
  <2>12. Range(m.queue) = Range(t) \cup new /\ NoRepeat(m.queue)
    <3>1. Range(t) \cap Range(s) = {}
      BY <2>3, <2>4, <2>5, <2>11
    <3>2. Range(t \o s) = Range(t) \cup Range(s) /\ NoRepeat(t \o s)
      BY <2>3, <2>4, <3>1, ConcatLemma
    <3>. QED
      BY <2>2, <2>4, <3>2
  <2>13. C \subseteq R /\ a \in C /\ Range(m.queue) \subseteq C
    BY <2>2, <2>3, <2>5, <2>11, <2>12
  <2>14. ASSUME NEW y \in C \ {a}
         PROVE  m.parent[y] \in C /\ <<m.parent[y], y>> \in E /\ d[y] = d[m.parent[y]] + 1
    <3>1. CASE y \in new
      BY <2>2, <2>10, <2>11, <3>1
    <3>2. CASE y \in D
      BY <2>2, <2>14, <3>2 DEF Searching, D
    <3>. QED
      BY <2>2, <3>1, <3>2
  \* The queue: the rest of what was there, no nearer than x, and the new.
  <2>15. \A y \in Range(t) : d[x] <= d[y] /\ d[y] <= d[x] + 1
    <3>1. ASSUME NEW i \in DOMAIN t PROVE d[x] <= d[t[i]]
      <4>1. i + 1 \in DOMAIN k.queue /\ 1 \in DOMAIN k.queue /\ 1 <= i + 1
        BY <2>8
      <4>. QED
        BY <2>8, <2>9, <4>1
    <3>. QED
      BY <2>3, <2>5, <3>1 DEF Range
  <2>16. \A y \in Range(m.queue) : d[x] <= d[y] /\ d[y] <= d[x] + 1
    BY <2>7, <2>10, <2>11, <2>12, <2>15
  <2>17. /\ DOMAIN m.queue = 1 .. Len(t) + Len(s)
         /\ \A i \in DOMAIN m.queue : m.queue[i] = IF i <= Len(t) THEN t[i] ELSE s[i - Len(t)]
    BY <2>2, <2>3, <2>4
  <2>18. ASSUME NEW i \in DOMAIN m.queue, NEW j \in DOMAIN m.queue, i <= j
         PROVE  d[m.queue[i]] <= d[m.queue[j]]
    <3>0. m.queue[i] \in Range(m.queue) /\ m.queue[j] \in Range(m.queue)
      BY DEF Range
    <3>1. CASE j <= Len(t)
      <4>1. i \in DOMAIN t /\ j \in DOMAIN t /\ i + 1 \in DOMAIN k.queue /\ j + 1 \in DOMAIN k.queue
            /\ i + 1 <= j + 1 /\ i <= Len(t)
        BY <2>8, <2>17, <2>18, <3>1
      <4>2. m.queue[i] = k.queue[i + 1] /\ m.queue[j] = k.queue[j + 1]
        BY <2>8, <2>17, <3>1, <4>1
      <4>. QED
        BY <2>9, <4>1, <4>2
    <3>2. CASE ~ (j <= Len(t))
      <4>0. j \in 1 .. Len(t) + Len(s) /\ Len(t) \in Nat /\ Len(s) \in Nat
        BY <2>8, <2>17
      <4>1. j - Len(t) \in DOMAIN s /\ m.queue[j] = s[j - Len(t)]
        <5>1. j - Len(t) \in 1 .. Len(s)
          BY <3>2, <4>0
        <5>. QED
          BY <2>8, <2>17, <3>2, <5>1
      <4>2. m.queue[j] \in new
        BY <2>4, <4>1 DEF Range
      <4>3. d[m.queue[j]] = d[x] + 1
        BY <2>11, <4>2
      <4>. QED
        BY <2>16, <3>0, <4>3
    <3>. QED
      BY <3>1, <3>2
  <2>19. m.queue # <<>> => Head(m.queue) \in Range(m.queue) /\ Head(m.queue) = m.queue[1] /\ 1 \in DOMAIN m.queue
    <3>1. m.queue \in Seq(Topic)
      BY <2>2 DEF BfsType
    <3>. QED
      BY <3>1 DEF Range
  <2>20. ASSUME NEW y \in Range(m.queue) PROVE d[y] <= d[Head(m.queue)] + 1
    <3>1. m.queue # <<>>
      BY DEF Range
    <3>2. d[x] <= d[Head(m.queue)] /\ d[y] <= d[x] + 1
      BY <2>16, <2>19, <3>1
    <3>3. y \in R /\ Head(m.queue) \in R
      BY <2>13, <2>19, <3>1
    <3>. QED
      BY <2>7, <2>10, <3>2, <3>3
  <2>21. Done(m) = Done(k) \cup {x} /\ x \notin Done(k)
    BY <2>2, <2>3, <2>5, <2>11, <2>12 DEF Done, D, C
  <2>22. ASSUME NEW z \in Done(m), NEW y \in Topic, <<z, y>> \in E PROVE y \in C
    BY <2>2, <2>5, <2>21, <2>22
  <2>23. ASSUME m.queue # <<>>, NEW y \in R, d[y] <= d[Head(m.queue)] PROVE y \in C
    <3>. DEFINE h == Head(m.queue)
    <3>1. h \in R /\ d[x] <= d[h] /\ d[h] <= d[x] + 1 /\ d[h] \in Nat /\ d[x] \in Nat /\ d[y] \in Nat
      BY <2>7, <2>10, <2>13, <2>16, <2>19, <2>23
    <3>2. CASE d[y] <= d[x]
      BY <2>2, <2>5, <3>2
    <3>3. CASE ~ (d[y] <= d[x])
      <4>1. d[y] = d[x] + 1 /\ d[h] = d[x] + 1
        BY <2>23, <3>1, <3>3
      <4>2. CASE y = a
        BY <2>13, <4>2
      <4>3. CASE y # a
        <5>1. PICK z \in R : <<z, y>> \in E /\ d[y] = d[z] + 1
          BY <2>6, <4>3
        <5>2. d[z] = d[x] /\ d[z] \in Nat
          BY <2>7, <3>1, <4>1, <5>1
        <5>3. z \in D
          BY <2>5, <3>1, <5>2
        <5>4. z \notin Range(m.queue)
          <6>1. SUFFICES ASSUME z \in Range(m.queue) PROVE FALSE
            OBVIOUS
          <6>2. PICK j \in DOMAIN m.queue : m.queue[j] = z
            BY <6>1 DEF Range
          <6>3. d[m.queue[1]] <= d[z]
            BY <2>17, <2>18, <2>19, <2>23, <6>2
          <6>. QED
            BY <2>19, <2>23, <3>1, <4>1, <5>2, <6>3
        <5>5. z \in Done(m)
          BY <2>2, <5>3, <5>4 DEF Done, C
        <5>. QED
          BY <2>6, <2>22, <5>1, <5>5
      <4>. QED
        BY <4>2, <4>3
    <3>. QED
      BY <3>2, <3>3
  <2>24. Cardinality(Done(m)) = n + 1
    <3>1. Cardinality(Done(k)) = n
      BY <1>2 DEF Searching
    <3>2. IsFiniteSet(Done(k))
      <4>1. Done(k) \in SUBSET Topic
        BY <2>5, <2>6 DEF Done, D
      <4>. QED
        BY <4>1, GraphAssumption, FS_Subset
    <3>3. Cardinality(Done(k) \cup {x}) = Cardinality(Done(k)) + 1
      BY <2>21, <3>2, FS_AddElement
    <3>. QED
      BY <2>21, <3>1, <3>3
  <2>. QED
    BY <2>2, <2>12, <2>13, <2>14, <2>18, <2>20, <2>22, <2>23, <2>24 DEF Searching, C, R, m
<1>. QED
  BY <1>1, <1>2

\* The search ends with a parent for each topic that is reached, or for as
\* many as it took to meet b.
Found(E, a, b, d, parent) ==
    /\ a \in DOMAIN parent /\ DOMAIN parent \subseteq Reached(E, a)
    /\ b \in Reached(E, a) => b \in DOMAIN parent
    /\ \A x \in DOMAIN parent \ {a} :
          parent[x] \in DOMAIN parent /\ <<parent[x], x>> \in E /\ d[x] = d[parent[x]] + 1

LEMMA ParentsLemma ==
  ASSUME NEW E \in SUBSET Edge, NEW a \in Topic, NEW b, NEW d, Distances(E, a, d)
  PROVE  Found(E, a, b, d, Parents(E, a, b))
<1>. DEFINE N == Cardinality(Topic)
            step == [n \in 1 .. N |-> [k \in BfsType |-> BfsStep(E, b, k)]]
            parent == Parents(E, a, b)
<1>1. N \in Nat
  BY GraphAssumption, FS_CardinalityType
<1>2. Searching(E, a, b, d, BfsStart(a), 0)
  BY BfsStarts
<1>3. BfsStart(a) \in BfsType
  BY <1>2 DEF Searching
<1>4. step \in [1 .. N -> [BfsType -> BfsType]]
  <2>1. ASSUME NEW k \in BfsType PROVE BfsStep(E, b, k) \in BfsType
    <3>1. CASE k.queue = <<>> \/ Head(k.queue) = b
      BY <3>1 DEF BfsStep
    <3>2. CASE k.queue # <<>> /\ Head(k.queue) # b
      BY <3>2, BfsStepLemma DEF Advanced
    <3>. QED
      BY <3>1, <3>2
  <2>. HIDE DEF N
  <2>. QED
    BY <2>1
<1>. HIDE DEF step
<1>5. \E g : BfsAt(E, a, b, g)
  <2>1. PICK g \in [0 .. N -> BfsType] : Recurs(g, N, BfsStart(a), step)
    <3>. HIDE DEF N
    <3>. QED
      BY <1>1, <1>3, <1>4, Recursion
  <2>2. ASSUME NEW n \in 0 .. N
        PROVE  g[n] = IF n = 0 THEN BfsStart(a) ELSE BfsStep(E, b, g[n - 1])
    <3>. HIDE DEF N
    <3>1. n # 0 => n \in 1 .. N /\ n - 1 \in 0 .. N
      BY <1>1
    <3>2. n # 0 => g[n - 1] \in BfsType
      BY <3>1
    <3>. QED
      BY <2>1, <3>1, <3>2 DEF Recurs, step
  <2>3. BfsAt(E, a, b, g)
    BY <2>2 DEF BfsAt
  <2>. QED
    BY <2>3
<1>. DEFINE bfs == CHOOSE g : BfsAt(E, a, b, g)
<1>6. parent = bfs[N].parent
  BY DEF Parents, BfsAt, BfsStart, BfsStep
<1>7. BfsAt(E, a, b, bfs)
  BY <1>5
<1>. HIDE DEF bfs, parent
<1>8. /\ bfs[0] = BfsStart(a)
      /\ \A n \in 1 .. N : bfs[n] = BfsStep(E, b, bfs[n - 1])
  <2>. HIDE DEF N
  <2>1. \A n \in 0 .. Cardinality(Topic) :
           bfs[n] = IF n = 0 THEN BfsStart(a) ELSE BfsStep(E, b, bfs[n - 1])
    BY <1>7 DEF BfsAt
  <2>2. 0 \in 0 .. N /\ \A n \in 1 .. N : n \in 0 .. N /\ n # 0
    BY <1>1
  <2>. QED
    BY <2>1, <2>2 DEF N
<1>. HIDE DEF N
<1>. DEFINE P == {n \in 0 .. N : Searching(E, a, b, d, bfs[n], n)}
<1>9. 0 \in P
  BY <1>1, <1>2, <1>8
<1>10. ASSUME NEW n \in 1 .. N, n - 1 \in P PROVE n \in P
  <2>1. n - 1 \in Nat /\ (n - 1) + 1 = n /\ n \in 0 .. N
    BY <1>1
  <2>2. Searching(E, a, b, d, BfsStep(E, b, bfs[n - 1]), (n - 1) + 1)
    BY <1>10, <2>1, BfsKeeps
  <2>. QED
    BY <1>8, <2>1, <2>2
<1>11. Searching(E, a, b, d, bfs[N], N)
  <2>. HIDE DEF P
  <2>1. N \in P
    <3>1. N \in 0 .. N
      BY <1>1
    <3>. QED
      BY <1>1, <1>9, <1>10, <3>1, UpTo
  <2>. QED
    BY <2>1 DEF P
<1>12. PICK k : k = bfs[N] /\ Searching(E, a, b, d, k, N) /\ parent = k.parent
  BY <1>6, <1>11
<1>13. ASSUME b \in Reached(E, a) PROVE b \in DOMAIN parent
  <2>1. CASE k.queue # <<>> /\ Head(k.queue) = b
    <3>1. k.queue \in Seq(Topic)
      BY <1>12 DEF Searching, BfsType
    <3>2. Head(k.queue) \in Range(k.queue)
      BY <2>1, <3>1, HeadTailLemma
    <3>. QED
      BY <1>12, <2>1, <3>2 DEF Searching
  <2>2. CASE k.queue = <<>>
    <3>1. Done(k) = DOMAIN parent
      BY <1>12, <2>2 DEF Done, Range
    <3>2. \A x \in DOMAIN parent, y \in Topic : <<x, y>> \in E => y \in DOMAIN parent
      BY <1>12, <3>1 DEF Searching
    <3>. DEFINE Lost == {x \in Reached(E, a) : x \notin DOMAIN parent}
                Far == {d[x] : x \in Lost}
    <3>. SUFFICES ASSUME Lost # {} PROVE FALSE
      BY <1>13
    <3>3. d \in [Reached(E, a) -> 0 .. N] /\ Reached(E, a) \subseteq Topic
      BY WithinIsClosed DEF Distances, Reached, N
    <3>4. Far \in SUBSET Nat /\ Far # {}
      BY <1>1, <3>3
    <3>5. PICK i \in Far : \A j \in Far : i <= j
      <4>. HIDE DEF Far
      <4>. QED
        BY <3>4, LeastOfSet
    <3>6. PICK x \in Lost : \A y \in Lost : d[x] <= d[y]
      BY <3>5
    <3>7. x # a /\ x \in Reached(E, a)
      BY <1>12 DEF Searching
    <3>8. PICK z \in Reached(E, a) : <<z, x>> \in E /\ d[x] = d[z] + 1
      BY <3>7 DEF Distances
    <3>9. d[x] \in Nat /\ d[z] \in Nat
      BY <1>1, <3>3, <3>7
    <3>10. z \notin Lost
      BY <3>6, <3>8, <3>9
    <3>. QED
      BY <3>2, <3>3, <3>7, <3>8, <3>10
  <2>3. CASE Cardinality(Done(k)) = N
    <3>1. Done(k) \in SUBSET Topic
      <4>1. DOMAIN k.parent \subseteq Topic
        BY <1>12, WithinIsClosed DEF Searching, Reached
      <4>. QED
        BY <4>1 DEF Done
    <3>2. Done(k) = Topic
      BY <2>3, <3>1, GraphAssumption, FS_Subset DEF N
    <3>3. b \in Topic
      BY <1>13, WithinIsClosed DEF Reached
    <3>. QED
      BY <1>12, <3>2, <3>3 DEF Done
  <2>. QED
    BY <1>12, <2>1, <2>2, <2>3 DEF Searching
<1>. QED
  BY <1>12, <1>13 DEF Found, Searching, parent

-----------------------------------------------------------------------------
\* Back by the parents.
BackStep(a, parent, p) == IF p[1] = a THEN p ELSE <<parent[p[1]]>> \o p

BackAt(a, b, parent, g) ==
    g = [n \in 0 .. Cardinality(Topic) |-> IF n = 0 THEN <<b>> ELSE BackStep(a, parent, g[n - 1])]

\* A way along edges that ends at b, and has got so far back.
Way(E, a, b, d, parent, p, n) ==
    /\ p \in Seq(DOMAIN parent) /\ p # <<>> /\ p[Len(p)] = b
    /\ \A i \in 1 .. Len(p) - 1 : <<p[i], p[i + 1]>> \in E
    /\ d[p[1]] + Len(p) = d[b] + 1
    /\ p[1] = a \/ d[p[1]] + n = d[b]

LEMMA BackKeeps ==
  ASSUME NEW E, NEW a, NEW b, NEW d, NEW parent, Found(E, a, b, d, parent),
         d \in [Reached(E, a) -> Nat], b \in Reached(E, a),
         NEW n \in Nat, NEW p, Way(E, a, b, d, parent, p, n)
  PROVE  Way(E, a, b, d, parent, BackStep(a, parent, p), n + 1)
<1>1. CASE p[1] = a
  BY <1>1 DEF BackStep, Way
<1>2. CASE p[1] # a
  <2>. DEFINE z == parent[p[1]]
              q == <<z>> \o p
  <2>1. p \in Seq(DOMAIN parent) /\ Len(p) \in Nat \ {0} /\ p[1] \in DOMAIN parent \ {a}
    BY <1>2 DEF Way
  <2>2. z \in DOMAIN parent /\ <<z, p[1]>> \in E /\ d[p[1]] = d[z] + 1
    BY <2>1 DEF Found
  <2>3. BackStep(a, parent, p) = q
    BY <1>2 DEF BackStep
  <2>. HIDE DEF z
  <2>4. /\ q \in Seq(DOMAIN parent) /\ Len(q) = Len(p) + 1 /\ q # <<>> /\ q[1] = z
        /\ \A i \in 1 .. Len(p) : q[i + 1] = p[i]
    BY <2>1, <2>2
  <2>. HIDE DEF q
  <2>5. q[Len(q)] = b
    BY <2>1, <2>4 DEF Way
  <2>6. ASSUME NEW i \in 1 .. Len(q) - 1 PROVE <<q[i], q[i + 1]>> \in E
    <3>1. CASE i = 1
      <4>1. 1 \in 1 .. Len(p) /\ 1 + 1 = 2
        BY <2>1
      <4>2. q[2] = p[1] /\ q[1] = z
        BY <2>4, <4>1
      <4>. QED
        BY <2>2, <3>1, <4>1, <4>2
    <3>2. CASE i # 1
      <4>1. i - 1 \in 1 .. Len(p) /\ (i - 1) + 1 = i /\ i \in 1 .. Len(p) /\ i - 1 \in 1 .. Len(p) - 1
        BY <2>1, <2>4, <3>2
      <4>2. q[i] = p[i - 1] /\ q[i + 1] = p[i]
        BY <2>4, <4>1
      <4>3. <<p[i - 1], p[(i - 1) + 1]>> \in E
        BY <4>1 DEF Way
      <4>. QED
        BY <4>1, <4>2, <4>3
    <3>. QED
      BY <3>1, <3>2
  <2>7. d[z] \in Nat /\ d[b] \in Nat /\ d[p[1]] \in Nat
    BY <2>1, <2>2 DEF Found
  <2>8. d[q[1]] + Len(q) = d[b] + 1 /\ d[q[1]] + (n + 1) = d[b]
    <3>1. d[p[1]] + Len(p) = d[b] + 1 /\ d[p[1]] + n = d[b]
      BY <1>2 DEF Way
    <3>2. q[1] = z /\ Len(q) = Len(p) + 1 /\ d[p[1]] = d[z] + 1 /\ Len(p) \in Nat
      BY <2>1, <2>2, <2>4
    <3>3. PICK u \in Nat, v \in Nat, w \in Nat, l \in Nat :
             u = d[z] /\ v = d[b] /\ w = d[p[1]] /\ l = Len(p)
      BY <2>7, <3>2
    <3>4. w + l = v + 1 /\ w + n = v /\ w = u + 1
      BY <3>1, <3>2, <3>3
    <3>5. u + (l + 1) = v + 1 /\ u + (n + 1) = v
      BY <3>4
    <3>. QED
      BY <3>2, <3>3, <3>5
  <2>. QED
    BY <2>3, <2>4, <2>5, <2>6, <2>8 DEF Way
<1>. QED
  BY <1>1, <1>2

\* The path, as long as b is far from a.
IsPath(E, a, b, d, path) ==
    IF b \notin Reached(E, a) THEN path = <<>>
    ELSE /\ path # <<>> /\ path[1] = a /\ path[Len(path)] = b
         /\ \A i \in 1 .. Len(path) - 1 : <<path[i], path[i + 1]>> \in E
         /\ Len(path) = d[b] + 1

LEMMA PathLemma ==
  ASSUME NEW E \in SUBSET Edge, NEW a \in Topic, NEW b \in Topic, NEW d, Distances(E, a, d)
  PROVE  IsPath(E, a, b, d, LearningPath(E, a, b))
<1>. DEFINE N == Cardinality(Topic)
            parent == Parents(E, a, b)
            X == {p \in Seq(DOMAIN parent) : p # <<>>}
            step == [n \in 1 .. N |-> [p \in X |-> BackStep(a, parent, p)]]
            path == LearningPath(E, a, b)
<1>1. N \in Nat
  BY GraphAssumption, FS_CardinalityType
<1>2. Found(E, a, b, d, parent)
  BY ParentsLemma
<1>3. CASE b \notin Reached(E, a)
  <2>1. b \notin DOMAIN parent
    BY <1>2, <1>3 DEF Found
  <2>2. path = <<>>
    BY <2>1 DEF LearningPath
  <2>. QED
    BY <1>3, <2>2 DEF IsPath
<1>4. CASE b \in Reached(E, a)
  <2>. DEFINE back == CHOOSE g : BackAt(a, b, parent, g)
  <2>1. b \in DOMAIN parent
    BY <1>2, <1>4 DEF Found
  <2>2. path = back[N]
    BY <2>1 DEF LearningPath, BackAt, BackStep
  <2>. HIDE DEF parent
  <2>3. step \in [1 .. N -> [X -> X]]
    <3>1. ASSUME NEW p \in X PROVE BackStep(a, parent, p) \in X
      <4>1. p \in Seq(DOMAIN parent) /\ Len(p) \in Nat \ {0} /\ p[1] \in DOMAIN parent
        OBVIOUS
      <4>2. CASE p[1] = a
        BY <4>2 DEF BackStep
      <4>3. CASE p[1] # a
        <5>1. parent[p[1]] \in DOMAIN parent
          BY <1>2, <4>1, <4>3 DEF Found
        <5>. QED
          BY <4>1, <4>3, <5>1 DEF BackStep
      <4>. QED
        BY <4>2, <4>3
    <3>. HIDE DEF N, X
    <3>. QED
      BY <3>1
  <2>4. <<b>> \in X
    BY <2>1
  <2>. HIDE DEF step
  <2>5. \E g : BackAt(a, b, parent, g)
    <3>1. PICK g \in [0 .. N -> X] : Recurs(g, N, <<b>>, step)
      <4>. HIDE DEF N, X
      <4>. QED
        BY <1>1, <2>3, <2>4, Recursion
    <3>2. ASSUME NEW n \in 0 .. N
          PROVE  g[n] = IF n = 0 THEN <<b>> ELSE BackStep(a, parent, g[n - 1])
      <4>. HIDE DEF N, X
      <4>1. n # 0 => n \in 1 .. N /\ n - 1 \in 0 .. N
        BY <1>1
      <4>2. n # 0 => g[n - 1] \in X
        BY <4>1
      <4>. QED
        BY <3>1, <4>1, <4>2 DEF Recurs, step
    <3>3. BackAt(a, b, parent, g)
      BY <3>2 DEF BackAt
    <3>. QED
      BY <3>3
  <2>6. BackAt(a, b, parent, back)
    BY <2>5
  <2>. HIDE DEF back, path
  <2>7. back[0] = <<b>> /\ \A n \in 1 .. N : back[n] = BackStep(a, parent, back[n - 1])
    <3>. HIDE DEF N
    <3>1. \A n \in 0 .. Cardinality(Topic) :
             back[n] = IF n = 0 THEN <<b>> ELSE BackStep(a, parent, back[n - 1])
      BY <2>6 DEF BackAt
    <3>2. 0 \in 0 .. N /\ \A n \in 1 .. N : n \in 0 .. N /\ n # 0
      BY <1>1
    <3>. QED
      BY <3>1, <3>2 DEF N
  <2>8. d \in [Reached(E, a) -> Nat] /\ d[b] \in 0 .. N /\ \A x \in Reached(E, a) : d[x] = 0 <=> x = a
    BY <1>1, <1>4 DEF Distances
  <2>. HIDE DEF N
  <2>. DEFINE P == {n \in 0 .. N : Way(E, a, b, d, parent, back[n], n)}
  <2>9. 0 \in P
    <3>1. Way(E, a, b, d, parent, <<b>>, 0)
      <4>1. d[b] \in Nat
        BY <1>1, <2>8
      <4>2. <<b>> \in Seq(DOMAIN parent) /\ <<b>> # <<>> /\ Len(<<b>>) = 1 /\ <<b>>[1] = b
        BY <2>1
      <4>3. d[b] + 1 = d[b] + 1 /\ d[b] + 0 = d[b]
        BY <4>1
      <4>. QED
        BY <4>2, <4>3 DEF Way
    <3>. QED
      BY <1>1, <2>7, <3>1
  <2>10. ASSUME NEW n \in 1 .. N, n - 1 \in P PROVE n \in P
    <3>1. n - 1 \in Nat /\ (n - 1) + 1 = n /\ n \in 0 .. N
      BY <1>1
    <3>2. Way(E, a, b, d, parent, BackStep(a, parent, back[n - 1]), (n - 1) + 1)
      BY <1>2, <1>4, <2>8, <2>10, <3>1, BackKeeps
    <3>. QED
      BY <2>7, <3>1, <3>2
  <2>11. Way(E, a, b, d, parent, path, N)
    <3>. HIDE DEF P
    <3>1. N \in P
      <4>1. N \in 0 .. N
        BY <1>1
      <4>. QED
        BY <1>1, <2>9, <2>10, <4>1, UpTo
    <3>. QED
      BY <2>2, <3>1 DEF P
  <2>12. path[1] \in Reached(E, a) /\ Len(path) \in Nat
    BY <1>2, <2>11 DEF Way, Found
  <2>13. d[path[1]] \in Nat /\ d[b] \in Nat /\ d[b] <= N
    BY <1>1, <2>8, <2>12
  <2>14. path[1] = a /\ d[path[1]] = 0
    <3>1. CASE path[1] = a
      BY <2>8, <2>12, <3>1
    <3>2. CASE d[path[1]] + N = d[b]
      <4>1. d[path[1]] = 0
        BY <1>1, <2>13, <3>2
      <4>. QED
        BY <2>8, <2>12, <4>1
    <3>. QED
      BY <2>11, <3>1, <3>2 DEF Way
  <2>15. Len(path) = d[b] + 1
    <3>1. d[path[1]] + Len(path) = d[b] + 1
      BY <2>11 DEF Way
    <3>. QED
      BY <2>12, <2>13, <2>14, <3>1
  <2>16. /\ path # <<>> /\ path[Len(path)] = b
         /\ \A i \in 1 .. Len(path) - 1 : <<path[i], path[i + 1]>> \in E
    BY <2>11 DEF Way
  <2>. QED
    BY <1>4, <2>14, <2>15, <2>16 DEF IsPath, path
<1>. QED
  BY <1>3, <1>4

LEMMA PathsAreShortest == edges \in SUBSET Edge => PathIsShortest
<1>. SUFFICES ASSUME edges \in SUBSET Edge, NEW a \in Topic, NEW b \in Topic
              PROVE  LET path == LearningPath(edges, a, b)
                     IN /\ path = <<>> <=> b \notin Within(edges, a, Cardinality(Topic))
                        /\ path # <<>> =>
                              /\ path[1] = a /\ path[Len(path)] = b
                              /\ \A i \in 1 .. Len(path) - 1 : <<path[i], path[i + 1]>> \in edges
                              /\ Len(path) > 1 => b \notin Within(edges, a, Len(path) - 2)
  BY Zenon DEF PathIsShortest
<1>. DEFINE path == LearningPath(edges, a, b)
            R == Reached(edges, a)
<1>1. PICK d : Distances(edges, a, d)
  BY DistancesExist
<1>2. IF b \notin R THEN path = <<>>
      ELSE /\ path # <<>> /\ path[1] = a /\ path[Len(path)] = b
           /\ \A i \in 1 .. Len(path) - 1 : <<path[i], path[i + 1]>> \in edges
           /\ Len(path) = d[b] + 1
  <2>1. IsPath(edges, a, b, d, path)
    BY <1>1, PathLemma
  <2>. HIDE DEF path
  <2>. QED
    BY <2>1 DEF IsPath
<1>3. R = Within(edges, a, Cardinality(Topic))
  BY DEF Reached
<1>. HIDE DEF path, R
<1>4. ASSUME path # <<>>, Len(path) > 1 PROVE b \notin Within(edges, a, Len(path) - 2)
  <2>1. b \in R /\ Len(path) = d[b] + 1
    BY <1>2, <1>4
  <2>2. d[b] \in 0 .. Cardinality(Topic) /\ \A j \in Nat : b \in Within(edges, a, j) => d[b] <= j
    BY <1>1, <2>1 DEF Distances, R
  <2>3. Cardinality(Topic) \in Nat
    BY GraphAssumption, FS_CardinalityType
  <2>4. PICK m \in Nat : m = Len(path) - 2 /\ ~ (d[b] <= m)
    <3>1. Len(path) - 2 \in Nat /\ ~ (d[b] <= Len(path) - 2)
      BY <1>4, <2>1, <2>2, <2>3
    <3>. QED
      BY <3>1
  <2>. QED
    BY <2>2, <2>4
<1>. QED
  BY <1>2, <1>3, <1>4 DEF path

(***************************************************************************)
(* While requests do not overlap, the graph keeps its promises, however    *)
(* many topics and edges it has: what editors add closes no cycle, and     *)
(* whatever was seeded, the chain of a topic (get_prerequisite_chain and   *)
(* _topological_sort) has each of its prerequisites once and after its own *)
(* and leaves out none but those on a cycle or after one, readiness is     *)
(* that of all prerequisites, a path (get_learning_path) is found if there *)
(* is one and is the shortest, and a neighbourhood (get_subgraph) is whole.*)
(***************************************************************************)
THEOREM EdgesAlwaysHold ==
  ASSUME ~EdgeOverlap
  PROVE  PrerequisiteSpec => []EdgesHold
<1>1. EdgeInv => EdgesHold
  BY ChainsAreComplete, ReadyAreReady, PathsAreShortest, NeighbourhoodsAreWhole
  DEF EdgeInv, PrerequisiteTypeOK, EdgesHold
<1>. QED
  BY <1>1, EdgesStart, EdgesStep, PTL DEF PrerequisiteSpec

-----------------------------------------------------------------------------
(***************************************************************************)
(* The reader.  Its lists are built by recursions along a sequence: what   *)
(* they come to is found one step after the other.                         *)
(***************************************************************************)

-----------------------------------------------------------------------------
(***************************************************************************)
(* Sequences of sequences, put one after the other.                        *)
(***************************************************************************)

FlatAt(g, q) == g = [i \in 1 .. Len(q) |-> IF i = 1 THEN q[i] ELSE g[i - 1] \o q[i]]

LEMMA FlatExists ==
  ASSUME NEW T, NEW q \in Seq(Seq(T)), Len(q) # 0
  PROVE  \E g : FlatAt(g, q)
<1>. DEFINE n == Len(q) - 1
            step == [k \in 1 .. n |-> [x \in Seq(T) |-> x \o q[k + 1]]]
<1>1. n \in Nat /\ q[1] \in Seq(T) /\ \A i \in 1 .. Len(q) : q[i] \in Seq(T)
  OBVIOUS
<1>2. step \in [1 .. n -> [Seq(T) -> Seq(T)]]
  <2>. SUFFICES ASSUME NEW k \in 1 .. n, NEW x \in Seq(T) PROVE x \o q[k + 1] \in Seq(T)
    OBVIOUS
  <2>1. k + 1 \in 1 .. Len(q)
    BY <1>1
  <2>2. q[k + 1] \in Seq(T)
    BY <1>1, <2>1
  <2>. QED
    BY <2>2
<1>3. \A k \in 1 .. n : \A x \in Seq(T) : step[k][x] = x \o q[k + 1]
  OBVIOUS
<1>. HIDE DEF step, n
<1>4. PICK g \in [0 .. n -> Seq(T)] : Recurs(g, n, q[1], step)
  BY <1>1, <1>2, Recursion
<1>. DEFINE h == [i \in 1 .. Len(q) |-> g[i - 1]]
<1>5. ASSUME NEW i \in 1 .. Len(q)
      PROVE  h[i] = IF i = 1 THEN q[i] ELSE h[i - 1] \o q[i]
  <2>1. CASE i = 1
    BY <1>4, <2>1 DEF Recurs
  <2>2. CASE i # 1
    <3>1. i - 1 \in 1 .. n /\ i - 1 \in 1 .. Len(q) /\ (i - 1) + 1 = i /\ (i - 1) - 1 \in 0 .. n
      BY <2>2 DEF n
    <3>2. h[i] = g[i - 1] /\ h[i - 1] = g[(i - 1) - 1]
      BY <3>1
    <3>3. g[i - 1] = step[i - 1][g[(i - 1) - 1]]
      BY <1>4, <3>1 DEF Recurs
    <3>4. g[(i - 1) - 1] \in Seq(T)
      BY <3>1
    <3>5. step[i - 1][g[(i - 1) - 1]] = g[(i - 1) - 1] \o q[i]
      BY <1>3, <3>1, <3>4
    <3>. QED
      BY <2>2, <3>2, <3>3, <3>5
  <2>. QED
    BY <2>1, <2>2
<1>6. FlatAt(h, q)
  BY <1>5 DEF FlatAt
<1>. QED
  BY <1>6

Agree(g, h, n) == \A i \in 1 .. n : g[i] = h[i]

\* Two of them agree as far as their sequences do.
LEMMA FlatAgrees ==
  ASSUME NEW q, NEW p, NEW g, NEW h, Len(q) \in Nat, Len(p) \in Nat, Len(q) <= Len(p),
         Agree(q, p, Len(q)), FlatAt(g, q), FlatAt(h, p)
  PROVE  Agree(g, h, Len(q))
<1>. DEFINE P == {k \in Nat : k \in 1 .. Len(q) => g[k] = h[k]}
<1>1. 0 \in P
  OBVIOUS
<1>2. ASSUME NEW k \in 1 .. Len(q), k - 1 \in P PROVE k \in P
  <2>0. k \in 1 .. Len(p)
    OBVIOUS
  <2>1. CASE k = 1
    BY <2>0, <2>1 DEF FlatAt, Agree
  <2>2. CASE k # 1
    <3>1. k - 1 \in 1 .. Len(q)
      BY <2>2
    <3>2. g[k - 1] = h[k - 1]
      BY <1>2, <3>1
    <3>3. g[k] = g[k - 1] \o q[k]
      BY <2>2 DEF FlatAt
    <3>4. h[k] = h[k - 1] \o p[k]
      BY <2>0, <2>2 DEF FlatAt
    <3>5. q[k] = p[k]
      BY DEF Agree
    <3>6. g[k] = h[k]
      BY <3>2, <3>3, <3>4, <3>5, Zenon
    <3>. QED
      BY <3>6
  <2>. QED
    BY <2>1, <2>2
<1>. HIDE DEF P
<1>3. \A k \in 0 .. Len(q) : k \in P
  <2>1. Len(q) \in Nat
    OBVIOUS
  <2>. QED
    BY <1>1, <1>2, <2>1, UpTo
<1>. QED
  BY <1>3 DEF P, Agree

LEMMA FlattenEmpty == FlattenSeq(<<>>) = <<>>
  BY DEF FlattenSeq

LEMMA FlattenAppend ==
  ASSUME NEW T, NEW q \in Seq(Seq(T)), NEW x \in Seq(T)
  PROVE  /\ FlattenSeq(q) \in Seq(T)
         /\ FlattenSeq(Append(q, x)) = FlattenSeq(q) \o x
<1>. DEFINE p == Append(q, x)
            n == Len(q)
<1>1. p \in Seq(Seq(T)) /\ Len(p) = n + 1 /\ p[n + 1] = x /\ \A i \in 1 .. n : p[i] = q[i]
  OBVIOUS
<1>. HIDE DEF p
<1>2. PICK h : FlatAt(h, p) /\ FlattenSeq(p) = h[Len(p)]
  <2>1. \E h : FlatAt(h, p)
    BY <1>1, FlatExists
  <2>2. FlattenSeq(p) = (CHOOSE h : FlatAt(h, p))[Len(p)]
    BY <1>1 DEF FlattenSeq, FlatAt
  <2>. QED
    BY <2>1, <2>2
<1>3. CASE n = 0
  <2>1. q = <<>>
    BY <1>3
  <2>2. FlattenSeq(p) = x
    BY <1>1, <1>2, <1>3 DEF FlatAt
  <2>3. FlattenSeq(q) = <<>>
    BY <2>1, FlattenEmpty
  <2>4. <<>> \o x = x /\ <<>> \in Seq(T)
    OBVIOUS
  <2>. QED
    BY <2>2, <2>3, <2>4 DEF p
<1>4. CASE n # 0
  <2>1. PICK g : FlatAt(g, q) /\ FlattenSeq(q) = g[n]
    <3>1. \E g : FlatAt(g, q)
      BY <1>4, FlatExists
    <3>2. FlattenSeq(q) = (CHOOSE g : FlatAt(g, q))[n]
      BY <1>4 DEF FlattenSeq, FlatAt
    <3>. QED
      BY <3>1, <3>2
  <2>2. n \in 1 .. n /\ n + 1 \in 1 .. Len(p) /\ n + 1 # 1 /\ (n + 1) - 1 = n
    BY <1>1, <1>4
  <2>3. g[n] = h[n]
    <3>1. Agree(q, p, Len(q)) /\ Len(q) \in Nat /\ Len(p) \in Nat /\ Len(q) <= Len(p)
      BY <1>1 DEF Agree
    <3>2. Agree(g, h, Len(q))
      BY <1>2, <2>1, <3>1, FlatAgrees
    <3>. QED
      BY <2>2, <3>2 DEF Agree
  <2>4. h[n + 1] = h[n] \o x
    BY <1>1, <1>2, <2>2 DEF FlatAt
  <2>5. g[n] \in Seq(T)
    <3>. DEFINE P == {k \in Nat : k \in 1 .. n => g[k] \in Seq(T)}
    <3>1. 0 \in P
      OBVIOUS
    <3>2. ASSUME NEW k \in 1 .. n, k - 1 \in P PROVE k \in P
      <4>1. q[k] \in Seq(T)
        OBVIOUS
      <4>2. CASE k = 1
        BY <2>1, <4>1, <4>2 DEF FlatAt
      <4>3. CASE k # 1
        <5>1. k - 1 \in 1 .. n /\ g[k - 1] \in Seq(T)
          BY <3>2, <4>3
        <5>2. g[k] = g[k - 1] \o q[k]
          BY <2>1, <4>3 DEF FlatAt
        <5>3. PICK a \in Seq(T), b \in Seq(T) : a = g[k - 1] /\ b = q[k]
          BY <4>1, <5>1
        <5>4. a \o b \in Seq(T)
          OBVIOUS
        <5>5. g[k] \in Seq(T)
          BY <5>2, <5>3, <5>4, Zenon
        <5>. QED
          BY <5>5
      <4>. QED
        BY <4>2, <4>3
    <3>. HIDE DEF P
    <3>3. n \in P
      <4>1. n \in Nat
        OBVIOUS
      <4>2. \A k \in 0 .. n : k \in P
        BY <3>1, <3>2, <4>1, UpTo
      <4>. QED
        BY <4>1, <4>2
    <3>. QED
      BY <2>2, <3>3 DEF P
  <2>. QED
    BY <1>1, <1>2, <2>1, <2>3, <2>4, <2>5 DEF p
<1>. QED
  BY <1>3, <1>4
-----------------------------------------------------------------------------
(***************************************************************************)
(* What is picked from a sequence is one, and is not empty when there is   *)
(* something to pick.                                                      *)
(***************************************************************************)

AmongAt(g, s, S) ==
    g = [n \in 0 .. Len(s) |->
          IF n = 0 THEN <<>>
          ELSE IF n \in S THEN Append(g[n - 1], s[n]) ELSE g[n - 1]]

LEMMA AmongExists ==
  ASSUME NEW T, NEW s \in Seq(T), NEW S
  PROVE  \E g \in [0 .. Len(s) -> Seq(T)] : AmongAt(g, s, S)
<1>. DEFINE n == Len(s)
            step == [k \in 1 .. n |-> [x \in Seq(T) |->
                       IF k \in S THEN Append(x, s[k]) ELSE x]]
<1>1. n \in Nat /\ <<>> \in Seq(T) /\ \A k \in 1 .. n : s[k] \in T
  OBVIOUS
<1>2. step \in [1 .. n -> [Seq(T) -> Seq(T)]]
  BY <1>1
<1>3. \A k \in 1 .. n : \A x \in Seq(T) : step[k][x] = IF k \in S THEN Append(x, s[k]) ELSE x
  OBVIOUS
<1>. HIDE DEF step
<1>4. PICK g \in [0 .. n -> Seq(T)] : Recurs(g, n, <<>>, step)
  BY <1>1, <1>2, Recursion
<1>5. ASSUME NEW k \in 0 .. n
      PROVE  g[k] = IF k = 0 THEN <<>>
                    ELSE IF k \in S THEN Append(g[k - 1], s[k]) ELSE g[k - 1]
  <2>1. CASE k = 0
    BY <1>4, <2>1 DEF Recurs
  <2>2. CASE k # 0
    <3>1. k \in 1 .. n /\ k - 1 \in 0 .. n
      BY <2>2
    <3>2. g[k] = step[k][g[k - 1]] /\ g[k - 1] \in Seq(T)
      BY <1>4, <3>1 DEF Recurs
    <3>3. step[k][g[k - 1]] = IF k \in S THEN Append(g[k - 1], s[k]) ELSE g[k - 1]
      BY <1>3, <3>1, <3>2
    <3>. QED
      BY <2>2, <3>2, <3>3
  <2>. QED
    BY <2>1, <2>2
<1>6. AmongAt(g, s, S)
  BY <1>5 DEF AmongAt
<1>. QED
  BY <1>6

LEMMA AmongIsSeq ==
  ASSUME NEW T, NEW s \in Seq(T), NEW S
  PROVE  /\ Among(s, S) \in Seq(T)
         /\ \A i \in 1 .. Len(s) : i \in S => Among(s, S) # <<>>
<1>. DEFINE n == Len(s)
            g == CHOOSE h : AmongAt(h, s, S)
            a == [m \in 0 .. n |->
                    IF m = 0 THEN <<>>
                    ELSE IF m \in S THEN Append(g[m - 1], s[m]) ELSE g[m - 1]]
<1>1. n \in Nat /\ \A i \in 1 .. n : s[i] \in T
  OBVIOUS
<1>2. AmongAt(g, s, S)
  <2>1. \E h : AmongAt(h, s, S)
    BY AmongExists
  <2>. QED
    BY <2>1
<1>3. Among(s, S) = g[n]
  BY DEF Among, AmongAt
<1>. HIDE DEF g
<1>4. g[0] = <<>> /\ \A m \in 1 .. n : g[m] = IF m \in S THEN Append(g[m - 1], s[m]) ELSE g[m - 1]
  <2>1. \A m \in 0 .. n : g[m] = IF m = 0 THEN <<>>
                                 ELSE IF m \in S THEN Append(g[m - 1], s[m]) ELSE g[m - 1]
    BY <1>2, Zenon DEF AmongAt
  <2>2. 0 \in 0 .. n /\ \A m \in 1 .. n : m \in 0 .. n /\ m # 0
    BY <1>1
  <2>. QED
    BY <2>1, <2>2, Zenon
<1>. DEFINE P == {m \in Nat : m \in 0 .. n =>
                    /\ g[m] \in Seq(T)
                    /\ \A i \in 1 .. m : i \in S => g[m] # <<>>}
<1>5. 0 \in P
  <2>1. g[0] \in Seq(T) /\ \A i \in 1 .. 0 : FALSE
    BY <1>4
  <2>. QED
    BY <2>1
<1>6. ASSUME NEW m \in 1 .. n, m - 1 \in P PROVE m \in P
  <2>1. m - 1 \in 0 .. n /\ g[m - 1] \in Seq(T) /\ \A i \in 1 .. m - 1 : i \in S => g[m - 1] # <<>>
    BY <1>6
  <2>2. CASE m \in S
    <3>1. g[m] = Append(g[m - 1], s[m]) /\ s[m] \in T
      BY <1>1, <1>4, <2>2
    <3>2. PICK x \in Seq(T), e \in T : x = g[m - 1] /\ e = s[m]
      BY <2>1, <3>1
    <3>3. Append(x, e) \in Seq(T) /\ Append(x, e) # <<>>
      OBVIOUS
    <3>4. g[m] = Append(x, e)
      BY <3>1, <3>2, Zenon
    <3>5. g[m] \in Seq(T) /\ g[m] # <<>>
      BY <3>3, <3>4, Zenon
    <3>. HIDE DEF g
    <3>. QED
      BY <3>5
  <2>3. CASE m \notin S
    <3>1. g[m] = g[m - 1]
      BY <1>4, <2>3
    <3>2. \A i \in 1 .. m : i \in S => i \in 1 .. m - 1
      BY <2>3
    <3>. QED
      BY <2>1, <3>1, <3>2
  <2>. QED
    BY <2>2, <2>3
<1>. HIDE DEF P
<1>7. n \in P
  <2>1. \A k \in 0 .. n : k \in P
    BY <1>1, <1>5, <1>6, UpTo
  <2>. QED
    BY <1>1, <2>1
<1>8. g[n] \in Seq(T) /\ \A i \in 1 .. n : i \in S => g[n] # <<>>
  BY <1>1, <1>7 DEF P
<1>. QED
  BY <1>3, <1>8

-----------------------------------------------------------------------------
(***************************************************************************)
(* Pairing neither loses, doubles nor moves a block, and the two of a pair *)
(* are twins.                                                              *)
(***************************************************************************)

PairedAt(g, s) ==
    g = [n \in 0 .. Len(s) |->
          IF n = 0 THEN [out |-> <<>>, next |-> 1] ELSE Paired(g[n - 1], s, n)]

WalkType(T) == [out : Seq(Seq(T)), next : Nat]

LEMMA PairedType ==
  ASSUME NEW T, NEW s \in Seq(T), NEW w \in WalkType(T), NEW n \in 1 .. Len(s)
  PROVE  Paired(w, s, n) \in WalkType(T)
<1>1. s[n] \in T /\ w.out \in Seq(Seq(T)) /\ w.next \in Nat
  BY DEF WalkType
<1>2. <<s[n]>> \in Seq(T)
  BY <1>1
<1>3. n < Len(s) => SubSeq(s, n, n + 1) \in Seq(T)
  BY SubSeqProperties
<1>4. \A x \in Seq(T) : Append(w.out, x) \in Seq(Seq(T))
  BY <1>1
<1>. QED
  BY <1>1, <1>2, <1>3, <1>4 DEF Paired, WalkType

LEMMA PairedExists ==
  ASSUME NEW T, NEW s \in Seq(T)
  PROVE  \E g \in [0 .. Len(s) -> WalkType(T)] : PairedAt(g, s)
<1>. DEFINE n == Len(s)
            base == [out |-> <<>>, next |-> 1]
            step == [k \in 1 .. n |-> [x \in WalkType(T) |-> Paired(x, s, k)]]
<1>1. n \in Nat /\ base \in WalkType(T)
  BY DEF WalkType
<1>2. step \in [1 .. n -> [WalkType(T) -> WalkType(T)]]
  BY PairedType
<1>3. \A k \in 1 .. n : \A x \in WalkType(T) : step[k][x] = Paired(x, s, k)
  OBVIOUS
<1>. HIDE DEF step, base
<1>4. PICK g \in [0 .. n -> WalkType(T)] : Recurs(g, n, base, step)
  BY <1>1, <1>2, Recursion
<1>5. ASSUME NEW k \in 0 .. n
      PROVE  g[k] = IF k = 0 THEN base ELSE Paired(g[k - 1], s, k)
  <2>1. CASE k = 0
    BY <1>4, <2>1 DEF Recurs
  <2>2. CASE k # 0
    <3>1. k \in 1 .. n /\ k - 1 \in 0 .. n
      BY <2>2
    <3>2. g[k] = step[k][g[k - 1]] /\ g[k - 1] \in WalkType(T)
      BY <1>4, <3>1 DEF Recurs
    <3>3. step[k][g[k - 1]] = Paired(g[k - 1], s, k)
      BY <1>3, <3>1, <3>2
    <3>. QED
      BY <2>2, <3>2, <3>3
  <2>. QED
    BY <2>1, <2>2
<1>6. PairedAt(g, s)
  BY <1>5 DEF PairedAt, base
<1>. QED
  BY <1>6

\* An item is a block or a pair of twins.
ItemOk(item) == Len(item) = 1 \/ (Len(item) = 2 /\ Twins(item[1], item[2]))

\* What the walk has put out when it is at n.
Walked(w, s, n, T) ==
    /\ w \in WalkType(T)
    /\ w.next \in {n + 1, n + 2} /\ w.next <= Len(s) + 1
    /\ FlattenSeq(w.out) = SubSeq(s, 1, w.next - 1)
    /\ \A i \in 1 .. Len(w.out) : ItemOk(w.out[i])

\* One more item at the end.
LEMMA ItemAdded ==
  ASSUME NEW T, NEW s \in Seq(T), NEW w, NEW n \in 1 .. Len(s), NEW m \in n .. Len(s),
         Walked(w, s, n - 1, T), w.next = n, NEW x \in Seq(T), x = SubSeq(s, n, m), ItemOk(x),
         m \in {n, n + 1}
  PROVE  Walked([out |-> Append(w.out, x), next |-> m + 1], s, n, T)
<1>. DEFINE o == Append(w.out, x)
<1>1. w.out \in Seq(Seq(T))
  BY DEF Walked, WalkType
<1>2. o \in Seq(Seq(T)) /\ Len(o) = Len(w.out) + 1 /\ o[Len(o)] = x
      /\ \A i \in 1 .. Len(w.out) : o[i] = w.out[i]
  <2>1. PICK u \in Seq(Seq(T)) : u = w.out
    BY <1>1
  <2>2. Append(u, x) \in Seq(Seq(T)) /\ Len(Append(u, x)) = Len(u) + 1
        /\ Append(u, x)[Len(u) + 1] = x /\ \A i \in 1 .. Len(u) : Append(u, x)[i] = u[i]
    BY AppendProperties
  <2>. QED
    BY <2>1, <2>2
<1>3. FlattenSeq(o) = FlattenSeq(w.out) \o x
  BY <1>1, FlattenAppend
<1>4. FlattenSeq(w.out) = SubSeq(s, 1, n - 1)
  BY DEF Walked
<1>5. SubSeq(s, 1, n - 1) \o SubSeq(s, n, m) = SubSeq(s, 1, m)
  <2>1. PICK j \in 0 .. Len(s) : j = n - 1 /\ j + 1 = n /\ m \in j .. Len(s)
    OBVIOUS
  <2>2. 1 \in 1 .. Len(s) + 1 /\ j \in 1 - 1 .. Len(s)
    OBVIOUS
  <2>3. SubSeq(s, 1, j) \o SubSeq(s, j + 1, m) = SubSeq(s, 1, m)
    BY <2>1, <2>2, ConcatAdjacentSubSeq
  <2>. QED
    BY <2>1, <2>3, Zenon
<1>6. FlattenSeq(o) = SubSeq(s, 1, m)
  BY <1>3, <1>4, <1>5, Zenon
<1>7. (m + 1) - 1 = m /\ m + 1 \in Nat /\ m + 1 \in {n + 1, n + 2} /\ m + 1 <= Len(s) + 1
  OBVIOUS
<1>8. ASSUME NEW i \in 1 .. Len(o) PROVE ItemOk(o[i])
  <2>1. CASE i = Len(o)
    BY <1>2, <2>1
  <2>2. CASE i # Len(o)
    <3>1. i \in 1 .. Len(w.out)
      BY <1>1, <1>2, <2>2
    <3>. QED
      BY <1>2, <3>1 DEF Walked
  <2>. QED
    BY <2>1, <2>2
<1>. HIDE DEF o
<1>9. FlattenSeq(o) = SubSeq(s, 1, (m + 1) - 1)
  BY <1>6, <1>7, Zenon
<1>. QED
  BY <1>2, <1>7, <1>8, <1>9 DEF Walked, WalkType, o

LEMMA GroupedKeeps ==
  ASSUME NEW T, NEW s \in Seq(T)
  PROVE  /\ Grouped(s) \in Seq(Seq(T))
         /\ FlattenSeq(Grouped(s)) = s
         /\ \A i \in 1 .. Len(Grouped(s)) : ItemOk(Grouped(s)[i])
<1>. DEFINE n == Len(s)
            g == CHOOSE h : PairedAt(h, s)
<1>1. n \in Nat
  OBVIOUS
<1>2. PairedAt(g, s)
  <2>1. \E h : PairedAt(h, s)
    BY PairedExists
  <2>. QED
    BY <2>1
<1>3. Grouped(s) = g[n].out
  BY DEF Grouped, PairedAt
<1>. HIDE DEF g
<1>4. g[0] = [out |-> <<>>, next |-> 1] /\ \A m \in 1 .. n : g[m] = Paired(g[m - 1], s, m)
  BY <1>1, <1>2 DEF PairedAt
<1>. DEFINE P == {m \in Nat : m \in 0 .. n => Walked(g[m], s, m, T)}
<1>5. 0 \in P
  <2>1. PICK w : w = g[0] /\ w = [out |-> <<>>, next |-> 1]
    BY <1>4
  <2>2. w.next = 1 /\ w.out = <<>> /\ w \in WalkType(T) /\ Len(w.out) = 0
    BY <2>1 DEF WalkType
  <2>3. SubSeq(s, 1, w.next - 1) = <<>>
    BY <2>2
  <2>4. FlattenSeq(w.out) = SubSeq(s, 1, w.next - 1)
    BY <2>2, <2>3, FlattenEmpty, Zenon
  <2>5. Walked(w, s, 0, T)
    BY <1>1, <2>2, <2>4 DEF Walked
  <2>. QED
    BY <2>1, <2>5
<1>6. ASSUME NEW m \in 1 .. n, m - 1 \in P PROVE m \in P
  <2>0. m - 1 \in 0 .. n /\ (m - 1) + 1 = m /\ (m - 1) + 2 = m + 1
    OBVIOUS
  <2>1. PICK w : w = g[m - 1] /\ Walked(w, s, m - 1, T)
    BY <1>6, <2>0
  <2>2. g[m] = Paired(w, s, m)
    BY <1>4, <2>1
  <2>3. w.next \in {m, m + 1} /\ w.next \in Nat
    BY <2>0, <2>1 DEF Walked, WalkType
  <2>4. CASE m < w.next
    <3>1. g[m] = w
      BY <2>2, <2>4 DEF Paired
    <3>2. Walked(w, s, m, T)
      BY <2>1, <2>3, <2>4 DEF Walked
    <3>. QED
      BY <3>1, <3>2
  <2>5. CASE ~(m < w.next) /\ m < n /\ Twins(s[m], s[m + 1])
    <3>1. w.next = m /\ m + 1 \in m .. Len(s) /\ m + 1 \in {m, m + 1}
      BY <2>3, <2>5
    <3>2. g[m] = [out |-> Append(w.out, SubSeq(s, m, m + 1)), next |-> m + 2]
      BY <2>2, <2>5 DEF Paired
    <3>3. SubSeq(s, m, m + 1) \in Seq(T) /\ Len(SubSeq(s, m, m + 1)) = 2
          /\ SubSeq(s, m, m + 1)[1] = s[m] /\ SubSeq(s, m, m + 1)[2] = s[m + 1]
      <4>1. m \in Int /\ m + 1 \in Int /\ \A i \in m .. m + 1 : s[i] \in T
        BY <3>1
      <4>2. /\ SubSeq(s, m, m + 1) \in Seq(T)
            /\ Len(SubSeq(s, m, m + 1)) = IF m <= m + 1 THEN (m + 1) - m + 1 ELSE 0
            /\ \A i \in 1 .. (m + 1) - m + 1 : SubSeq(s, m, m + 1)[i] = s[m + i - 1]
        BY <4>1, SubSeqProperties
      <4>. DEFINE u == SubSeq(s, m, m + 1)
      <4>. HIDE DEF u
      <4>3. u \in Seq(T) /\ Len(u) = 2 /\ \A i \in 1 .. 2 : u[i] = s[m + i - 1]
        <5>1. (m + 1) - m + 1 = 2 /\ m <= m + 1
          BY <3>1
        <5>. QED
          BY <4>2, <5>1 DEF u
      <4>4. m + 1 - 1 = m /\ m + 2 - 1 = m + 1
        BY <3>1
      <4>. QED
        BY <4>3, <4>4 DEF u
    <3>4. ItemOk(SubSeq(s, m, m + 1))
      BY <2>5, <3>3 DEF ItemOk
    <3>5. Walked([out |-> Append(w.out, SubSeq(s, m, m + 1)), next |-> (m + 1) + 1], s, m, T)
      BY <2>1, <3>1, <3>3, <3>4, ItemAdded
    <3>6. (m + 1) + 1 = m + 2
      OBVIOUS
    <3>7. Walked(g[m], s, m, T)
      BY <3>2, <3>5, <3>6, Zenon
    <3>. QED
      BY <3>7
  <2>6. CASE ~(m < w.next) /\ ~(m < n /\ Twins(s[m], s[m + 1]))
    <3>1. w.next = m /\ m \in m .. Len(s) /\ m \in {m, m + 1}
      BY <2>3, <2>6
    <3>2. g[m] = [out |-> Append(w.out, <<s[m]>>), next |-> m + 1]
      BY <2>2, <2>6 DEF Paired
    <3>3. SubSeq(s, m, m) = <<s[m]>> /\ <<s[m]>> \in Seq(T) /\ Len(<<s[m]>>) = 1
      <4>1. s[m] \in T /\ m \in Int /\ 1 .. (m - m) + 1 = {1} /\ (1 + m) - 1 = m
        BY <3>1
      <4>2. SubSeq(s, m, m) = [i \in 1 .. (m - m) + 1 |-> s[(i + m) - 1]]
        BY <4>1
      <4>. QED
        BY <4>1, <4>2
    <3>4. ItemOk(<<s[m]>>)
      BY <3>3 DEF ItemOk
    <3>5. Walked([out |-> Append(w.out, <<s[m]>>), next |-> m + 1], s, m, T)
      BY <2>1, <3>1, <3>3, <3>4, ItemAdded
    <3>7. Walked(g[m], s, m, T)
      BY <3>2, <3>5, Zenon
    <3>. QED
      BY <3>7
  <2>. QED
    BY <2>4, <2>5, <2>6
<1>. HIDE DEF P
<1>7. n \in P
  <2>1. \A k \in 0 .. n : k \in P
    BY <1>1, <1>5, <1>6, UpTo
  <2>. QED
    BY <1>1, <2>1
<1>8. Walked(g[n], s, n, T)
  BY <1>1, <1>7 DEF P
<1>9. g[n].next = n + 1 /\ (n + 1) - 1 = n
  BY <1>1, <1>8 DEF Walked, WalkType
<1>10. FlattenSeq(g[n].out) = SubSeq(s, 1, n)
  <2>1. FlattenSeq(g[n].out) = SubSeq(s, 1, g[n].next - 1)
    BY <1>8 DEF Walked
  <2>. QED
    BY <1>9, <2>1
<1>11. SubSeq(s, 1, n) = s
  BY SubSeqFull
<1>12. FlattenSeq(g[n].out) = s
  BY <1>10, <1>11, Zenon
<1>13. g[n].out \in Seq(Seq(T)) /\ \A i \in 1 .. Len(g[n].out) : ItemOk(g[n].out[i])
  BY <1>8 DEF Walked, WalkType
<1>. QED
  BY <1>3, <1>12, <1>13, Zenon

-----------------------------------------------------------------------------
(***************************************************************************)
(* Folding neither loses, doubles nor moves an item.                       *)
(***************************************************************************)

SectionType(T) == [formal : BOOLEAN, items : Seq(T) \ {<<>>}]
AccType(T) == [out : Seq(SectionType(T)), run : Seq(T)]

SectionedAt(g, q) ==
    g = [n \in 0 .. Len(q) |->
          IF n = 0 THEN [out |-> <<>>, run |-> <<>>] ELSE Sectioned(g[n - 1], q[n])]

ItemsOf(out) == [i \in DOMAIN out |-> out[i].items]

LEMMA ItemsOfTyped ==
  ASSUME NEW T, NEW out \in Seq(SectionType(T))
  PROVE  ItemsOf(out) \in Seq(Seq(T))
<1>1. \A i \in 1 .. Len(out) : out[i] \in SectionType(T)
  OBVIOUS
<1>2. \A i \in 1 .. Len(out) : out[i].items \in Seq(T)
  BY <1>1 DEF SectionType
<1>3. ItemsOf(out) = [i \in 1 .. Len(out) |-> out[i].items]
  BY DEF ItemsOf
<1>. QED
  BY <1>2, <1>3

LEMMA ItemsOfAppend ==
  ASSUME NEW T, NEW out \in Seq(SectionType(T)), NEW x \in SectionType(T)
  PROVE  /\ ItemsOf(out) \in Seq(Seq(T)) /\ x.items \in Seq(T)
         /\ ItemsOf(Append(out, x)) = Append(ItemsOf(out), x.items)
         /\ Append(out, x) \in Seq(SectionType(T))
<1>1. \A i \in 1 .. Len(out) : out[i].items \in Seq(T)
  <2>1. \A i \in 1 .. Len(out) : out[i] \in SectionType(T)
    OBVIOUS
  <2>. QED
    BY <2>1 DEF SectionType
<1>2. x.items \in Seq(T) /\ Append(out, x) \in Seq(SectionType(T))
  BY DEF SectionType
<1>3. ItemsOf(out) = [i \in 1 .. Len(out) |-> out[i].items]
  BY DEF ItemsOf
<1>4. ItemsOf(out) \in Seq(Seq(T)) /\ Len(ItemsOf(out)) = Len(out)
  BY <1>1, <1>3
<1>5. ItemsOf(Append(out, x)) = Append(ItemsOf(out), x.items)
  <2>. DEFINE a == Append(out, x)
              b == Append(ItemsOf(out), x.items)
  <2>1. a \in Seq(SectionType(T)) /\ Len(a) = Len(out) + 1 /\ a[Len(out) + 1] = x
        /\ \A i \in 1 .. Len(out) : a[i] = out[i]
    OBVIOUS
  <2>2. b \in Seq(Seq(T)) /\ Len(b) = Len(out) + 1 /\ b[Len(out) + 1] = x.items
        /\ \A i \in 1 .. Len(out) : b[i] = ItemsOf(out)[i]
    BY <1>2, <1>4
  <2>3. \A i \in 1 .. Len(out) : ItemsOf(out)[i] = out[i].items
    BY <1>3
  <2>. HIDE DEF a, b
  <2>4. DOMAIN a = 1 .. Len(out) + 1 /\ DOMAIN b = 1 .. Len(out) + 1
    BY <2>1, <2>2
  <2>5. \A i \in 1 .. Len(out) + 1 : b[i] = a[i].items
    <3>. SUFFICES ASSUME NEW i \in 1 .. Len(out) + 1 PROVE b[i] = a[i].items
      OBVIOUS
    <3>1. CASE i = Len(out) + 1
      BY <2>1, <2>2, <3>1
    <3>2. CASE i \in 1 .. Len(out)
      BY <2>1, <2>2, <2>3, <3>2
    <3>. QED
      BY <3>1, <3>2
  <2>6. b = [i \in 1 .. Len(out) + 1 |-> b[i]]
    BY <2>2, <2>4
  <2>7. ItemsOf(a) = [i \in 1 .. Len(out) + 1 |-> a[i].items]
    BY <2>4 DEF ItemsOf
  <2>. QED
    BY <2>5, <2>6, <2>7 DEF a, b
<1>. QED
  BY <1>2, <1>4, <1>5

\* What a run that is closed puts out.
LEMMA FlushedKeeps ==
  ASSUME NEW T, NEW acc \in AccType(T)
  PROVE  /\ Flushed(acc) \in Seq(SectionType(T))
         /\ FlattenSeq(ItemsOf(acc.out)) \in Seq(T) /\ acc.run \in Seq(T)
         /\ ItemsOf(Flushed(acc)) \in Seq(Seq(T))
         /\ FlattenSeq(ItemsOf(Flushed(acc))) = FlattenSeq(ItemsOf(acc.out)) \o acc.run
<1>. DEFINE x == [formal |-> TRUE, items |-> acc.run]
<1>1. acc.out \in Seq(SectionType(T)) /\ acc.run \in Seq(T)
  BY DEF AccType
<1>2. x.items = acc.run /\ (acc.run # <<>> => x \in SectionType(T))
  BY <1>1 DEF SectionType
<1>3. Flushed(acc) = IF acc.run = <<>> THEN acc.out ELSE Append(acc.out, x)
  BY DEF Flushed
<1>. HIDE DEF x
<1>4. PICK o \in Seq(SectionType(T)), r \in Seq(T) : o = acc.out /\ r = acc.run
  BY <1>1
<1>5. /\ ItemsOf(o) \in Seq(Seq(T))
      /\ r # <<>> => /\ ItemsOf(Append(o, x)) = Append(ItemsOf(o), r)
                    /\ Append(o, x) \in Seq(SectionType(T))
  BY <1>2, <1>4, ItemsOfTyped, ItemsOfAppend
<1>6. PICK i \in Seq(Seq(T)) : i = ItemsOf(o)
  BY <1>5
<1>7. FlattenSeq(i) \in Seq(T) /\ FlattenSeq(Append(i, r)) = FlattenSeq(i) \o r /\ Append(i, r) \in Seq(Seq(T))
  BY FlattenAppend
<1>8. CASE r = <<>>
  <2>1. Flushed(acc) = o
    BY <1>3, <1>4, <1>8
  <2>2. PICK f \in Seq(T) : f = FlattenSeq(i)
    BY <1>7
  <2>3. f \o r = f
    BY <1>8
  <2>. QED
    BY <1>1, <1>4, <1>6, <1>7, <2>1, <2>2, <2>3, Zenon
<1>9. CASE r # <<>>
  <2>1. Flushed(acc) = Append(o, x)
    BY <1>3, <1>4, <1>9
  <2>. QED
    BY <1>1, <1>4, <1>5, <1>6, <1>7, <1>9, <2>1, Zenon
<1>. QED
  BY <1>8, <1>9

\* What the sections and the open run hold when n items are read.
Held(acc, q, n, T) ==
    acc \in AccType(T) /\ FlattenSeq(ItemsOf(acc.out)) \o acc.run = SubSeq(q, 1, n)

LEMMA SectionedType ==
  ASSUME NEW T, NEW acc \in AccType(T), NEW item \in T
  PROVE  Sectioned(acc, item) \in AccType(T)
<1>1. Flushed(acc) \in Seq(SectionType(T)) /\ acc.out \in Seq(SectionType(T)) /\ acc.run \in Seq(T)
  BY FlushedKeeps DEF AccType
<1>2. Append(acc.run, item) \in Seq(T) /\ <<item>> \in Seq(T) /\ <<>> \in Seq(T)
  BY <1>1
<1>3. [formal |-> FALSE, items |-> <<item>>] \in SectionType(T)
  BY <1>2 DEF SectionType
<1>4. Append(Flushed(acc), [formal |-> FALSE, items |-> <<item>>]) \in Seq(SectionType(T))
  BY <1>1, <1>3
<1>. QED
  BY <1>1, <1>2, <1>4 DEF Sectioned, AccType

LEMMA SectionedKeeps ==
  ASSUME NEW T, NEW q \in Seq(T), NEW n \in 1 .. Len(q), NEW acc, Held(acc, q, n - 1, T)
  PROVE  Held(Sectioned(acc, q[n]), q, n, T)
<1>. DEFINE item == q[n]
<1>0. item \in T /\ acc \in AccType(T)
  BY DEF Held
<1>1. Sectioned(acc, item) \in AccType(T)
  BY <1>0, SectionedType
<1>2. PICK f \in Seq(T), r \in Seq(T), s \in Seq(T) :
        f = FlattenSeq(ItemsOf(acc.out)) /\ r = acc.run /\ s = SubSeq(q, 1, n - 1)
  <2>1. SubSeq(q, 1, n - 1) \in Seq(T)
    OBVIOUS
  <2>. QED
    BY <1>0, <2>1, FlushedKeeps
<1>3. f \o r = s
  BY <1>2, Zenon DEF Held
<1>4. SubSeq(q, 1, n) = s \o <<item>>
  <2>1. 1 \in 1 .. Len(q) /\ n \in 1 .. Len(q)
    OBVIOUS
  <2>2. SubSeq(q, 1, n) = SubSeq(q, 1, n - 1) \o <<q[n]>>
    BY <2>1, SubSeqRecursiveSecond
  <2>. QED
    BY <1>2, <2>2, Zenon
<1>5. CASE IsFormal(item)
  <2>1. Sectioned(acc, item).out = acc.out /\ Sectioned(acc, item).run = Append(r, item)
    BY <1>0, <1>2, <1>5 DEF Sectioned, AccType
  <2>2. f \o Append(r, item) = (f \o r) \o <<item>>
    BY <1>0
  <2>3. FlattenSeq(ItemsOf(Sectioned(acc, item).out)) \o Sectioned(acc, item).run = SubSeq(q, 1, n)
    BY <1>2, <1>3, <1>4, <2>1, <2>2, Zenon
  <2>. QED
    BY <1>1, <2>3 DEF Held
<1>6. CASE ~IsFormal(item)
  <2>. DEFINE x == [formal |-> FALSE, items |-> <<item>>]
  <2>1. Sectioned(acc, item).out = Append(Flushed(acc), x) /\ Sectioned(acc, item).run = <<>>
    BY <1>6 DEF Sectioned
  <2>2. x \in SectionType(T) /\ x.items = <<item>> /\ <<item>> \in Seq(T)
    BY <1>0 DEF SectionType
  <2>. HIDE DEF x
  <2>3. PICK o \in Seq(SectionType(T)), i \in Seq(Seq(T)) : o = Flushed(acc) /\ i = ItemsOf(Flushed(acc))
    BY <1>0, FlushedKeeps
  <2>4. FlattenSeq(i) = s
    <3>1. FlattenSeq(ItemsOf(Flushed(acc))) = FlattenSeq(ItemsOf(acc.out)) \o acc.run
      BY <1>0, FlushedKeeps
    <3>. QED
      BY <1>2, <1>3, <2>3, <3>1, Zenon
  <2>5. ItemsOf(Append(o, x)) = Append(ItemsOf(o), x.items)
    BY <2>2, ItemsOfAppend
  <2>6. FlattenSeq(Append(i, <<item>>)) = FlattenSeq(i) \o <<item>>
    BY <2>2, FlattenAppend
  <2>7. FlattenSeq(ItemsOf(Sectioned(acc, item).out)) = SubSeq(q, 1, n)
    BY <1>4, <2>1, <2>2, <2>3, <2>4, <2>5, <2>6, Zenon
  <2>8. SubSeq(q, 1, n) \o <<>> = SubSeq(q, 1, n)
    <3>1. SubSeq(q, 1, n) \in Seq(T)
      OBVIOUS
    <3>. QED
      BY <3>1, ConcatEmptySeq
  <2>9. FlattenSeq(ItemsOf(Sectioned(acc, item).out)) \o Sectioned(acc, item).run = SubSeq(q, 1, n)
    BY <2>1, <2>7, <2>8, Zenon
  <2>. QED
    BY <1>1, <2>9 DEF Held
<1>. QED
  BY <1>5, <1>6

LEMMA SectionedExists ==
  ASSUME NEW T, NEW q \in Seq(T)
  PROVE  \E g \in [0 .. Len(q) -> AccType(T)] : SectionedAt(g, q)
<1>. DEFINE n == Len(q)
            base == [out |-> <<>>, run |-> <<>>]
            step == [k \in 1 .. n |-> [x \in AccType(T) |-> Sectioned(x, q[k])]]
<1>1. n \in Nat /\ base \in AccType(T) /\ \A k \in 1 .. n : q[k] \in T
  BY DEF AccType
<1>2. step \in [1 .. n -> [AccType(T) -> AccType(T)]]
  BY <1>1, SectionedType
<1>3. \A k \in 1 .. n : \A x \in AccType(T) : step[k][x] = Sectioned(x, q[k])
  OBVIOUS
<1>. HIDE DEF step, base
<1>4. PICK g \in [0 .. n -> AccType(T)] : Recurs(g, n, base, step)
  BY <1>1, <1>2, Recursion
<1>5. ASSUME NEW k \in 0 .. n
      PROVE  g[k] = IF k = 0 THEN base ELSE Sectioned(g[k - 1], q[k])
  <2>1. CASE k = 0
    BY <1>4, <2>1 DEF Recurs
  <2>2. CASE k # 0
    <3>1. k \in 1 .. n /\ k - 1 \in 0 .. n
      BY <2>2
    <3>2. g[k] = step[k][g[k - 1]] /\ g[k - 1] \in AccType(T)
      BY <1>4, <3>1 DEF Recurs
    <3>3. step[k][g[k - 1]] = Sectioned(g[k - 1], q[k])
      BY <1>3, <3>1, <3>2
    <3>. QED
      BY <2>2, <3>2, <3>3
  <2>. QED
    BY <2>1, <2>2
<1>6. SectionedAt(g, q)
  BY <1>5 DEF SectionedAt, base
<1>. QED
  BY <1>6

LEMMA SectionsKeep ==
  ASSUME NEW T, NEW q \in Seq(T)
  PROVE  FlattenSeq(ItemsOf(Sections(q))) = q /\ Sections(q) \in Seq(SectionType(T))
<1>. DEFINE n == Len(q)
            g == CHOOSE h : SectionedAt(h, q)
<1>1. n \in Nat
  OBVIOUS
<1>2. SectionedAt(g, q)
  <2>1. \E h : SectionedAt(h, q)
    BY SectionedExists
  <2>. QED
    BY <2>1
<1>3. Sections(q) = Flushed(g[n])
  BY DEF Sections, SectionedAt, Closed
<1>. HIDE DEF g
<1>4. g[0] = [out |-> <<>>, run |-> <<>>] /\ \A m \in 1 .. n : g[m] = Sectioned(g[m - 1], q[m])
  BY <1>1, <1>2 DEF SectionedAt
<1>. DEFINE P == {m \in Nat : m \in 0 .. n => Held(g[m], q, m, T)}
<1>5. 0 \in P
  <2>1. PICK acc : acc = g[0] /\ acc = [out |-> <<>>, run |-> <<>>]
    BY <1>4
  <2>2. acc \in AccType(T) /\ acc.run = <<>> /\ acc.out = <<>>
    BY <2>1 DEF AccType
  <2>3. ItemsOf(<<>>) = <<>>
    BY DEF ItemsOf
  <2>4. SubSeq(q, 1, 0) = <<>> /\ <<>> \o <<>> = <<>>
    OBVIOUS
  <2>5. FlattenSeq(ItemsOf(acc.out)) \o acc.run = SubSeq(q, 1, 0)
    BY <2>2, <2>3, <2>4, FlattenEmpty, Zenon
  <2>6. Held(acc, q, 0, T)
    BY <2>2, <2>5 DEF Held
  <2>. QED
    BY <2>1, <2>6
<1>6. ASSUME NEW m \in 1 .. n, m - 1 \in P PROVE m \in P
  <2>1. m - 1 \in 0 .. n
    OBVIOUS
  <2>2. Held(g[m - 1], q, m - 1, T)
    BY <1>6, <2>1
  <2>3. Held(Sectioned(g[m - 1], q[m]), q, m, T)
    BY <2>2, SectionedKeeps
  <2>4. Held(g[m], q, m, T)
    BY <1>4, <2>3
  <2>. QED
    BY <2>4
<1>. HIDE DEF P
<1>7. n \in P
  <2>1. \A k \in 0 .. n : k \in P
    BY <1>1, <1>5, <1>6, UpTo
  <2>. QED
    BY <1>1, <2>1
<1>8. Held(g[n], q, n, T)
  BY <1>1, <1>7 DEF P
<1>9. FlattenSeq(ItemsOf(Flushed(g[n]))) = SubSeq(q, 1, n)
  <2>1. g[n] \in AccType(T) /\ FlattenSeq(ItemsOf(g[n].out)) \o g[n].run = SubSeq(q, 1, n)
    BY <1>8 DEF Held
  <2>2. FlattenSeq(ItemsOf(Flushed(g[n]))) = FlattenSeq(ItemsOf(g[n].out)) \o g[n].run
    BY <2>1, FlushedKeeps
  <2>. QED
    BY <2>1, <2>2, Zenon
<1>10. SubSeq(q, 1, n) = q
  BY SubSeqFull
<1>11. Flushed(g[n]) \in Seq(SectionType(T))
  BY <1>8, FlushedKeeps DEF Held
<1>. QED
  BY <1>3, <1>9, <1>10, <1>11, Zenon

-----------------------------------------------------------------------------
(***************************************************************************)
(* What is seen of any topic is rendered, and its pairs can run.           *)
(***************************************************************************)

\* On a narrow page: a block is put among those before it.
LEMMA PlacedIsSeq ==
  ASSUME NEW T, NEW q \in Seq(T), NEW b \in T
  PROVE  Placed(q, b) \in Seq(T)
<1>. DEFINE D == {i \in 1 .. Len(q) : q[i].order <= b.order}
            at == Cardinality(D) + 1
<1>1. Cardinality(D) \in 0 .. Len(q)
  <2>0. Len(q) \in Nat /\ Len(q) \in Int /\ 1 \in Int /\ D \subseteq 1 .. Len(q)
    OBVIOUS
  <2>1. IsFiniteSet(1 .. Len(q)) /\ Cardinality(1 .. Len(q)) = Len(q)
    <3>1. IsFiniteSet(1 .. Len(q))
          /\ Cardinality(1 .. Len(q)) = IF 1 > Len(q) THEN 0 ELSE Len(q) - 1 + 1
      BY <2>0, FS_Interval
    <3>. QED
      BY <2>0, <3>1
  <2>. HIDE DEF D
  <2>2. IsFiniteSet(D) /\ Cardinality(D) <= Cardinality(1 .. Len(q))
    BY <2>0, <2>1, FS_Subset
  <2>3. Cardinality(D) \in Nat
    BY <2>2, FS_CardinalityType
  <2>. QED
    BY <2>0, <2>1, <2>2, <2>3
<1>2. Placed(q, b) = SubSeq(q, 1, at - 1) \o <<b>> \o SubSeq(q, at, Len(q))
  <2>1. D = {i \in DOMAIN q : q[i].order <= b.order}
    OBVIOUS
  <2>. QED
    BY <2>1, Zenon DEF Placed, InsertAt
<1>. HIDE DEF D
<1>3. at \in 1 .. Len(q) + 1
  BY <1>1
<1>. HIDE DEF at
<1>4. SubSeq(q, 1, at - 1) \in Seq(T) /\ SubSeq(q, at, Len(q)) \in Seq(T) /\ <<b>> \in Seq(T)
  <2>1. \A i \in 1 .. at - 1 : q[i] \in T
    BY <1>3
  <2>2. \A i \in at .. Len(q) : q[i] \in T
    BY <1>3
  <2>3. at \in Int /\ at - 1 \in Int /\ 1 \in Int /\ Len(q) \in Int
    BY <1>3
  <2>. QED
    BY <2>1, <2>2, <2>3, SubSeqProperties
<1>5. PICK x \in Seq(T), y \in Seq(T), z \in Seq(T) :
        x = SubSeq(q, 1, at - 1) /\ y = <<b>> /\ z = SubSeq(q, at, Len(q))
  BY <1>4
<1>6. x \o y \o z \in Seq(T)
  OBVIOUS
<1>. QED
  BY <1>2, <1>5, <1>6, Zenon

ArrangedAt(g, s) ==
    g = [n \in 0 .. Len(s) |-> IF n = 0 THEN <<>> ELSE Placed(g[n - 1], s[n])]

LEMMA ArrangedIsSeq ==
  ASSUME NEW T, NEW s \in Seq(T)
  PROVE  Arranged(s) \in Seq(T)
<1>. DEFINE n == Len(s)
            step == [k \in 1 .. n |-> [x \in Seq(T) |-> Placed(x, s[k])]]
            g == CHOOSE h : ArrangedAt(h, s)
<1>1. n \in Nat /\ <<>> \in Seq(T) /\ \A k \in 1 .. n : s[k] \in T
  OBVIOUS
<1>2. step \in [1 .. n -> [Seq(T) -> Seq(T)]]
  BY <1>1, PlacedIsSeq
<1>3. \A k \in 1 .. n : \A x \in Seq(T) : step[k][x] = Placed(x, s[k])
  OBVIOUS
<1>. HIDE DEF step
<1>4. PICK r \in [0 .. n -> Seq(T)] : Recurs(r, n, <<>>, step)
  BY <1>1, <1>2, Recursion
<1>5. ASSUME NEW k \in 0 .. n
      PROVE  r[k] = IF k = 0 THEN <<>> ELSE Placed(r[k - 1], s[k])
  <2>1. CASE k = 0
    BY <1>4, <2>1 DEF Recurs
  <2>2. CASE k # 0
    <3>1. k \in 1 .. n /\ k - 1 \in 0 .. n
      BY <2>2
    <3>2. r[k] = step[k][r[k - 1]] /\ r[k - 1] \in Seq(T)
      BY <1>4, <3>1 DEF Recurs
    <3>3. step[k][r[k - 1]] = Placed(r[k - 1], s[k])
      BY <1>3, <3>1, <3>2
    <3>. QED
      BY <2>2, <3>2, <3>3
  <2>. QED
    BY <2>1, <2>2
<1>6. ArrangedAt(r, s)
  BY <1>5 DEF ArrangedAt
<1>7. ArrangedAt(g, s)
  BY <1>6
<1>8. Arranged(s) = g[n]
  BY DEF Arranged, ArrangedAt
<1>. HIDE DEF g
<1>9. /\ g[0] = <<>>
      /\ \A m \in 1 .. n : g[m] = Placed(g[m - 1], s[m])
  <2>1. \A m \in 0 .. n : g[m] = IF m = 0 THEN <<>> ELSE Placed(g[m - 1], s[m])
    BY <1>7, Zenon DEF ArrangedAt
  <2>2. 0 \in 0 .. n /\ \A m \in 1 .. n : m \in 0 .. n /\ m # 0
    BY <1>1
  <2>. QED
    BY <2>1, <2>2, Zenon
<1>. DEFINE P == {m \in Nat : g[m] \in Seq(T)}
<1>10. 0 \in P
  BY <1>1, <1>9
<1>11. ASSUME NEW m \in 1 .. n, m - 1 \in P PROVE m \in P
  <2>1. g[m - 1] \in Seq(T) /\ s[m] \in T
    BY <1>1, <1>11
  <2>2. Placed(g[m - 1], s[m]) \in Seq(T)
    BY <2>1, PlacedIsSeq
  <2>3. g[m] \in Seq(T)
    BY <1>9, <2>2
  <2>. QED
    BY <2>3
<1>. HIDE DEF P
<1>12. \A k \in 0 .. n : k \in P
  BY <1>1, <1>10, <1>11, UpTo
<1>. QED
  BY <1>1, <1>8, <1>12 DEF P

LEMMA VisibleIsSeq ==
  ASSUME NEW r, r.doc \in Docs
  PROVE  Visible(r) \in Seq(Range(r.doc.blocks))
<1>. DEFINE s == r.doc.blocks
            S == {i \in DOMAIN s : InLayer(s[i], r.layer, r.surface) /\ BranchTaken(s[i], r.picks)}
            T == Range(s)
            kept == Among(s, S)
<1>1. s \in Seq(T)
  BY ReaderAssumption
<1>2. Visible(r) = IF r.surface = "slides" \/ r.wide THEN kept ELSE Arranged(kept)
  BY DEF Visible
<1>. HIDE DEF s, S, T
<1>3. kept \in Seq(T)
  BY <1>1, AmongIsSeq
<1>. HIDE DEF kept
<1>4. Arranged(kept) \in Seq(T)
  BY <1>3, ArrangedIsSeq
<1>5. Visible(r) \in Seq(T)
  BY <1>2, <1>3, <1>4
<1>. QED
  BY <1>5 DEF s, T

LEMMA EveryBlockRendered ==
  ASSUME rd.doc \in Docs
  PROVE  AllRendered
<1>1. PICK T : Visible(rd) \in Seq(T)
  BY VisibleIsSeq
<1>2. Grouped(Visible(rd)) \in Seq(Seq(T)) /\ FlattenSeq(Grouped(Visible(rd))) = Visible(rd)
  BY <1>1, GroupedKeeps
<1>3. FlattenSeq(ItemsOf(Sections(Grouped(Visible(rd))))) = Grouped(Visible(rd))
  BY <1>2, SectionsKeep
<1>4. ItemsOf(Page(rd)) = ItemsOf(Sections(Grouped(Visible(rd))))
  BY DEF Page
<1>5. FlattenSeq(FlattenSeq(ItemsOf(Page(rd)))) = Visible(rd)
  BY <1>2, <1>3, <1>4, Zenon
<1>. QED
  BY <1>5, Zenon DEF AllRendered, ItemsOf

LEMMA EveryPairRuns ==
  ASSUME rd.doc \in Docs
  PROVE  PairCanRun
<1>1. PICK T : Visible(rd) \in Seq(T)
  BY VisibleIsSeq
<1>. DEFINE q == Grouped(Visible(rd))
<1>2. q \in Seq(Seq(T)) /\ \A i \in 1 .. Len(q) : ItemOk(q[i])
  BY <1>1, GroupedKeeps
<1>. SUFFICES ASSUME NEW item \in Range(q), IsPair(item)
              PROVE  ActiveVariants(item, rd) # <<>>
  BY Zenon DEF PairCanRun
<1>. HIDE DEF q
<1>3. PICK p \in Seq(T) : p = item /\ Len(p) = 2 /\ Twins(p[1], p[2])
  <2>1. PICK i \in 1 .. Len(q) : q[i] = item
    BY <1>2 DEF Range
  <2>2. q[i] \in Seq(T) /\ ItemOk(q[i])
    BY <1>2
  <2>3. item \in Seq(T) /\ ItemOk(item)
    BY <2>1, <2>2
  <2>4. Len(item) = 2 /\ Twins(item[1], item[2])
    <3>. HIDE DEF q
    <3>1. Len(item) = 2 /\ 1 # 2
      BY DEF IsPair
    <3>. QED
      BY <2>3, <3>1 DEF ItemOk
  <2>. QED
    BY <2>3, <2>4
<1>. DEFINE S == {k \in DOMAIN p : LangOf(p[k]) # "r" \/ rd.hasR}
<1>4. \E k \in 1 .. Len(p) : k \in S
  <2>1. LangOf(p[1]) # "r" \/ LangOf(p[2]) # "r"
    BY <1>3 DEF Twins
  <2>2. DOMAIN p = 1 .. Len(p) /\ 1 \in 1 .. Len(p) /\ 2 \in 1 .. Len(p)
    BY <1>3
  <2>. QED
    BY <2>1, <2>2
<1>5. Among(p, S) # <<>>
  <2>. HIDE DEF S
  <2>. QED
    BY <1>4, AmongIsSeq
<1>6. Variants(p, rd) # <<>>
  BY <1>5 DEF Variants
<1>7. ActiveVariants(p, rd) # <<>>
  BY <1>6 DEF ActiveVariants
<1>. QED
  BY <1>3, <1>7

-----------------------------------------------------------------------------
(***************************************************************************)
(* The resets that fired, and the slide.                                   *)
(***************************************************************************)

Fields == {"doc", "surface", "layer", "wide", "picks", "active", "pinned", "fired",
           "toggled", "slide", "lang", "hasR"}

IsReader(r) ==
    DOMAIN r = Fields /\ r = [f \in Fields |-> r[f]] /\ r.doc \in Docs /\ r.slide \in Nat

\* A reset has fired when the page remembers that it did.
FiredOnce == resets = [i \in DOMAIN resets |-> IF i \in rd.fired THEN 1 ELSE 0]

ReaderInv == IsReader(rd) /\ FiredOnce /\ SlideExists

\* The slides are those of what is seen, whatever else there is.
LEMMA SlidesOfSame ==
  ASSUME NEW r, NEW q, r.doc = q.doc, r.surface = q.surface, r.layer = q.layer,
         r.wide = q.wide, r.picks = q.picks
  PROVE  Slides(r) = Slides(q)
<1>1. Visible(r) = Visible(q)
  BY DEF Visible
<1>. QED
  BY <1>1 DEF Slides

LEMMA SlidesAreNat ==
  ASSUME NEW r, r.doc \in Docs
  PROVE  Slides(r) \in Nat
<1>1. PICK T : Visible(r) \in Seq(T)
  BY VisibleIsSeq
<1>2. PICK s \in Seq(T) : s = Visible(r)
  BY <1>1
<1>. DEFINE shown == {i \in DOMAIN s : ~Pinnable(s[i]) /\ s[i].kind \notin
                     {"state", "state_reset", "dataset", "parse_error"}}
            pinned == {i \in DOMAIN s : Pinnable(s[i])}
<1>3. shown \subseteq 1 .. Len(s) /\ pinned \subseteq 1 .. Len(s) /\ IsFiniteSet(1 .. Len(s))
  BY FS_Interval
<1>4. Slides(r) = LET flow == Cardinality(shown) + (IF r.doc.misconceptions THEN 1 ELSE 0)
                  IN  IF flow = 0 THEN Cardinality(pinned) ELSE flow
  BY <1>2, Zenon DEF Slides
<1>. HIDE DEF shown, pinned
<1>5. Cardinality(shown) \in Nat /\ Cardinality(pinned) \in Nat
  BY <1>3, FS_Subset, FS_CardinalityType
<1>. QED
  BY <1>4, <1>5

LEMMA ClampedExists ==
  ASSUME NEW r, Slides(r) \in Nat, r.slide \in Nat
  PROVE  /\ Clamped(r) \in Nat
         /\ r.surface = "slides" /\ Slides(r) > 0 => Clamped(r) < Slides(r)
<1>1. PICK n \in Nat, k \in Nat : n = Slides(r) /\ k = r.slide
  OBVIOUS
<1>2. Clamped(r) = IF r.surface = "slides" /\ n > 0 /\ k >= n THEN n - 1 ELSE k
  BY <1>1 DEF Clamped
<1>. QED
  BY <1>1, <1>2

\* A render keeps what has fired and the slide in step, from a state that
\* stays on its surface and from one that has left it.
LEMMA ShownKeeps ==
  ASSUME ReaderInv, NEW r, IsReader(r), Shown(r),
         \/ r.surface = rd.surface /\ r.fired = rd.fired
         \/ r.surface # rd.surface /\ r.fired = {} /\ r.active = ""
  PROVE  ReaderInv'
<1>. DEFINE firing == {b.id : b \in Unfired(r)}
<1>1. /\ rd'.doc = r.doc /\ rd'.surface = r.surface /\ rd'.layer = r.layer
      /\ rd'.wide = r.wide /\ rd'.picks = r.picks
      /\ rd'.fired = r.fired \cup firing /\ rd'.slide = Clamped(r)
      /\ DOMAIN rd' = Fields /\ rd' = [f \in Fields |-> rd'[f]]
  BY DEF Shown, IsReader, Fields
<1>2. Slides(rd') = Slides(r) /\ Slides(r) \in Nat
  BY <1>1, SlidesOfSame, SlidesAreNat DEF IsReader
<1>3. Clamped(r) \in Nat /\ (r.surface = "slides" /\ Slides(r) > 0 => Clamped(r) < Slides(r))
  BY <1>2, ClampedExists DEF IsReader
<1>4. IsReader(rd') /\ SlideExists'
  BY <1>1, <1>2, <1>3 DEF IsReader, SlideExists
<1>5. FiredOnce'
  <2>1. resets' = [i \in DOMAIN resets |->
           IF r.surface # rd.surface THEN 0
           ELSE IF i \in firing THEN resets[i] + 1 ELSE resets[i]]
    BY DEF Shown
  <2>2. CASE r.surface = rd.surface /\ r.fired = rd.fired
    <3>1. firing \cap r.fired = {}
      BY DEF Unfired
    <3>2. \A i \in DOMAIN resets : resets[i] = IF i \in rd.fired THEN 1 ELSE 0
      BY DEF ReaderInv, FiredOnce
    <3>. HIDE DEF firing
    <3>3. \A i \in DOMAIN resets : resets'[i] = IF i \in rd'.fired THEN 1 ELSE 0
      BY <1>1, <2>1, <2>2, <3>1, <3>2
    <3>4. DOMAIN resets' = DOMAIN resets
      BY <2>1
    <3>. QED
      BY <2>1, <3>3, <3>4 DEF FiredOnce
  <2>3. CASE r.surface # rd.surface /\ r.fired = {} /\ r.active = ""
    <3>1. firing = {}
      BY <2>3 DEF Unfired
    <3>2. rd'.fired = {}
      BY <1>1, <2>3, <3>1
    <3>3. resets' = [i \in DOMAIN resets |-> 0]
      BY <2>1, <2>3
    <3>. QED
      BY <3>2, <3>3 DEF FiredOnce
  <2>. QED
    BY <2>2, <2>3
<1>. QED
  BY <1>4, <1>5 DEF ReaderInv

LEMMA ReaderStart == ReaderInit => ReaderInv
<1>. SUFFICES ASSUME ReaderInit PROVE ReaderInv
  OBVIOUS
<1>1. PICK d \in Docs, w \in BOOLEAN, l \in {"intuition", "both"} :
        LET top == [doc |-> d, surface |-> "scroll", layer |-> l, wide |-> w,
                    picks |-> [a \in Decisions(d) |-> NoPick],
                    active |-> "", pinned |-> "", fired |-> {}, toggled |-> {},
                    slide |-> 0, lang |-> "python", hasR |-> FALSE]
        IN  /\ rd = [top EXCEPT !.pinned = Pinned(top)]
            /\ resets = [i \in Ids(d) |-> 0]
  BY DEF ReaderInit
<1>2. DOMAIN rd = Fields /\ rd.doc \in Docs /\ rd.slide = 0 /\ rd.surface = "scroll" /\ rd.fired = {}
  BY <1>1 DEF Fields
<1>3. rd = [f \in Fields |-> rd[f]]
  BY <1>1, <1>2
<1>. QED
  BY <1>1, <1>2, <1>3 DEF ReaderInv, IsReader, FiredOnce, SlideExists

LEMMA ReaderStep == ReaderInv /\ [ReaderNext]_readerVars => ReaderInv'
<1>1. ASSUME ReaderInv, NEW l \in {"intuition", "formal", "both"}, SetLayer(l)
      PROVE  ReaderInv'
  <2>. DEFINE r == [rd EXCEPT !.layer = l]
  <2>1. IsReader(r) /\ r.surface = rd.surface /\ r.fired = rd.fired
    BY <1>1 DEF ReaderInv, IsReader, Fields
  <2>2. Shown(r)
    BY <1>1 DEF SetLayer
  <2>. HIDE DEF r
  <2>. QED
    BY <1>1, <2>1, <2>2, ShownKeeps
<1>2. ASSUME ReaderInv, Resize
      PROVE  ReaderInv'
  <2>. DEFINE r == [rd EXCEPT !.wide = ~@]
  <2>1. IsReader(r) /\ r.surface = rd.surface /\ r.fired = rd.fired
    BY <1>2 DEF ReaderInv, IsReader, Fields
  <2>2. Shown(r)
    BY <1>2 DEF Resize
  <2>. HIDE DEF r
  <2>. QED
    BY <1>2, <2>1, <2>2, ShownKeeps
<1>3. ASSUME ReaderInv, NEW a \in Sentinels(rd), ScrollTo(a)
      PROVE  ReaderInv'
  <2>. DEFINE r == [rd EXCEPT !.active = a]
  <2>1. IsReader(r) /\ r.surface = rd.surface /\ r.fired = rd.fired
    BY <1>3 DEF ReaderInv, IsReader, Fields
  <2>2. Shown(r)
    BY <1>3 DEF ScrollTo
  <2>. HIDE DEF r
  <2>. QED
    BY <1>3, <2>1, <2>2, ShownKeeps
<1>4. ASSUME ReaderInv, NEW a \in DOMAIN rd.picks, NEW o \in Choice \cup {NoPick}, Pick(a, o)
      PROVE  ReaderInv'
  <2>. DEFINE r == [rd EXCEPT !.picks[a] = o]
  <2>1. IsReader(r) /\ r.surface = rd.surface /\ r.fired = rd.fired
    BY <1>4 DEF ReaderInv, IsReader, Fields
  <2>2. Shown(r)
    BY <1>4 DEF Pick
  <2>. HIDE DEF r
  <2>. QED
    BY <1>4, <2>1, <2>2, ShownKeeps
<1>5. ASSUME ReaderInv, NEW key \in RunKeys(rd), ToggleRun(key)
      PROVE  ReaderInv'
  <2>1. rd' = [rd EXCEPT !.toggled = SymDiff(@, {key})] /\ resets' = resets /\ rd.surface = "scroll"
    BY <1>5 DEF ToggleRun
  <2>2. IsReader(rd') /\ rd'.surface = "scroll" /\ rd'.fired = rd.fired
    BY <1>5, <2>1 DEF ReaderInv, IsReader, Fields
  <2>. QED
    BY <1>5, <2>1, <2>2 DEF ReaderInv, FiredOnce, SlideExists
<1>6. ASSUME ReaderInv, NEW s \in {"scroll", "slides"}, ChangeSurface(s)
      PROVE  ReaderInv'
  <2>. DEFINE r == Unscrolled([rd EXCEPT !.surface = s])
  <2>1. IsReader(r) /\ r.surface # rd.surface /\ r.fired = {} /\ r.active = ""
    BY <1>6 DEF ReaderInv, IsReader, Fields, Unscrolled, ChangeSurface
  <2>2. Shown(r)
    BY <1>6 DEF ChangeSurface
  <2>. HIDE DEF r
  <2>. QED
    BY <1>6, <2>1, <2>2, ShownKeeps
<1>7. ASSUME ReaderInv, NEW step \in {-1, 1}, Turn(step)
      PROVE  ReaderInv'
  <2>. DEFINE r == [rd EXCEPT !.slide = @ + step]
  <2>1. IsReader(r) /\ r.surface = rd.surface /\ r.fired = rd.fired
    <3>1. rd.slide + step \in Nat
      BY <1>7 DEF ReaderInv, IsReader, Turn, CanPrev
    <3>. QED
      BY <1>7, <3>1 DEF ReaderInv, IsReader, Fields
  <2>2. Shown(r)
    BY <1>7 DEF Turn
  <2>. HIDE DEF r
  <2>. QED
    BY <1>7, <2>1, <2>2, ShownKeeps
<1>8. ASSUME ReaderInv, NEW i \in 0 .. Slides(rd), Goto(i)
      PROVE  ReaderInv'
  <2>. DEFINE r == [rd EXCEPT !.slide = i]
  <2>1. IsReader(r) /\ r.surface = rd.surface /\ r.fired = rd.fired
    BY <1>8 DEF ReaderInv, IsReader, Fields
  <2>2. Shown(r)
    BY <1>8 DEF Goto
  <2>. HIDE DEF r
  <2>. QED
    BY <1>8, <2>1, <2>2, ShownKeeps
<1>9. ASSUME ReaderInv, NEW l \in {"python", "r"}, SetLang(l)
      PROVE  ReaderInv'
  <2>. DEFINE r == [rd EXCEPT !.lang = l]
  <2>1. IsReader(r) /\ r.surface = rd.surface /\ r.fired = rd.fired
    BY <1>9 DEF ReaderInv, IsReader, Fields
  <2>2. Shown(r)
    BY <1>9 DEF SetLang
  <2>. HIDE DEF r
  <2>. QED
    BY <1>9, <2>1, <2>2, ShownKeeps
<1>10. ASSUME ReaderInv, Capable
       PROVE  ReaderInv'
  <2>. DEFINE r == [rd EXCEPT !.hasR = TRUE]
  <2>1. IsReader(r) /\ r.surface = rd.surface /\ r.fired = rd.fired
    BY <1>10 DEF ReaderInv, IsReader, Fields
  <2>2. Shown(r)
    BY <1>10 DEF Capable
  <2>. HIDE DEF r
  <2>. QED
    BY <1>10, <2>1, <2>2, ShownKeeps
<1>11. ASSUME ReaderInv, UNCHANGED readerVars
       PROVE  ReaderInv'
  <2>1. rd' = rd /\ resets' = resets
    BY <1>11 DEF readerVars
  <2>2. IsReader(rd)' /\ FiredOnce'
    BY <1>11, <2>1 DEF ReaderInv, IsReader, FiredOnce
  <2>3. Slides(rd') = Slides(rd)
    BY <2>1
  <2>4. SlideExists'
    BY <1>11, <2>1, <2>3 DEF ReaderInv, SlideExists
  <2>. QED
    BY <2>2, <2>4 DEF ReaderInv
<1>. QED
  BY <1>1, <1>2, <1>3, <1>4, <1>5, <1>6, <1>7, <1>8, <1>9, <1>10, <1>11 DEF ReaderNext

(***************************************************************************)
(* Whatever the documents, what a page renders, run by run and pair by     *)
(* pair, is the visible blocks in their order (groupCodePairs and the runs *)
(* of ScrollReader); every pair has a variant to run; no state_reset fires *)
(* twice in a mount; and the slide that is shown exists.                   *)
(***************************************************************************)
THEOREM ReaderAlwaysHolds == ReaderSpec => []ReaderHolds
<1>1. ReaderInv => ReaderHolds
  <2>. SUFFICES ASSUME ReaderInv PROVE ReaderHolds
    OBVIOUS
  <2>1. ResetOnce
    BY DEF ReaderInv, FiredOnce, ResetOnce
  <2>. QED
    BY <2>1, EveryBlockRendered, EveryPairRuns DEF ReaderInv, IsReader, ReaderHolds
<1>. QED
  BY <1>1, ReaderStart, ReaderStep, PTL DEF ReaderSpec

-----------------------------------------------------------------------------
(***************************************************************************)
(* The diff: tables of two indices, each entry from its three neighbours.  *)
(***************************************************************************)

Tabled(g, m, n, base, step) ==
    \A i \in 0 .. m, j \in 0 .. n :
       g[<<i, j>>] = IF i = 0 \/ j = 0 THEN base[<<i, j>>]
                 ELSE step[<<i, j>>][<<g[<<i - 1, j - 1>>], g[<<i - 1, j>>], g[<<i, j - 1>>]>>]

\* The row s after the row r of a table.
RowAfter(s, r, n, first, step) ==
    s[0] = first /\ \A j \in 1 .. n : s[j] = step[j][<<r[j - 1], r[j], s[j - 1]>>]

LEMMA RowExists ==
  ASSUME NEW n \in Nat, NEW X, NEW first \in X,
         NEW step \in [1 .. n -> [X \X X \X X -> X]], NEW r \in [0 .. n -> X]
  PROVE  \E s \in [0 .. n -> X] : RowAfter(s, r, n, first, step)
<1>. DEFINE next == [j \in 1 .. n |-> [x \in X |-> step[j][<<r[j - 1], r[j], x>>]]]
<1>1. ASSUME NEW j \in 1 .. n, NEW x \in X PROVE step[j][<<r[j - 1], r[j], x>>] \in X
  <2>1. j - 1 \in 0 .. n /\ j \in 0 .. n
    OBVIOUS
  <2>2. <<r[j - 1], r[j], x>> \in X \X X \X X
    BY <2>1
  <2>. QED
    BY <2>2
<1>2. next \in [1 .. n -> [X -> X]]
  BY <1>1
<1>. HIDE DEF next
<1>3. PICK s \in [0 .. n -> X] : Recurs(s, n, first, next)
  BY <1>2, Recursion
<1>4. ASSUME NEW j \in 1 .. n PROVE s[j] = step[j][<<r[j - 1], r[j], s[j - 1]>>]
  <2>1. j - 1 \in 0 .. n
    OBVIOUS
  <2>2. s[j - 1] \in X
    BY <2>1
  <2>. QED
    BY <1>3, <2>2 DEF Recurs, next
<1>. QED
  BY <1>3, <1>4 DEF RowAfter, Recurs

LEMMA TableExists ==
  ASSUME NEW m \in Nat, NEW n \in Nat, NEW X,
         NEW base \in [(0 .. m) \X (0 .. n) -> X],
         NEW step \in [(1 .. m) \X (1 .. n) -> [X \X X \X X -> X]]
  PROVE  \E g \in [(0 .. m) \X (0 .. n) -> X] : Tabled(g, m, n, base, step)
<1>. DEFINE Y == [0 .. n -> X]
            inRow(i) == [j \in 1 .. n |-> step[<<i, j>>]]
            after(i, r) == CHOOSE s \in Y : RowAfter(s, r, n, base[<<i, 0>>], inRow(i))
            next == [i \in 1 .. m |-> [r \in Y |-> after(i, r)]]
            first == [j \in 0 .. n |-> base[<<0, j>>]]
<1>1. ASSUME NEW i \in 1 .. m, NEW r \in Y
      PROVE  after(i, r) \in Y /\ RowAfter(after(i, r), r, n, base[<<i, 0>>], inRow(i))
  <2>1. <<i, 0>> \in (0 .. m) \X (0 .. n) /\ \A j \in 1 .. n : <<i, j>> \in (1 .. m) \X (1 .. n)
    OBVIOUS
  <2>2. base[<<i, 0>>] \in X /\ inRow(i) \in [1 .. n -> [X \X X \X X -> X]]
    BY <2>1
  <2>. HIDE DEF inRow
  <2>3. \E s \in Y : RowAfter(s, r, n, base[<<i, 0>>], inRow(i))
    BY <2>2, RowExists
  <2>. QED
    BY <2>3
<1>2. next \in [1 .. m -> [Y -> Y]]
  <2>. HIDE DEF after, Y
  <2>. QED
    BY <1>1
<1>3. first \in Y
  <2>1. \A j \in 0 .. n : <<0, j>> \in (0 .. m) \X (0 .. n)
    OBVIOUS
  <2>. QED
    BY <2>1
<1>4. PICK h \in [0 .. m -> Y] : Recurs(h, m, first, next)
  <2>. HIDE DEF next, first, Y
  <2>. QED
    BY <1>2, <1>3, Recursion
<1>. DEFINE g == [p \in (0 .. m) \X (0 .. n) |-> h[p[1]][p[2]]]
<1>5. g \in [(0 .. m) \X (0 .. n) -> X]
  OBVIOUS
<1>6. \A i \in 0 .. m, j \in 0 .. n : g[<<i, j>>] = h[i][j]
  OBVIOUS
<1>. HIDE DEF g
<1>7. ASSUME NEW i \in 0 .. m, NEW j \in 0 .. n
      PROVE  g[<<i, j>>] = IF i = 0 \/ j = 0 THEN base[<<i, j>>]
                       ELSE step[<<i, j>>][<<g[<<i - 1, j - 1>>], g[<<i - 1, j>>], g[<<i, j - 1>>]>>]
  <2>1. CASE i = 0
    BY <1>4, <1>6, <2>1 DEF Recurs
  <2>2. CASE i # 0
    <3>1. i \in 1 .. m /\ i - 1 \in 0 .. m
      BY <2>2
    <3>2. h[i - 1] \in Y
      BY <1>4, <3>1
    <3>3. h[i] = after(i, h[i - 1])
      <4>. HIDE DEF after, Y
      <4>. QED
        BY <1>4, <3>1, <3>2 DEF Recurs, next
    <3>4. RowAfter(h[i], h[i - 1], n, base[<<i, 0>>], inRow(i))
      <4>. HIDE DEF after, Y, inRow
      <4>. QED
        BY <1>1, <3>1, <3>2, <3>3
    <3>5. CASE j = 0
      <4>1. h[i][0] = base[<<i, 0>>]
        BY <3>4 DEF RowAfter
      <4>. QED
        BY <1>6, <3>5, <4>1
    <3>6. CASE j # 0
      <4>1. j \in 1 .. n /\ j - 1 \in 0 .. n
        BY <3>6
      <4>2. h[i][j] = inRow(i)[j][<<h[i - 1][j - 1], h[i - 1][j], h[i][j - 1]>>]
        BY <3>4, <4>1 DEF RowAfter
      <4>3. inRow(i)[j] = step[<<i, j>>]
        BY <4>1
      <4>. HIDE DEF inRow
      <4>4. /\ g[<<i, j>>] = h[i][j] /\ g[<<i - 1, j - 1>>] = h[i - 1][j - 1] /\ g[<<i - 1, j>>] = h[i - 1][j]
            /\ g[<<i, j - 1>>] = h[i][j - 1]
        BY <1>6, <3>1, <4>1
      <4>. QED
        BY <2>2, <3>6, <4>2, <4>3, <4>4
    <3>. QED
      BY <3>5, <3>6
  <2>. QED
    BY <2>1, <2>2
<1>. QED
  BY <1>5, <1>7 DEF Tabled

\* What holds along the two edges and is passed on from the three neighbours
\* holds of all entries.
LEMMA UpToTable ==
  ASSUME NEW m \in Nat, NEW n \in Nat, NEW P,
         \A i \in 0 .. m, j \in 0 .. n : i = 0 \/ j = 0 => <<i, j>> \in P,
         \A i \in 1 .. m, j \in 1 .. n :
            <<i - 1, j - 1>> \in P /\ <<i - 1, j>> \in P /\ <<i, j - 1>> \in P => <<i, j>> \in P
  PROVE  \A i \in 0 .. m, j \in 0 .. n : <<i, j>> \in P
<1>. DEFINE Q == {i \in 0 .. m : \A j \in 0 .. n : <<i, j>> \in P}
<1>1. 0 \in Q
  OBVIOUS
<1>2. ASSUME NEW i \in 1 .. m, i - 1 \in Q PROVE i \in Q
  <2>. DEFINE O == {j \in 0 .. n : <<i, j>> \in P}
  <2>1. i \in 0 .. m /\ 0 \in 0 .. n
    OBVIOUS
  <2>2. 0 \in O
    BY <2>1
  <2>3. ASSUME NEW j \in 1 .. n, j - 1 \in O PROVE j \in O
    <3>1. j \in 0 .. n /\ j - 1 \in 0 .. n
      OBVIOUS
    <3>. QED
      BY <1>2, <2>3, <3>1
  <2>4. \A j \in 0 .. n : j \in O
    <3>. HIDE DEF O
    <3>. QED
      BY <2>2, <2>3, UpTo
  <2>. QED
    BY <2>1, <2>4
<1>3. \A i \in 0 .. m : i \in Q
  <2>. HIDE DEF Q
  <2>. QED
    BY <1>1, <1>2, UpTo
<1>. QED
  BY <1>3

-----------------------------------------------------------------------------
(***************************************************************************)
(* No common reading of two texts is longer than its entry of the table:   *)
(* one that uses both last lines is one more than a reading without them,  *)
(* and any other is one of a neighbour.                                    *)
(***************************************************************************)

LcsEntry(a, b, g, p) ==
    LET i == p[1]  j == p[2] IN
    IF i = 0 \/ j = 0 THEN 0
    ELSE IF a[i] = b[j] THEN g[<<i - 1, j - 1>>] + 1
    ELSE IF g[<<i - 1, j>>] >= g[<<i, j - 1>>] THEN g[<<i - 1, j>>]
    ELSE g[<<i, j - 1>>]

LcsAt(a, b, g) == g = [p \in (0 .. Len(a)) \X (0 .. Len(b)) |-> LcsEntry(a, b, g, p)]

\* The table, entry by entry.
LcsFilled(a, b, lcs) ==
    /\ lcs \in [(0 .. Len(a)) \X (0 .. Len(b)) -> Nat]
    /\ \A i \in 0 .. Len(a), j \in 0 .. Len(b) :
         lcs[<<i, j>>] = IF i = 0 \/ j = 0 THEN 0
                         ELSE IF a[i] = b[j] THEN lcs[<<i - 1, j - 1>>] + 1
                         ELSE IF lcs[<<i - 1, j>>] >= lcs[<<i, j - 1>>] THEN lcs[<<i - 1, j>>]
                         ELSE lcs[<<i, j - 1>>]

LEMMA LcsUnfolds ==
  ASSUME NEW T, NEW a \in Seq(T), NEW b \in Seq(T)
  PROVE  LcsFilled(a, b, LcsTable(a, b))
<1>. DEFINE m == Len(a)
            n == Len(b)
            base == [p \in (0 .. m) \X (0 .. n) |-> 0]
            step == [p \in (1 .. m) \X (1 .. n) |-> [t \in Nat \X Nat \X Nat |->
                       IF a[p[1]] = b[p[2]] THEN t[1] + 1
                       ELSE IF t[2] >= t[3] THEN t[2] ELSE t[3]]]
<1>1. m \in Nat /\ n \in Nat
  OBVIOUS
<1>2. base \in [(0 .. m) \X (0 .. n) -> Nat]
  OBVIOUS
<1>3. step \in [(1 .. m) \X (1 .. n) -> [Nat \X Nat \X Nat -> Nat]]
  OBVIOUS
<1>. HIDE DEF base, step
<1>4. PICK g \in [(0 .. m) \X (0 .. n) -> Nat] : Tabled(g, m, n, base, step)
  <2>. HIDE DEF m, n
  <2>. QED
    BY <1>1, <1>2, <1>3, TableExists
<1>5. ASSUME NEW i \in 0 .. m, NEW j \in 0 .. n
      PROVE  g[<<i, j>>] = IF i = 0 \/ j = 0 THEN 0
                       ELSE IF a[i] = b[j] THEN g[<<i - 1, j - 1>>] + 1
                       ELSE IF g[<<i - 1, j>>] >= g[<<i, j - 1>>] THEN g[<<i - 1, j>>]
                       ELSE g[<<i, j - 1>>]
  <2>1. CASE i = 0 \/ j = 0
    <3>1. <<i, j>> \in (0 .. m) \X (0 .. n)
      OBVIOUS
    <3>2. base[<<i, j>>] = 0
      BY <3>1 DEF base
    <3>3. g[<<i, j>>] = base[<<i, j>>]
      <4>. HIDE DEF m, n
      <4>. QED
        BY <1>4, <2>1 DEF Tabled
    <3>. QED
      BY <2>1, <3>2, <3>3
  <2>2. CASE i # 0 /\ j # 0
    <3>1. i \in 1 .. m /\ j \in 1 .. n /\ i - 1 \in 0 .. m /\ j - 1 \in 0 .. n
      BY <2>2
    <3>. DEFINE t == <<g[<<i - 1, j - 1>>], g[<<i - 1, j>>], g[<<i, j - 1>>]>>
    <3>2. t \in Nat \X Nat \X Nat /\ t[1] = g[<<i - 1, j - 1>>] /\ t[2] = g[<<i - 1, j>>] /\ t[3] = g[<<i, j - 1>>]
      BY <1>4, <3>1
    <3>. HIDE DEF t
    <3>3. g[<<i, j>>] = step[<<i, j>>][t]
      BY <1>4, <2>2 DEF Tabled, t
    <3>4. step[<<i, j>>][t] = IF a[i] = b[j] THEN t[1] + 1 ELSE IF t[2] >= t[3] THEN t[2] ELSE t[3]
      BY <3>1, <3>2 DEF step
    <3>. QED
      BY <2>2, <3>2, <3>3, <3>4
  <2>. QED
    BY <2>1, <2>2
<1>6. LcsAt(a, b, g)
  <2>1. ASSUME NEW p \in (0 .. m) \X (0 .. n)
        PROVE  g[p] = LcsEntry(a, b, g, p)
    <3>1. PICK i \in 0 .. m, j \in 0 .. n : p = <<i, j>>
      OBVIOUS
    <3>2. p[1] = i /\ p[2] = j
      BY <3>1
    <3>. HIDE DEF m, n
    <3>. QED
      BY <1>5, <3>1, <3>2 DEF LcsEntry
  <2>2. g = [p \in (0 .. m) \X (0 .. n) |-> LcsEntry(a, b, g, p)]
    <3>. HIDE DEF m, n
    <3>. QED
      BY <1>4, <2>1
  <2>. QED
    BY <2>2 DEF LcsAt
<1>. DEFINE lcs == CHOOSE h : LcsAt(a, b, h)
<1>7. LcsTable(a, b) = lcs
  BY DEF LcsTable, LcsAt, LcsEntry
<1>8. LcsAt(a, b, lcs)
  BY <1>6
<1>. HIDE DEF lcs
<1>9. \A i \in 0 .. m, j \in 0 .. n :
        lcs[<<i, j>>] = IF i = 0 \/ j = 0 THEN 0
                    ELSE IF a[i] = b[j] THEN lcs[<<i - 1, j - 1>>] + 1
                    ELSE IF lcs[<<i - 1, j>>] >= lcs[<<i, j - 1>>] THEN lcs[<<i - 1, j>>]
                    ELSE lcs[<<i, j - 1>>]
  <2>1. ASSUME NEW i \in 0 .. m, NEW j \in 0 .. n PROVE lcs[<<i, j>>] = LcsEntry(a, b, lcs, <<i, j>>)
    <3>1. <<i, j>> \in (0 .. Len(a)) \X (0 .. Len(b))
      OBVIOUS
    <3>. QED
      BY <1>8, <3>1 DEF LcsAt
  <2>. QED
    BY <2>1 DEF LcsEntry
<1>10. DOMAIN lcs = (0 .. m) \X (0 .. n) /\ lcs = [p \in DOMAIN lcs |-> lcs[p]]
  BY <1>8 DEF LcsAt
<1>. DEFINE P == {p \in (0 .. m) \X (0 .. n) : lcs[p] \in Nat}
<1>11. \A i \in 0 .. m, j \in 0 .. n : <<i, j>> \in P
  <2>. HIDE DEF m, n
  <2>1. \A i \in 0 .. m, j \in 0 .. n : i = 0 \/ j = 0 => <<i, j>> \in P
    <3>1. ASSUME NEW i \in 0 .. m, NEW j \in 0 .. n, i = 0 \/ j = 0 PROVE <<i, j>> \in P
      <4>1. lcs[<<i, j>>] = 0
        BY <1>9, <3>1
      <4>. QED
        BY <4>1
    <3>. QED
      BY <3>1
  <2>2. ASSUME NEW i \in 1 .. m, NEW j \in 1 .. n,
               <<i - 1, j - 1>> \in P, <<i - 1, j>> \in P, <<i, j - 1>> \in P
        PROVE  <<i, j>> \in P
    <3>1. i \in 0 .. m /\ j \in 0 .. n /\ i # 0 /\ j # 0
      BY <1>1
    <3>2. lcs[<<i - 1, j - 1>>] \in Nat /\ lcs[<<i - 1, j>>] \in Nat /\ lcs[<<i, j - 1>>] \in Nat
      BY <2>2
    <3>3. PICK u \in Nat, v \in Nat, w \in Nat :
             lcs[<<i - 1, j - 1>>] = u /\ lcs[<<i - 1, j>>] = v /\ lcs[<<i, j - 1>>] = w
      BY <3>2
    <3>4. lcs[<<i, j>>] = IF a[i] = b[j] THEN u + 1 ELSE IF v >= w THEN v ELSE w
      BY <1>9, <3>1, <3>3
    <3>5. lcs[<<i, j>>] \in Nat
      BY <3>4
    <3>. QED
      BY <3>1, <3>5
  <2>. HIDE DEF P
  <2>. QED
    BY <1>1, <2>1, <2>2, UpToTable
<1>12. lcs \in [(0 .. m) \X (0 .. n) -> Nat]
  BY <1>10, <1>11
<1>13. LcsFilled(a, b, lcs)
  BY <1>9, <1>12 DEF LcsFilled
<1>. QED
  BY <1>7, <1>13

\* The first i lines of a and the first j of b have a common reading of k lines.
CommonOf(a, b, i, j, k, f, g) ==
    /\ f \in [1 .. k -> 1 .. i] /\ g \in [1 .. k -> 1 .. j]
    /\ Increasing(f) /\ Increasing(g)
    /\ \A x \in 1 .. k : a[f[x]] = b[g[x]]

Common(a, b, i, j, k) == \E f, g : CommonOf(a, b, i, j, k, f, g)

\* One that does not use the last line of a.
LEMMA ShorterLeft ==
  ASSUME NEW a, NEW b, NEW i \in Nat \ {0}, NEW j \in Nat, NEW k \in Nat \ {0}, NEW f, NEW g,
         CommonOf(a, b, i, j, k, f, g), f[k] # i
  PROVE  Common(a, b, i - 1, j, k)
<1>1. ASSUME NEW x \in 1 .. k PROVE f[x] \in 1 .. i - 1
  <2>1. k \in 1 .. k /\ DOMAIN f = 1 .. k
    BY DEF CommonOf
  <2>2. f[x] \in 1 .. i /\ f[k] \in 1 .. i
    BY <2>1 DEF CommonOf
  <2>3. x = k \/ f[x] < f[k]
    BY <2>1 DEF CommonOf, Increasing
  <2>4. PICK u \in 1 .. i, v \in 1 .. i : u = f[x] /\ v = f[k]
    BY <2>2
  <2>5. u \in 1 .. i - 1
    BY <2>3, <2>4
  <2>. QED
    BY <2>4, <2>5
<1>2. f \in [1 .. k -> 1 .. i - 1]
  BY <1>1 DEF CommonOf
<1>3. CommonOf(a, b, i - 1, j, k, f, g)
  BY <1>2 DEF CommonOf
<1>. QED
  BY <1>3 DEF Common

LEMMA ShorterRight ==
  ASSUME NEW a, NEW b, NEW i \in Nat, NEW j \in Nat \ {0}, NEW k \in Nat \ {0}, NEW f, NEW g,
         CommonOf(a, b, i, j, k, f, g), g[k] # j
  PROVE  Common(a, b, i, j - 1, k)
<1>1. CommonOf(b, a, j, i, k, g, f)
  BY DEF CommonOf
<1>2. Common(b, a, j - 1, i, k)
  BY <1>1, ShorterLeft
<1>3. PICK q, p : CommonOf(b, a, j - 1, i, k, q, p)
  BY <1>2 DEF Common
<1>4. CommonOf(a, b, i, j - 1, k, p, q)
  BY <1>3 DEF CommonOf
<1>. QED
  BY <1>4 DEF Common

\* Without its own last line it uses the last line of neither.
LEMMA ShorterBoth ==
  ASSUME NEW a, NEW b, NEW i \in Nat \ {0}, NEW j \in Nat \ {0}, NEW k \in Nat \ {0},
         NEW f, NEW g, CommonOf(a, b, i, j, k, f, g)
  PROVE  Common(a, b, i - 1, j - 1, k - 1)
<1>. DEFINE p == [x \in 1 .. k - 1 |-> f[x]]
            q == [x \in 1 .. k - 1 |-> g[x]]
<1>1. ASSUME NEW x \in 1 .. k - 1 PROVE f[x] \in 1 .. i - 1 /\ g[x] \in 1 .. j - 1
  <2>1. x \in 1 .. k /\ k \in 1 .. k /\ x < k /\ DOMAIN f = 1 .. k /\ DOMAIN g = 1 .. k
    BY DEF CommonOf
  <2>2. f[x] \in 1 .. i /\ f[k] \in 1 .. i /\ g[x] \in 1 .. j /\ g[k] \in 1 .. j
    BY <2>1 DEF CommonOf
  <2>3. f[x] < f[k] /\ g[x] < g[k]
    BY <2>1 DEF CommonOf, Increasing
  <2>4. PICK u \in 1 .. i, v \in 1 .. i : u = f[x] /\ v = f[k]
    BY <2>2
  <2>5. PICK s \in 1 .. j, t \in 1 .. j : s = g[x] /\ t = g[k]
    BY <2>2
  <2>6. u \in 1 .. i - 1 /\ s \in 1 .. j - 1
    BY <2>3, <2>4, <2>5
  <2>. QED
    BY <2>4, <2>5, <2>6
<1>2. p \in [1 .. k - 1 -> 1 .. i - 1] /\ q \in [1 .. k - 1 -> 1 .. j - 1]
  BY <1>1
<1>3. \A x \in 1 .. k - 1 : x \in 1 .. k /\ p[x] = f[x] /\ q[x] = g[x]
  OBVIOUS
<1>4. DOMAIN p = 1 .. k - 1 /\ DOMAIN q = 1 .. k - 1 /\ DOMAIN f = 1 .. k /\ DOMAIN g = 1 .. k
  BY DEF CommonOf
<1>. HIDE DEF p, q
<1>5. Increasing(p) /\ Increasing(q)
  BY <1>3, <1>4 DEF CommonOf, Increasing
<1>6. \A x \in 1 .. k - 1 : a[p[x]] = b[q[x]]
  BY <1>3 DEF CommonOf
<1>7. CommonOf(a, b, i - 1, j - 1, k - 1, p, q)
  BY <1>2, <1>5, <1>6 DEF CommonOf
<1>. QED
  BY <1>7 DEF Common

\* No common reading is longer than its entry of the table.
BoundAt(a, b, p) == \A k \in Nat : Common(a, b, p[1], p[2], k) => k <= LcsTable(a, b)[p]

LEMMA LcsBound ==
  ASSUME NEW T, NEW a \in Seq(T), NEW b \in Seq(T)
  PROVE  BoundAt(a, b, <<Len(a), Len(b)>>)
<1>. DEFINE m == Len(a)
            n == Len(b)
            lcs == LcsTable(a, b)
            P == {p \in (0 .. m) \X (0 .. n) : BoundAt(a, b, p)}
<1>1. m \in Nat /\ n \in Nat
  OBVIOUS
<1>2. /\ lcs \in [(0 .. m) \X (0 .. n) -> Nat]
      /\ \A i \in 0 .. m, j \in 0 .. n :
           lcs[<<i, j>>] = IF i = 0 \/ j = 0 THEN 0
                           ELSE IF a[i] = b[j] THEN lcs[<<i - 1, j - 1>>] + 1
                           ELSE IF lcs[<<i - 1, j>>] >= lcs[<<i, j - 1>>] THEN lcs[<<i - 1, j>>]
                           ELSE lcs[<<i, j - 1>>]
  <2>1. LcsFilled(a, b, LcsTable(a, b))
    BY LcsUnfolds
  <2>. QED
    BY <2>1 DEF LcsFilled
<1>. HIDE DEF m, n, lcs
<1>3. ASSUME NEW i \in 0 .. m, NEW j \in 0 .. n, i = 0 \/ j = 0 PROVE <<i, j>> \in P
  <2>1. ASSUME NEW k \in Nat, Common(a, b, i, j, k) PROVE k <= lcs[<<i, j>>]
    <3>1. PICK f, g : CommonOf(a, b, i, j, k, f, g)
      BY <2>1 DEF Common
    <3>2. k = 0
      <4>1. SUFFICES ASSUME k # 0 PROVE FALSE
        OBVIOUS
      <4>2. 1 \in 1 .. k
        BY <4>1
      <4>3. f[1] \in 1 .. i /\ g[1] \in 1 .. j
        BY <3>1, <4>2 DEF CommonOf
      <4>. QED
        BY <1>3, <4>3
    <3>3. lcs[<<i, j>>] = 0
      BY <1>2, <1>3
    <3>. QED
      BY <3>2, <3>3
  <2>. QED
    BY <2>1 DEF BoundAt, lcs
<1>4. ASSUME NEW i \in 1 .. m, NEW j \in 1 .. n,
             <<i - 1, j - 1>> \in P, <<i - 1, j>> \in P, <<i, j - 1>> \in P
      PROVE  <<i, j>> \in P
  <2>1. i \in 0 .. m /\ j \in 0 .. n /\ i \in Nat \ {0} /\ j \in Nat \ {0} /\ i # 0 /\ j # 0
    BY <1>1
  <2>2. <<i - 1, j - 1>> \in (0 .. m) \X (0 .. n) /\ <<i - 1, j>> \in (0 .. m) \X (0 .. n)
        /\ <<i, j - 1>> \in (0 .. m) \X (0 .. n)
    BY <1>1
  <2>3. PICK u \in Nat, v \in Nat, w \in Nat :
           lcs[<<i - 1, j - 1>>] = u /\ lcs[<<i - 1, j>>] = v /\ lcs[<<i, j - 1>>] = w
    BY <1>2, <2>2
  <2>4. lcs[<<i, j>>] = IF a[i] = b[j] THEN u + 1 ELSE IF v >= w THEN v ELSE w
    BY <1>2, <2>1, <2>3
  <2>5. /\ \A k \in Nat : Common(a, b, i - 1, j - 1, k) => k <= u
        /\ \A k \in Nat : Common(a, b, i - 1, j, k) => k <= v
        /\ \A k \in Nat : Common(a, b, i, j - 1, k) => k <= w
    BY <1>4, <2>3 DEF BoundAt, lcs
  <2>6. ASSUME NEW k \in Nat, Common(a, b, i, j, k) PROVE k <= lcs[<<i, j>>]
    <3>1. PICK f, g : CommonOf(a, b, i, j, k, f, g)
      BY <2>6 DEF Common
    <3>2. CASE k = 0
      BY <2>4, <3>2
    <3>3. CASE k # 0 /\ a[i] = b[j]
      <4>1. k \in Nat \ {0} /\ k - 1 \in Nat
        BY <3>3
      <4>2. Common(a, b, i - 1, j - 1, k - 1)
        BY <2>1, <3>1, <4>1, ShorterBoth
      <4>3. k - 1 <= u
        BY <2>5, <4>1, <4>2
      <4>. QED
        BY <2>4, <3>3, <4>3
    <3>4. CASE k # 0 /\ a[i] # b[j]
      <4>1. k \in Nat \ {0} /\ k \in 1 .. k
        BY <3>4
      <4>2. f[k] # i \/ g[k] # j
        BY <3>1, <3>4, <4>1 DEF CommonOf
      <4>3. CASE f[k] # i
        <5>1. Common(a, b, i - 1, j, k)
          BY <2>1, <3>1, <4>1, <4>3, ShorterLeft
        <5>2. k <= v
          BY <2>5, <5>1
        <5>. QED
          BY <2>4, <3>4, <5>2
      <4>4. CASE g[k] # j
        <5>1. Common(a, b, i, j - 1, k)
          BY <2>1, <3>1, <4>1, <4>4, ShorterRight
        <5>2. k <= w
          BY <2>5, <5>1
        <5>. QED
          BY <2>4, <3>4, <5>2
      <4>. QED
        BY <4>2, <4>3, <4>4
    <3>. QED
      BY <3>2, <3>3, <3>4
  <2>. QED
    BY <2>1, <2>6 DEF BoundAt, lcs
<1>5. \A i \in 0 .. m, j \in 0 .. n : <<i, j>> \in P
  <2>. HIDE DEF P
  <2>. QED
    BY <1>1, <1>3, <1>4, UpToTable
<1>6. <<m, n>> \in P
  BY <1>1, <1>5
<1>. QED
  BY <1>6 DEF m, n

(***************************************************************************)
(* The text of rows, and how many are of a kind, when one row is added and *)
(* when all are of one side.                                               *)
(***************************************************************************)

DiffRow == [kind : RowKind, text : Line]

TextAt(rows, kinds, g) ==
    g = [k \in 0 .. Len(rows) |->
          IF k = 0 THEN << >>
          ELSE IF rows[k].kind \in kinds THEN Append(g[k - 1], rows[k].text)
          ELSE g[k - 1]]

LEMMA TextUnfolds ==
  ASSUME NEW rows \in Seq(DiffRow), NEW kinds
  PROVE  \E g \in [0 .. Len(rows) -> Seq(Line)] :
           TextAt(rows, kinds, g) /\ TextOf(rows, kinds) = g[Len(rows)]
<1>. DEFINE n == Len(rows)
            step == [k \in 1 .. n |-> [x \in Seq(Line) |->
                       IF rows[k].kind \in kinds THEN Append(x, rows[k].text) ELSE x]]
<1>1. n \in Nat /\ << >> \in Seq(Line) /\ \A k \in 1 .. n : rows[k].text \in Line
  <2>1. \A k \in 1 .. n : rows[k] \in DiffRow
    OBVIOUS
  <2>2. \A row \in DiffRow : row.text \in Line
    BY DEF DiffRow
  <2>. QED
    BY <2>1, <2>2
<1>2. step \in [1 .. n -> [Seq(Line) -> Seq(Line)]]
  BY <1>1
<1>3. \A k \in 1 .. n : \A x \in Seq(Line) :
        step[k][x] = IF rows[k].kind \in kinds THEN Append(x, rows[k].text) ELSE x
  OBVIOUS
<1>. HIDE DEF step
<1>4. PICK g \in [0 .. n -> Seq(Line)] : Recurs(g, n, << >>, step)
  BY <1>1, <1>2, Recursion
<1>5. ASSUME NEW k \in 0 .. n
      PROVE  g[k] = IF k = 0 THEN << >>
                    ELSE IF rows[k].kind \in kinds THEN Append(g[k - 1], rows[k].text)
                    ELSE g[k - 1]
  <2>1. CASE k = 0
    BY <1>4, <2>1 DEF Recurs
  <2>2. CASE k # 0
    <3>1. k \in 1 .. n /\ k - 1 \in 0 .. n
      BY <2>2
    <3>2. g[k] = step[k][g[k - 1]] /\ g[k - 1] \in Seq(Line)
      BY <1>4, <3>1 DEF Recurs
    <3>. QED
      BY <1>3, <2>2, <3>1, <3>2
  <2>. QED
    BY <2>1, <2>2
<1>6. TextAt(rows, kinds, g)
  BY <1>5 DEF TextAt
<1>7. ASSUME NEW h, TextAt(rows, kinds, h) PROVE h \in [0 .. n -> Seq(Line)]
  <2>. DEFINE P == {k \in Nat : k \in 0 .. n => h[k] \in Seq(Line)}
  <2>1. 0 \in P
    BY <1>1, <1>7 DEF TextAt
  <2>2. ASSUME NEW k \in 1 .. n, k - 1 \in P PROVE k \in P
    <3>1. k - 1 \in 0 .. n /\ k \in 0 .. n /\ k # 0 /\ rows[k].text \in Line
      BY <1>1
    <3>2. PICK x \in Seq(Line) : x = h[k - 1]
      BY <2>2, <3>1
    <3>3. h[k] = IF rows[k].kind \in kinds THEN Append(x, rows[k].text) ELSE x
      BY <1>7, <3>1, <3>2 DEF TextAt
    <3>4. Append(x, rows[k].text) \in Seq(Line)
      BY <3>1
    <3>5. h[k] \in Seq(Line)
      BY <3>3, <3>4
    <3>. QED
      BY <3>5
  <2>. HIDE DEF P
  <2>3. \A k \in 0 .. n : k \in P
    BY <1>1, <2>1, <2>2, UpTo
  <2>4. \A k \in 0 .. n : h[k] \in Seq(Line)
    BY <2>3 DEF P
  <2>. QED
    BY <1>7, <2>4 DEF TextAt
<1>. DEFINE h == CHOOSE x : TextAt(rows, kinds, x)
<1>8. TextAt(rows, kinds, h)
  BY <1>6
<1>9. TextOf(rows, kinds) = h[Len(rows)]
  BY DEF TextOf, TextAt
<1>. HIDE DEF h
<1>. QED
  BY <1>7, <1>8, <1>9

LEMMA TextIsText ==
  ASSUME NEW rows \in Seq(DiffRow), NEW kinds
  PROVE  TextOf(rows, kinds) \in Seq(Line)
<1>1. PICK g \in [0 .. Len(rows) -> Seq(Line)] : TextOf(rows, kinds) = g[Len(rows)]
  BY TextUnfolds
<1>2. Len(rows) \in 0 .. Len(rows)
  OBVIOUS
<1>. QED
  BY <1>1, <1>2

\* Two readings of rows agree as far as the rows do.
LEMMA TextAgrees ==
  ASSUME NEW rows, NEW more, NEW kinds, NEW g, NEW h,
         Len(rows) \in Nat, Len(more) \in Nat, Len(rows) <= Len(more),
         Agree(rows, more, Len(rows)), TextAt(rows, kinds, g), TextAt(more, kinds, h)
  PROVE  g[Len(rows)] = h[Len(rows)]
<1>. DEFINE n == Len(rows)
            m == Len(more)
            P == {k \in Nat : k \in 0 .. n => g[k] = h[k]}
<1>1. 0 \in P
  <2>1. 0 \in 0 .. n /\ 0 \in 0 .. m
    OBVIOUS
  <2>2. g[0] = << >> /\ h[0] = << >>
    BY <2>1 DEF TextAt
  <2>. QED
    BY <2>2
<1>2. ASSUME NEW k \in 1 .. n, k - 1 \in P PROVE k \in P
  <2>1. k - 1 \in 0 .. n /\ k \in 0 .. n /\ k \in 0 .. m /\ k # 0
    OBVIOUS
  <2>2. g[k - 1] = h[k - 1] /\ rows[k] = more[k]
    BY <1>2, <2>1 DEF Agree
  <2>3. /\ g[k] = IF rows[k].kind \in kinds THEN Append(g[k - 1], rows[k].text) ELSE g[k - 1]
        /\ h[k] = IF more[k].kind \in kinds THEN Append(h[k - 1], more[k].text) ELSE h[k - 1]
    BY <2>1 DEF TextAt
  <2>4. g[k] = h[k]
    BY <2>2, <2>3
  <2>. QED
    BY <2>4
<1>. HIDE DEF P
<1>3. \A k \in 0 .. n : k \in P
  BY <1>1, <1>2, UpTo
<1>. QED
  BY <1>3 DEF P

LEMMA TextWithOneMore ==
  ASSUME NEW rows \in Seq(DiffRow), NEW row \in DiffRow, NEW kinds
  PROVE  TextOf(Append(rows, row), kinds)
         = IF row.kind \in kinds THEN Append(TextOf(rows, kinds), row.text)
           ELSE TextOf(rows, kinds)
<1>. DEFINE more == Append(rows, row)
            n == Len(rows)
<1>1. /\ n \in Nat /\ more \in Seq(DiffRow) /\ Len(more) = n + 1 /\ more[n + 1] = row
      /\ \A k \in 1 .. n : rows[k] = more[k]
  OBVIOUS
<1>. HIDE DEF more
<1>2. PICK g : TextAt(rows, kinds, g) /\ TextOf(rows, kinds) = g[n]
  BY TextUnfolds
<1>3. PICK h : TextAt(more, kinds, h) /\ TextOf(more, kinds) = h[Len(more)]
  BY <1>1, TextUnfolds
<1>. HIDE DEF n
<1>4. g[n] = h[n]
  <2>1. /\ Len(rows) \in Nat /\ Len(more) \in Nat /\ Len(rows) <= Len(more)
        /\ Agree(rows, more, Len(rows))
    BY <1>1 DEF n, Agree
  <2>2. g[Len(rows)] = h[Len(rows)]
    BY <1>2, <1>3, <2>1, TextAgrees
  <2>. QED
    BY <2>2 DEF n
<1>5. h[n + 1] = IF row.kind \in kinds THEN Append(h[n], row.text) ELSE h[n]
  <2>1. n + 1 \in 0 .. Len(more) /\ n + 1 # 0 /\ (n + 1) - 1 = n
    BY <1>1
  <2>. QED
    BY <1>1, <1>3, <2>1 DEF TextAt
<1>. QED
  BY <1>1, <1>2, <1>3, <1>4, <1>5 DEF more

LEMMA CountIsNat ==
  ASSUME NEW rows \in Seq(DiffRow), NEW kind
  PROVE  /\ IsFiniteSet({k \in DOMAIN rows : rows[k].kind = kind})
         /\ CountOf(rows, kind) \in Nat
<1>1. IsFiniteSet(DOMAIN rows)
  <2>1. IsFiniteSet(1 .. Len(rows))
    BY FS_Interval
  <2>. QED
    BY <2>1
<1>2. IsFiniteSet({k \in DOMAIN rows : rows[k].kind = kind})
  BY <1>1, FS_Subset
<1>. QED
  BY <1>2, FS_CardinalityType DEF CountOf

LEMMA CountWithOneMore ==
  ASSUME NEW rows \in Seq(DiffRow), NEW row \in DiffRow, NEW kind
  PROVE  CountOf(Append(rows, row), kind)
         = IF row.kind = kind THEN CountOf(rows, kind) + 1 ELSE CountOf(rows, kind)
<1>. DEFINE more == Append(rows, row)
            n == Len(rows)
            K == {k \in DOMAIN rows : rows[k].kind = kind}
            M == {k \in DOMAIN more : more[k].kind = kind}
<1>1. /\ n \in Nat /\ DOMAIN rows = 1 .. n /\ DOMAIN more = 1 .. n + 1 /\ more[n + 1] = row
      /\ \A k \in 1 .. n : rows[k] = more[k]
  OBVIOUS
<1>0. IsFiniteSet(K)
  BY CountIsNat
<1>. HIDE DEF more, n
<1>2. M = IF row.kind = kind THEN K \cup {n + 1} ELSE K
  <2>1. \A k \in 1 .. n + 1 : k \in 1 .. n \/ k = n + 1
    BY <1>1
  <2>2. \A k \in 1 .. n : k \in 1 .. n + 1
    BY <1>1
  <2>. QED
    BY <1>1, <2>1, <2>2
<1>3. IsFiniteSet(K) /\ n + 1 \notin K
  BY <1>0, <1>1
<1>. HIDE DEF K, M
<1>4. Cardinality(K \cup {n + 1}) = Cardinality(K) + 1
  BY <1>3, FS_AddElement
<1>. QED
  BY <1>2, <1>4 DEF CountOf, K, M, more

\* The rows of the side that is left: all of one kind.
LEMMA DrainedRows ==
  ASSUME NEW kind \in RowKind, NEW s \in Seq(Line)
  PROVE  /\ Drained(kind, s) \in Seq(DiffRow) /\ Len(Drained(kind, s)) = Len(s)
         /\ DOMAIN Drained(kind, s) = 1 .. Len(s)
         /\ \A k \in 1 .. Len(s) :
              Drained(kind, s)[k].kind = kind /\ Drained(kind, s)[k].text = s[k]
<1>1. Len(s) \in Nat /\ \A k \in 1 .. Len(s) : [kind |-> kind, text |-> s[k]] \in DiffRow
  BY DEF DiffRow
<1>2. Drained(kind, s) \in [1 .. Len(s) -> DiffRow]
  BY <1>1 DEF Drained
<1>. QED
  BY <1>1, <1>2 DEF Drained

LEMMA DrainedText ==
  ASSUME NEW kind \in RowKind, NEW s \in Seq(Line), NEW kinds
  PROVE  TextOf(Drained(kind, s), kinds) = IF kind \in kinds THEN s ELSE << >>
<1>. DEFINE rows == Drained(kind, s)
            n == Len(s)
            upTo(k) == IF kind \in kinds THEN SubSeq(s, 1, k) ELSE << >>
<1>1. /\ n \in Nat /\ rows \in Seq(DiffRow) /\ Len(rows) = n
      /\ \A k \in 1 .. n : rows[k].kind = kind /\ rows[k].text = s[k]
  BY DrainedRows
<1>. HIDE DEF rows
<1>2. PICK g : TextAt(rows, kinds, g) /\ TextOf(rows, kinds) = g[n]
  BY <1>1, TextUnfolds
<1>. DEFINE P == {k \in Nat : k \in 0 .. n => g[k] = upTo(k)}
<1>3. 0 \in P
  <2>1. g[0] = << >>
    BY <1>1, <1>2 DEF TextAt
  <2>2. SubSeq(s, 1, 0) = << >>
    OBVIOUS
  <2>. QED
    BY <2>1, <2>2
<1>4. ASSUME NEW k \in 1 .. n, k - 1 \in P PROVE k \in P
  <2>1. k \in 0 .. n /\ k - 1 \in 0 .. n /\ k # 0
    BY <1>1
  <2>2. g[k - 1] = upTo(k - 1)
    BY <1>4, <2>1
  <2>3. g[k] = IF kind \in kinds THEN Append(g[k - 1], s[k]) ELSE g[k - 1]
    BY <1>1, <1>2, <2>1 DEF TextAt
  <2>4. Append(SubSeq(s, 1, k - 1), s[k]) = SubSeq(s, 1, k)
    BY <2>1
  <2>5. g[k] = upTo(k)
    BY <2>2, <2>3, <2>4
  <2>. QED
    BY <2>5
<1>. HIDE DEF P
<1>5. \A k \in 0 .. n : k \in P
  BY <1>1, <1>3, <1>4, UpTo
<1>6. g[n] = upTo(n)
  BY <1>1, <1>5 DEF P
<1>7. SubSeq(s, 1, n) = s
  OBVIOUS
<1>. QED
  BY <1>2, <1>6, <1>7 DEF rows

LEMMA DrainedCount ==
  ASSUME NEW kind \in RowKind, NEW s \in Seq(Line), NEW other
  PROVE  CountOf(Drained(kind, s), other) = IF kind = other THEN Len(s) ELSE 0
<1>. DEFINE rows == Drained(kind, s)
<1>1. /\ Len(s) \in Nat /\ DOMAIN rows = 1 .. Len(s)
      /\ \A k \in 1 .. Len(s) : rows[k].kind = kind
  BY DrainedRows
<1>. HIDE DEF rows
<1>2. {k \in DOMAIN rows : rows[k].kind = other} = IF kind = other THEN 1 .. Len(s) ELSE {}
  BY <1>1
<1>3. \A k \in Nat : Cardinality(1 .. k) = k
  BY FS_Interval
<1>4. Cardinality({}) = 0
  BY FS_EmptySet
<1>5. CountOf(rows, other) = IF kind = other THEN Cardinality(1 .. Len(s)) ELSE Cardinality({})
  BY <1>2 DEF CountOf
<1>. QED
  BY <1>1, <1>3, <1>4, <1>5 DEF rows

(***************************************************************************)
(* The walk: its rows from every entry of the table are both texts up to   *)
(* there, and their deletions and additions what the table leaves over.    *)
(***************************************************************************)

WalkEntry(a, b, w, p) ==
    LET i == p[1]  j == p[2]  lcs == LcsTable(a, b) IN
    IF i = 0 \/ j = 0 THEN Rest(a, b, i, j)
    ELSE IF a[i] = b[j]
         THEN Append(w[<<i - 1, j - 1>>], [kind |-> "same", text |-> a[i]])
    ELSE IF lcs[<<i - 1, j>>] >= lcs[<<i, j - 1>>]
         THEN Append(w[<<i - 1, j>>], [kind |-> "del", text |-> a[i]])
    ELSE Append(w[<<i, j - 1>>], [kind |-> "add", text |-> b[j]])

WalkAt(a, b, w) == w = [p \in (0 .. Len(a)) \X (0 .. Len(b)) |-> WalkEntry(a, b, w, p)]

LEMMA RestIsRows ==
  ASSUME NEW a \in Seq(Line), NEW b \in Seq(Line), NEW i \in 0 .. Len(a), NEW j \in 0 .. Len(b)
  PROVE  Rest(a, b, i, j) \in Seq(DiffRow)
<1>1. SubSeq(a, 1, i) \in Seq(Line) /\ SubSeq(b, 1, j) \in Seq(Line)
  OBVIOUS
<1>2. "del" \in RowKind /\ "add" \in RowKind
  BY DEF RowKind
<1>. QED
  BY <1>1, <1>2, DrainedRows DEF Rest

\* There is a walk: the recursion does not leave the table.
LEMMA WalkExists ==
  ASSUME NEW a \in Seq(Line), NEW b \in Seq(Line)
  PROVE  \E w : WalkAt(a, b, w)
<1>. DEFINE m == Len(a)
            n == Len(b)
            X == Seq(DiffRow)
            lcs == LcsTable(a, b)
            base == [p \in (0 .. m) \X (0 .. n) |->
                       IF p[1] = 0 \/ p[2] = 0 THEN Rest(a, b, p[1], p[2]) ELSE << >>]
            row(kind, line) == [kind |-> kind, text |-> line]
            step == [p \in (1 .. m) \X (1 .. n) |-> [t \in X \X X \X X |->
                       IF a[p[1]] = b[p[2]] THEN Append(t[1], row("same", a[p[1]]))
                       ELSE IF lcs[<<p[1] - 1, p[2]>>] >= lcs[<<p[1], p[2] - 1>>]
                            THEN Append(t[2], row("del", a[p[1]]))
                       ELSE Append(t[3], row("add", b[p[2]]))]]
<1>1. m \in Nat /\ n \in Nat
  OBVIOUS
<1>2. base \in [(0 .. m) \X (0 .. n) -> X]
  <2>1. ASSUME NEW p \in (0 .. m) \X (0 .. n)
        PROVE  (IF p[1] = 0 \/ p[2] = 0 THEN Rest(a, b, p[1], p[2]) ELSE << >>) \in X
    <3>1. p[1] \in 0 .. m /\ p[2] \in 0 .. n /\ << >> \in X
      OBVIOUS
    <3>2. Rest(a, b, p[1], p[2]) \in X
      BY <3>1, RestIsRows
    <3>. QED
      BY <3>1, <3>2
  <2>. HIDE DEF X, m, n
  <2>. QED
    BY <2>1
<1>3. step \in [(1 .. m) \X (1 .. n) -> [X \X X \X X -> X]]
  <2>1. ASSUME NEW p \in (1 .. m) \X (1 .. n), NEW t \in X \X X \X X
        PROVE  /\ Append(t[1], row("same", a[p[1]])) \in X
               /\ Append(t[2], row("del", a[p[1]])) \in X
               /\ Append(t[3], row("add", b[p[2]])) \in X
    <3>1. a[p[1]] \in Line /\ b[p[2]] \in Line
      OBVIOUS
    <3>2. \A kind \in RowKind, line \in Line : row(kind, line) \in DiffRow
      BY DEF DiffRow
    <3>3. {"same", "del", "add"} \subseteq RowKind
      BY DEF RowKind
    <3>4. t[1] \in X /\ t[2] \in X /\ t[3] \in X
      OBVIOUS
    <3>5. \A s \in X, d \in DiffRow : Append(s, d) \in X
      OBVIOUS
    <3>. HIDE DEF row, X
    <3>. QED
      BY <3>1, <3>2, <3>3, <3>4, <3>5
  <2>. HIDE DEF X, m, n, row, lcs
  <2>. QED
    BY <2>1
<1>4. PICK g \in [(0 .. m) \X (0 .. n) -> X] : Tabled(g, m, n, base, step)
  <2>. HIDE DEF m, n, base, step, X
  <2>. QED
    BY <1>1, <1>2, <1>3, TableExists
<1>5. ASSUME NEW p \in (0 .. m) \X (0 .. n) PROVE g[p] = WalkEntry(a, b, g, p)
  <2>1. PICK i \in 0 .. m, j \in 0 .. n : p = <<i, j>>
    OBVIOUS
  <2>2. p[1] = i /\ p[2] = j
    BY <2>1
  <2>3. CASE i = 0 \/ j = 0
    <3>1. base[p] = Rest(a, b, i, j)
      <4>. HIDE DEF m, n
      <4>. QED
        BY <2>2, <2>3 DEF base
    <3>2. g[p] = base[p]
      <4>. HIDE DEF m, n, base, step
      <4>. QED
        BY <1>4, <2>1, <2>3 DEF Tabled
    <3>. QED
      BY <2>2, <2>3, <3>1, <3>2 DEF WalkEntry
  <2>4. CASE i # 0 /\ j # 0
    <3>1. i \in 1 .. m /\ j \in 1 .. n /\ i - 1 \in 0 .. m /\ j - 1 \in 0 .. n
      BY <1>1, <2>4
    <3>. HIDE DEF m, n, base, step
    <3>. DEFINE t == <<g[<<i - 1, j - 1>>], g[<<i - 1, j>>], g[<<i, j - 1>>]>>
    <3>2. /\ t \in X \X X \X X
          /\ t[1] = g[<<i - 1, j - 1>>] /\ t[2] = g[<<i - 1, j>>] /\ t[3] = g[<<i, j - 1>>]
      <4>. HIDE DEF X
      <4>. QED
        BY <1>4, <3>1
    <3>. HIDE DEF t, X
    <3>3. g[p] = step[p][t]
      BY <1>4, <2>1, <2>4 DEF Tabled, t
    <3>4. p \in (1 .. m) \X (1 .. n)
      BY <2>1, <3>1
    <3>5. step[p][t] = IF a[i] = b[j] THEN Append(t[1], row("same", a[i]))
                       ELSE IF lcs[<<i - 1, j>>] >= lcs[<<i, j - 1>>]
                            THEN Append(t[2], row("del", a[i]))
                       ELSE Append(t[3], row("add", b[j]))
      <4>. HIDE DEF lcs, row
      <4>. QED
        BY <2>2, <3>2, <3>4 DEF step
    <3>. QED
      BY <2>2, <2>4, <3>2, <3>3, <3>5 DEF WalkEntry
  <2>. QED
    BY <2>3, <2>4
<1>6. g = [p \in (0 .. m) \X (0 .. n) |-> WalkEntry(a, b, g, p)]
  <2>. HIDE DEF m, n, X
  <2>. QED
    BY <1>4, <1>5
<1>7. WalkAt(a, b, g)
  BY <1>6 DEF WalkAt
<1>. QED
  BY <1>7

\* What the rows of the first i lines of a and the first j of b are.
Drawn(a, b, lcs, i, j, rows) ==
    /\ rows \in Seq(DiffRow)
    /\ TextOf(rows, {"same", "del"}) = SubSeq(a, 1, i)
    /\ TextOf(rows, {"same", "add"}) = SubSeq(b, 1, j)
    /\ CountOf(rows, "del") + lcs[<<i, j>>] = i
    /\ CountOf(rows, "add") + lcs[<<i, j>>] = j

LEMMA RestIsDrawn ==
  ASSUME NEW a \in Seq(Line), NEW b \in Seq(Line), NEW lcs,
         NEW i \in 0 .. Len(a), NEW j \in 0 .. Len(b), i = 0 \/ j = 0, lcs[<<i, j>>] = 0
  PROVE  Drawn(a, b, lcs, i, j, Rest(a, b, i, j))
<1>. DEFINE s == SubSeq(a, 1, i)
            t == SubSeq(b, 1, j)
<1>1. s \in Seq(Line) /\ t \in Seq(Line) /\ Len(s) = i /\ Len(t) = j
  OBVIOUS
<1>2. (i = 0 => s = << >>) /\ (j = 0 => t = << >>)
  OBVIOUS
<1>3. "del" \in RowKind /\ "add" \in RowKind /\ i \in Nat /\ j \in Nat
  BY DEF RowKind
<1>4. Rest(a, b, i, j) \in Seq(DiffRow)
  BY RestIsRows
<1>5. CASE i > 0
  <2>1. Rest(a, b, i, j) = Drained("del", s)
    BY <1>5 DEF Rest
  <2>2. j = 0 /\ t = << >>
    BY <1>2, <1>3, <1>5
  <2>. HIDE DEF s, t
  <2>3. \A kinds : TextOf(Drained("del", s), kinds) = IF "del" \in kinds THEN s ELSE << >>
    BY <1>1, <1>3, DrainedText
  <2>4. CountOf(Drained("del", s), "del") = i /\ CountOf(Drained("del", s), "add") = 0
    BY <1>1, <1>3, DrainedCount
  <2>5. i + 0 = i /\ 0 + 0 = 0
    BY <1>3
  <2>6. /\ TextOf(Drained("del", s), {"same", "del"}) = s
        /\ TextOf(Drained("del", s), {"same", "add"}) = t
    BY <2>2, <2>3
  <2>. QED
    BY <1>4, <2>1, <2>2, <2>4, <2>5, <2>6 DEF Drawn, s, t
<1>6. CASE ~(i > 0)
  <2>1. Rest(a, b, i, j) = Drained("add", t)
    BY <1>6 DEF Rest
  <2>2. i = 0 /\ s = << >>
    BY <1>2, <1>3, <1>6
  <2>. HIDE DEF s, t
  <2>3. \A kinds : TextOf(Drained("add", t), kinds) = IF "add" \in kinds THEN t ELSE << >>
    BY <1>1, <1>3, DrainedText
  <2>4. CountOf(Drained("add", t), "add") = j /\ CountOf(Drained("add", t), "del") = 0
    BY <1>1, <1>3, DrainedCount
  <2>5. j + 0 = j /\ 0 + 0 = 0
    BY <1>3
  <2>6. /\ TextOf(Drained("add", t), {"same", "del"}) = s
        /\ TextOf(Drained("add", t), {"same", "add"}) = t
    BY <2>2, <2>3
  <2>. QED
    BY <1>4, <2>1, <2>2, <2>4, <2>5, <2>6 DEF Drawn, s, t
<1>. QED
  BY <1>5, <1>6

\* Each step of the walk adds the row of the lines it leaves.
LEMMA RowIsDrawn ==
  ASSUME NEW a \in Seq(Line), NEW b \in Seq(Line), LcsFilled(a, b, LcsTable(a, b)), NEW w,
         WalkAt(a, b, w), NEW i \in 1 .. Len(a), NEW j \in 1 .. Len(b),
         Drawn(a, b, LcsTable(a, b), i - 1, j - 1, w[<<i - 1, j - 1>>]),
         Drawn(a, b, LcsTable(a, b), i - 1, j, w[<<i - 1, j>>]),
         Drawn(a, b, LcsTable(a, b), i, j - 1, w[<<i, j - 1>>])
  PROVE  Drawn(a, b, LcsTable(a, b), i, j, w[<<i, j>>])
<1>. DEFINE lcs == LcsTable(a, b)
            p == <<i, j>>
<1>1. /\ i \in 0 .. Len(a) /\ j \in 0 .. Len(b) /\ i - 1 \in 0 .. Len(a) /\ j - 1 \in 0 .. Len(b)
      /\ i \in Nat /\ j \in Nat /\ i - 1 \in Nat /\ j - 1 \in Nat /\ i # 0 /\ j # 0
      /\ a[i] \in Line /\ b[j] \in Line
  OBVIOUS
<1>2. w[p] = WalkEntry(a, b, w, p)
  <2>1. p \in (0 .. Len(a)) \X (0 .. Len(b))
    BY <1>1
  <2>. HIDE DEF p
  <2>. QED
    BY <2>1 DEF WalkAt
<1>3. /\ Append(SubSeq(a, 1, i - 1), a[i]) = SubSeq(a, 1, i)
      /\ Append(SubSeq(b, 1, j - 1), b[j]) = SubSeq(b, 1, j)
  BY <1>1
<1>. HIDE DEF lcs
<1>4. PICK u \in Nat, v \in Nat, x \in Nat :
         lcs[<<i - 1, j - 1>>] = u /\ lcs[<<i - 1, j>>] = v /\ lcs[<<i, j - 1>>] = x
  <2>1. /\ <<i - 1, j - 1>> \in (0 .. Len(a)) \X (0 .. Len(b))
        /\ <<i - 1, j>> \in (0 .. Len(a)) \X (0 .. Len(b))
        /\ <<i, j - 1>> \in (0 .. Len(a)) \X (0 .. Len(b))
    BY <1>1
  <2>. QED
    BY <2>1 DEF LcsFilled, lcs
<1>5. lcs[p] = IF a[i] = b[j] THEN u + 1 ELSE IF v >= x THEN v ELSE x
  BY <1>1, <1>4 DEF LcsFilled, lcs
<1>6. w[p] = IF a[i] = b[j] THEN Append(w[<<i - 1, j - 1>>], [kind |-> "same", text |-> a[i]])
             ELSE IF v >= x THEN Append(w[<<i - 1, j>>], [kind |-> "del", text |-> a[i]])
             ELSE Append(w[<<i, j - 1>>], [kind |-> "add", text |-> b[j]])
  <2>1. p[1] = i /\ p[2] = j
    OBVIOUS
  <2>. HIDE DEF p
  <2>. QED
    BY <1>1, <1>2, <1>4, <2>1 DEF WalkEntry, lcs
<1>7. ASSUME NEW kind \in RowKind, NEW line \in Line
      PROVE  [kind |-> kind, text |-> line] \in DiffRow
  BY DEF DiffRow
<1>8. {"same", "del", "add"} \subseteq RowKind
  BY DEF RowKind
<1>. HIDE DEF p
<1>9. CASE a[i] = b[j]
  <2>. DEFINE row == [kind |-> "same", text |-> a[i]]
              rows == w[<<i - 1, j - 1>>]
  <2>1. row \in DiffRow /\ row.kind = "same" /\ row.text = a[i]
    BY <1>1, <1>7, <1>8
  <2>2. w[p] = Append(rows, row) /\ lcs[p] = u + 1
    BY <1>5, <1>6, <1>9
  <2>. HIDE DEF row, rows
  <2>3. /\ rows \in Seq(DiffRow)
        /\ TextOf(rows, {"same", "del"}) = SubSeq(a, 1, i - 1)
        /\ TextOf(rows, {"same", "add"}) = SubSeq(b, 1, j - 1)
        /\ CountOf(rows, "del") + u = i - 1 /\ CountOf(rows, "add") + u = j - 1
    BY <1>4 DEF Drawn, rows, lcs
  <2>4. /\ TextOf(Append(rows, row), {"same", "del"}) = Append(SubSeq(a, 1, i - 1), a[i])
        /\ TextOf(Append(rows, row), {"same", "add"}) = Append(SubSeq(b, 1, j - 1), b[j])
    <3>1. \A kinds : TextOf(Append(rows, row), kinds)
                     = IF row.kind \in kinds THEN Append(TextOf(rows, kinds), row.text)
                       ELSE TextOf(rows, kinds)
      BY <2>1, <2>3, TextWithOneMore
    <3>. QED
      BY <1>9, <2>1, <2>3, <3>1
  <2>5. /\ CountOf(Append(rows, row), "del") = CountOf(rows, "del")
        /\ CountOf(Append(rows, row), "add") = CountOf(rows, "add")
    BY <2>1, <2>3, CountWithOneMore
  <2>6. Append(rows, row) \in Seq(DiffRow)
    BY <2>1, <2>3
  <2>7. PICK d \in Nat, e \in Nat : d = CountOf(rows, "del") /\ e = CountOf(rows, "add")
    <3>1. \A kind : CountOf(rows, kind) \in Nat
      BY <2>3, CountIsNat
    <3>. QED
      BY <3>1
  <2>8. CountOf(Append(rows, row), "del") + lcs[p] = i /\ CountOf(Append(rows, row), "add") + lcs[p] = j
    <3>1. d + u = i - 1 /\ e + u = j - 1
      BY <2>3, <2>7
    <3>2. d + (u + 1) = i /\ e + (u + 1) = j
      <4>1. i \in Nat /\ j \in Nat
        BY <1>1
      <4>. QED
        BY <3>1, <4>1
    <3>3. CountOf(Append(rows, row), "del") = d /\ CountOf(Append(rows, row), "add") = e
      BY <2>5, <2>7
    <3>. QED
      BY <2>2, <3>2, <3>3
  <2>. QED
    BY <1>3, <2>2, <2>4, <2>6, <2>8 DEF Drawn, lcs, p
<1>10. CASE a[i] # b[j] /\ v >= x
  <2>. DEFINE row == [kind |-> "del", text |-> a[i]]
              rows == w[<<i - 1, j>>]
  <2>1. row \in DiffRow /\ row.kind = "del" /\ row.text = a[i]
    BY <1>1, <1>7, <1>8
  <2>2. w[p] = Append(rows, row) /\ lcs[p] = v
    BY <1>5, <1>6, <1>10
  <2>. HIDE DEF row, rows
  <2>3. /\ rows \in Seq(DiffRow)
        /\ TextOf(rows, {"same", "del"}) = SubSeq(a, 1, i - 1)
        /\ TextOf(rows, {"same", "add"}) = SubSeq(b, 1, j)
        /\ CountOf(rows, "del") + v = i - 1 /\ CountOf(rows, "add") + v = j
    BY <1>4 DEF Drawn, rows, lcs
  <2>4. /\ TextOf(Append(rows, row), {"same", "del"}) = Append(SubSeq(a, 1, i - 1), a[i])
        /\ TextOf(Append(rows, row), {"same", "add"}) = SubSeq(b, 1, j)
    <3>1. \A kinds : TextOf(Append(rows, row), kinds)
                     = IF row.kind \in kinds THEN Append(TextOf(rows, kinds), row.text)
                       ELSE TextOf(rows, kinds)
      BY <2>1, <2>3, TextWithOneMore
    <3>. QED
      BY <2>1, <2>3, <3>1
  <2>5. /\ CountOf(Append(rows, row), "del") = CountOf(rows, "del") + 1
        /\ CountOf(Append(rows, row), "add") = CountOf(rows, "add")
    BY <2>1, <2>3, CountWithOneMore
  <2>6. Append(rows, row) \in Seq(DiffRow)
    BY <2>1, <2>3
  <2>7. PICK d \in Nat, e \in Nat : d = CountOf(rows, "del") /\ e = CountOf(rows, "add")
    <3>1. \A kind : CountOf(rows, kind) \in Nat
      BY <2>3, CountIsNat
    <3>. QED
      BY <3>1
  <2>8. CountOf(Append(rows, row), "del") + lcs[p] = i /\ CountOf(Append(rows, row), "add") + lcs[p] = j
    <3>1. d + v = i - 1 /\ e + v = j
      BY <2>3, <2>7
    <3>2. (d + 1) + v = i /\ e + v = j
      <4>1. i \in Nat /\ j \in Nat
        BY <1>1
      <4>. QED
        BY <3>1, <4>1
    <3>3. CountOf(Append(rows, row), "del") = d + 1 /\ CountOf(Append(rows, row), "add") = e
      BY <2>5, <2>7
    <3>. QED
      BY <2>2, <3>2, <3>3
  <2>. QED
    BY <1>3, <2>2, <2>4, <2>6, <2>8 DEF Drawn, lcs, p
<1>11. CASE a[i] # b[j] /\ ~(v >= x)
  <2>. DEFINE row == [kind |-> "add", text |-> b[j]]
              rows == w[<<i, j - 1>>]
  <2>1. row \in DiffRow /\ row.kind = "add" /\ row.text = b[j]
    BY <1>1, <1>7, <1>8
  <2>2. w[p] = Append(rows, row) /\ lcs[p] = x
    BY <1>5, <1>6, <1>11
  <2>. HIDE DEF row, rows
  <2>3. /\ rows \in Seq(DiffRow)
        /\ TextOf(rows, {"same", "del"}) = SubSeq(a, 1, i)
        /\ TextOf(rows, {"same", "add"}) = SubSeq(b, 1, j - 1)
        /\ CountOf(rows, "del") + x = i /\ CountOf(rows, "add") + x = j - 1
    BY <1>4 DEF Drawn, rows, lcs
  <2>4. /\ TextOf(Append(rows, row), {"same", "del"}) = SubSeq(a, 1, i)
        /\ TextOf(Append(rows, row), {"same", "add"}) = Append(SubSeq(b, 1, j - 1), b[j])
    <3>1. \A kinds : TextOf(Append(rows, row), kinds)
                     = IF row.kind \in kinds THEN Append(TextOf(rows, kinds), row.text)
                       ELSE TextOf(rows, kinds)
      BY <2>1, <2>3, TextWithOneMore
    <3>. QED
      BY <2>1, <2>3, <3>1
  <2>5. /\ CountOf(Append(rows, row), "del") = CountOf(rows, "del")
        /\ CountOf(Append(rows, row), "add") = CountOf(rows, "add") + 1
    BY <2>1, <2>3, CountWithOneMore
  <2>6. Append(rows, row) \in Seq(DiffRow)
    BY <2>1, <2>3
  <2>7. PICK d \in Nat, e \in Nat : d = CountOf(rows, "del") /\ e = CountOf(rows, "add")
    <3>1. \A kind : CountOf(rows, kind) \in Nat
      BY <2>3, CountIsNat
    <3>. QED
      BY <3>1
  <2>8. CountOf(Append(rows, row), "del") + lcs[p] = i /\ CountOf(Append(rows, row), "add") + lcs[p] = j
    <3>1. d + x = i /\ e + x = j - 1
      BY <2>3, <2>7
    <3>2. d + x = i /\ (e + 1) + x = j
      <4>1. i \in Nat /\ j \in Nat
        BY <1>1
      <4>. QED
        BY <3>1, <4>1
    <3>3. CountOf(Append(rows, row), "del") = d /\ CountOf(Append(rows, row), "add") = e + 1
      BY <2>5, <2>7
    <3>. QED
      BY <2>2, <3>2, <3>3
  <2>. QED
    BY <1>3, <2>2, <2>4, <2>6, <2>8 DEF Drawn, lcs, p
<1>. QED
  BY <1>9, <1>10, <1>11 DEF p

\* The diff of two texts: both are in it, and what it shows as unchanged is as
\* long as the table says.
LEMMA DiffIsDrawn ==
  ASSUME NEW a \in Seq(Line), NEW b \in Seq(Line)
  PROVE  Drawn(a, b, LcsTable(a, b), Len(a), Len(b), lineDiff(a, b))
<1>. DEFINE m == Len(a)
            n == Len(b)
            lcs == LcsTable(a, b)
            w == CHOOSE x : WalkAt(a, b, x)
            P == {p \in (0 .. m) \X (0 .. n) : Drawn(a, b, lcs, p[1], p[2], w[p])}
<1>1. m \in Nat /\ n \in Nat
  OBVIOUS
<1>2. WalkAt(a, b, w)
  BY WalkExists
<1>3. lineDiff(a, b) = w[<<m, n>>]
  BY DEF lineDiff, WalkAt, WalkEntry
<1>4. LcsFilled(a, b, lcs)
  BY LcsUnfolds
<1>. HIDE DEF w
<1>5. ASSUME NEW i \in 0 .. m, NEW j \in 0 .. n, i = 0 \/ j = 0 PROVE <<i, j>> \in P
  <2>1. <<i, j>> \in (0 .. m) \X (0 .. n)
    OBVIOUS
  <2>2. lcs[<<i, j>>] = 0
    <3>. HIDE DEF lcs
    <3>. QED
      BY <1>4, <1>5 DEF LcsFilled
  <2>3. w[<<i, j>>] = Rest(a, b, i, j)
    <3>1. w[<<i, j>>] = WalkEntry(a, b, w, <<i, j>>)
      BY <1>2, <2>1 DEF WalkAt
    <3>. QED
      BY <1>5, <3>1 DEF WalkEntry
  <2>. HIDE DEF lcs
  <2>4. Drawn(a, b, lcs, i, j, Rest(a, b, i, j))
    BY <1>5, <2>2, RestIsDrawn
  <2>. QED
    BY <2>1, <2>3, <2>4
<1>6. ASSUME NEW i \in 1 .. m, NEW j \in 1 .. n,
             <<i - 1, j - 1>> \in P, <<i - 1, j>> \in P, <<i, j - 1>> \in P
      PROVE  <<i, j>> \in P
  <2>1. <<i, j>> \in (0 .. m) \X (0 .. n)
    BY <1>1
  <2>2. /\ Drawn(a, b, lcs, i - 1, j - 1, w[<<i - 1, j - 1>>])
        /\ Drawn(a, b, lcs, i - 1, j, w[<<i - 1, j>>])
        /\ Drawn(a, b, lcs, i, j - 1, w[<<i, j - 1>>])
    BY <1>6
  <2>3. Drawn(a, b, lcs, i, j, w[<<i, j>>])
    <3>. HIDE DEF P
    <3>. QED
      BY <1>2, <1>4, <2>2, RowIsDrawn
  <2>. QED
    BY <2>1, <2>3
<1>7. \A i \in 0 .. m, j \in 0 .. n : <<i, j>> \in P
  <2>. HIDE DEF P, m, n
  <2>. QED
    BY <1>1, <1>5, <1>6, UpToTable
<1>8. <<m, n>> \in P
  <2>1. m \in 0 .. m /\ n \in 0 .. n
    BY <1>1
  <2>. HIDE DEF P, m, n
  <2>. QED
    BY <1>7, <2>1
<1>. QED
  BY <1>3, <1>8

\* A reading of both texts is no longer than what the diff keeps.
LEMMA ReadingIsCommon ==
  ASSUME NEW a \in Seq(Line), NEW b \in Seq(Line), NEW r \in Readings(a) \cap Readings(b)
  PROVE  Len(r) \in Nat /\ Common(a, b, Len(a), Len(b), Len(r))
<1>1. PICK f \in Selections(a) : r = [x \in DOMAIN f |-> a[f[x]]]
  BY DEF Readings
<1>2. PICK g \in Selections(b) : r = [x \in DOMAIN g |-> b[g[x]]]
  BY DEF Readings
<1>3. PICK k \in 0 .. Len(a) : f \in [1 .. k -> DOMAIN a]
  BY <1>1 DEF Selections
<1>4. PICK l \in 0 .. Len(b) : g \in [1 .. l -> DOMAIN b]
  BY <1>2 DEF Selections
<1>5. Increasing(f) /\ Increasing(g)
  BY DEF Selections
<1>6. k \in Nat /\ l \in Nat /\ DOMAIN a = 1 .. Len(a) /\ DOMAIN b = 1 .. Len(b)
  OBVIOUS
<1>7. DOMAIN r = 1 .. k /\ DOMAIN g = 1 .. k
  BY <1>1, <1>2, <1>3
<1>8. Len(r) = k
  <2>1. r = [x \in 1 .. k |-> a[f[x]]]
    BY <1>1, <1>3
  <2>. QED
    BY <1>6, <2>1
<1>9. \A x \in 1 .. k : a[f[x]] = b[g[x]]
  BY <1>1, <1>2, <1>3, <1>7
<1>10. g \in [1 .. k -> 1 .. Len(b)] /\ f \in [1 .. k -> 1 .. Len(a)]
  BY <1>3, <1>4, <1>6, <1>7
<1>11. CommonOf(a, b, Len(a), Len(b), k, f, g)
  BY <1>5, <1>9, <1>10 DEF CommonOf
<1>. QED
  BY <1>6, <1>8, <1>11 DEF Common

LEMMA LinesAreLines ==
  ASSUME NEW text \in Text
  PROVE  Lines(text) \in Seq(Line)
<1>1. PICK k \in 1 .. MaxLines : text \in [1 .. k -> Line]
  BY DEF Text
<1>2. k \in Nat
  BY DiffAssumption
<1>3. text \in Seq(Line) /\ << >> \in Seq(Line)
  BY <1>1, <1>2
<1>. QED
  BY <1>3 DEF Lines

DiffInv == master \in Text /\ suggested \in Text /\ drawn = Draw(master, suggested)

LEMMA DiffStart == DiffInit => DiffInv
<1>1. ASSUME MaxLines # 0 PROVE <<Blank>> \in Text
  <2>1. <<Blank>> \in [1 .. 1 -> Line] /\ 1 \in 1 .. MaxLines
    BY DiffAssumption, <1>1
  <2>. QED
    BY <2>1 DEF Text
<1>2. ASSUME MaxLines = 0 PROVE Text = {}
  BY <1>2 DEF Text
<1>. QED
  BY <1>1, <1>2 DEF DiffInit, DiffInv

LEMMA DiffStep == DiffInv /\ [DiffNext]_diffVars => DiffInv'
<1>1. DiffInv /\ GivenMaster => DiffInv'
  BY DEF DiffInv, GivenMaster
<1>2. DiffInv /\ GivenSuggested => DiffInv'
  BY DEF DiffInv, GivenSuggested
<1>3. DiffInv /\ UNCHANGED diffVars => DiffInv'
  BY DEF DiffInv, diffVars
<1>. QED
  BY <1>1, <1>2, <1>3 DEF DiffNext

\* DiffIsLeast of lineDiff.ts: the rows of the review pane are both texts line
\* for line, and its counters the least edit, however many lines the texts have.
THEOREM DiffIsAlwaysLeast == DiffSpec => []DiffIsLeast
<1>1. DiffInv => DiffIsLeast
  <2>. SUFFICES ASSUME DiffInv PROVE DiffIsLeast
    OBVIOUS
  <2>. DEFINE a == Lines(master)
              b == Lines(suggested)
  <2>1. a \in Seq(Line) /\ b \in Seq(Line)
    BY LinesAreLines DEF DiffInv
  <2>2. drawn = lineDiff(a, b)
    BY DEF DiffInv, Draw
  <2>. HIDE DEF a, b
  <2>3. Drawn(a, b, LcsTable(a, b), Len(a), Len(b), drawn)
    BY <2>1, <2>2, DiffIsDrawn
  <2>4. SubSeq(a, 1, Len(a)) = a /\ SubSeq(b, 1, Len(b)) = b /\ Len(a) \in Nat /\ Len(b) \in Nat
    BY <2>1
  <2>5. TextOf(drawn, {"same", "del"}) = a /\ TextOf(drawn, {"same", "add"}) = b
    BY <2>3, <2>4 DEF Drawn
  <2>6. ASSUME NEW r \in Readings(a) \cap Readings(b)
        PROVE  Len(a) - Removed >= Len(r) /\ Len(b) - Added >= Len(r)
    <3>1. Len(r) \in Nat /\ Common(a, b, Len(a), Len(b), Len(r))
      BY <2>1, ReadingIsCommon
    <3>. DEFINE c == LcsTable(a, b)[<<Len(a), Len(b)>>]
    <3>2. Len(r) <= c
      <4>1. BoundAt(a, b, <<Len(a), Len(b)>>)
        BY <2>1, LcsBound
      <4>. QED
        BY <3>1, <4>1 DEF BoundAt
    <3>3. c \in Nat
      <4>1. LcsFilled(a, b, LcsTable(a, b))
        BY <2>1, LcsUnfolds
      <4>2. <<Len(a), Len(b)>> \in (0 .. Len(a)) \X (0 .. Len(b))
        BY <2>4
      <4>. QED
        BY <4>1, <4>2 DEF LcsFilled
    <3>4. Removed + c = Len(a) /\ Added + c = Len(b)
      BY <2>3 DEF Drawn, Removed, Added
    <3>5. Removed \in Nat /\ Added \in Nat
      BY <2>3, CountIsNat DEF Drawn, Removed, Added
    <3>. HIDE DEF c
    <3>. QED
      BY <2>4, <3>1, <3>2, <3>3, <3>4, <3>5
  <2>. QED
    BY <2>5, <2>6 DEF DiffIsLeast, a, b
<1>. QED
  BY <1>1, DiffStart, DiffStep, PTL DEF DiffSpec

-----------------------------------------------------------------------------
(***************************************************************************)
(* The types of what the reader sees: what a section, a run, a sentinel or *)
(* a pane names is of the topic.                                           *)
(***************************************************************************)

\* What is seen of a topic, item by item.
ItemsSeen(doc) == Seq(Range(doc.blocks)) \ {<<>>}

LEMMA BlocksTyped ==
  ASSUME NEW doc
  PROVE  \A b \in Range(doc.blocks) : b.id \in Ids(doc) /\ b.anchor \in Anchors(doc)
  BY DEF Range, Ids, Anchors

LEMMA SeenOfDoc ==
  ASSUME NEW r, r.doc \in Docs
  PROVE  \A b \in Range(Visible(r)) : b \in Range(r.doc.blocks)
<1>1. PICK v \in Seq(Range(r.doc.blocks)) : v = Visible(r)
  BY VisibleIsSeq
<1>2. \A i \in DOMAIN v : v[i] \in Range(r.doc.blocks)
  BY <1>1
<1>. QED
  BY <1>1, <1>2 DEF Range

LEMMA GroupedOfDoc ==
  ASSUME NEW r, r.doc \in Docs
  PROVE  Grouped(Visible(r)) \in Seq(ItemsSeen(r.doc))
<1>0. PICK B : B = Range(r.doc.blocks)
  OBVIOUS
<1>1. Visible(r) \in Seq(B)
  BY <1>0, VisibleIsSeq
<1>2. PICK q \in Seq(Seq(B)) : q = Grouped(Visible(r)) /\ \A i \in 1 .. Len(q) : ItemOk(q[i])
  BY <1>1, GroupedKeeps
<1>8. PICK S : S = Seq(B) \ {<<>>}
  OBVIOUS
<1>3. \A x \in Seq(B) : ItemOk(x) => x \in S
  BY <1>8 DEF ItemOk
<1>4. \A i \in 1 .. Len(q) : q[i] \in S
  BY <1>2, <1>3
<1>5. PICK n \in Nat : n = Len(q)
  OBVIOUS
<1>6. q = [i \in 1 .. n |-> q[i]]
  BY <1>5
<1>7. q \in Seq(S)
  <2>1. \A i \in 1 .. n : q[i] \in S
    BY <1>4, <1>5
  <2>2. q \in [1 .. n -> S]
    BY <1>6, <2>1
  <2>. QED
    BY <2>2
<1>. QED
  BY <1>0, <1>2, <1>7, <1>8 DEF ItemsSeen

LEMMA PageOfDoc ==
  ASSUME NEW r, r.doc \in Docs
  PROVE  \A s \in Range(Page(r)) : s \in SectionType(ItemsSeen(r.doc))
<1>. DEFINE T == ItemsSeen(r.doc)
<1>1. Grouped(Visible(r)) \in Seq(T)
  BY GroupedOfDoc
<1>. HIDE DEF T
<1>2. PICK p \in Seq(SectionType(T)) : p = Page(r)
  BY <1>1, SectionsKeep DEF Page
<1>3. \A i \in DOMAIN p : p[i] \in SectionType(T)
  BY <1>2
<1>. QED
  BY <1>2, <1>3 DEF Range, T

LEMMA ItemSeenFirst ==
  ASSUME NEW doc, NEW item \in ItemsSeen(doc)
  PROVE  item[1].id \in Ids(doc) /\ item[1].anchor \in Anchors(doc)
<1>1. item[1] \in Range(doc.blocks)
  BY DEF ItemsSeen
<1>. QED
  BY <1>1, BlocksTyped

LEMMA SectionItems ==
  ASSUME NEW T, NEW s \in SectionType(T)
  PROVE  s.items[1] \in T /\ \A item \in Range(s.items) : item \in T
<1>1. PICK q \in Seq(T) : q = s.items /\ q # <<>>
  BY DEF SectionType
<1>2. q[1] \in T /\ \A i \in DOMAIN q : q[i] \in T
  BY <1>1
<1>. QED
  BY <1>1, <1>2 DEF Range

LEMMA KeysTyped ==
  ASSUME NEW r, r.doc \in Docs
  PROVE  RunKeys(r) \subseteq Ids(r.doc) /\ Sentinels(r) \subseteq Anchors(r.doc)
<1>1. \A s \in Range(Page(r)) : RunKey(s) \in Ids(r.doc)
  BY PageOfDoc, SectionItems, ItemSeenFirst DEF RunKey
<1>2. \A s \in Range(Page(r)) : \A item \in Range(s.items) : item[1].anchor \in Anchors(r.doc)
  BY PageOfDoc, SectionItems, ItemSeenFirst
<1>3. RunKeys(r) \subseteq Ids(r.doc)
  BY <1>1 DEF RunKeys
<1>4. Sentinels(r) \subseteq Anchors(r.doc)
  BY <1>2 DEF Sentinels
<1>. QED
  BY <1>3, <1>4

LEMMA PaneTyped ==
  ASSUME NEW r, r.doc \in Docs, r.active \in Anchors(r.doc), r.pinned \in Anchors(r.doc)
  PROVE  Pinned(r) \in Anchors(r.doc)
<1>0. PICK B : B = Range(r.doc.blocks)
  OBVIOUS
<1>1. PICK v \in Seq(B) : v = Visible(r)
  BY <1>0, VisibleIsSeq
<1>4. DOMAIN v \subseteq Nat /\ \A i \in DOMAIN v : v[i] \in B
  OBVIOUS
<1>. DEFINE K == {i \in DOMAIN v : Pinnable(v[i]) /\ v[i].anchor # ""}
<1>2. ASSUME PlotAnchors(v) # {} PROVE FirstPlot(v) \in Anchors(r.doc)
  <2>1. K \in SUBSET Nat /\ K # {}
    <3>1. PICK i \in DOMAIN v : Pinnable(v[i]) /\ v[i].anchor # ""
      BY <1>2 DEF PlotAnchors
    <3>2. i \in K
      BY <3>1
    <3>. QED
      BY <1>4, <3>2
  <2>0. \A i \in K : v[i] \in B
    BY <1>4
  <2>. HIDE DEF K
  <2>2. Min(K) \in K
    BY <2>1, LeastOfSet DEF Min
  <2>3. FirstPlot(v) = v[Min(K)].anchor
    BY DEF FirstPlot, K
  <2>. QED
    BY <1>0, <2>0, <2>2, <2>3, BlocksTyped
<1>3. "" \in Anchors(r.doc)
  BY DEF Anchors
<1>. QED
  BY <1>1, <1>2, <1>3 DEF Pinned

\* ReaderTypeOK of a state that a handler makes, before its render.
ReaderIs(r) ==
    /\ r.doc \in Docs
    /\ r.surface \in {"scroll", "slides"}
    /\ r.layer \in {"intuition", "formal", "both"}
    /\ r.wide \in BOOLEAN
    /\ \A a \in DOMAIN r.picks : r.picks[a] \in Choice \cup {NoPick}
    /\ r.active \in Anchors(r.doc) /\ r.pinned \in Anchors(r.doc)
    /\ r.fired \subseteq Ids(r.doc) /\ r.toggled \subseteq Ids(r.doc)
    /\ r.lang \in {"python", "r"} /\ r.hasR \in BOOLEAN
    /\ DOMAIN resets = Ids(r.doc)

ReaderTypes == ReaderIs(rd) /\ ReaderInv

LEMMA ShownTyped ==
  ASSUME NEW r, ReaderIs(r), IsReader(r), Shown(r)
  PROVE  ReaderIs(rd)'
<1>. DEFINE firing == {b.id : b \in Unfired(r)}
<1>1. /\ rd'.doc = r.doc /\ rd'.surface = r.surface /\ rd'.layer = r.layer
      /\ rd'.wide = r.wide /\ rd'.picks = r.picks /\ rd'.active = r.active
      /\ rd'.lang = r.lang /\ rd'.hasR = r.hasR /\ rd'.pinned = Pinned(r)
      /\ rd'.fired = r.fired \cup firing
      /\ rd'.toggled = {} \/ rd'.toggled = r.toggled \cap RunKeys(r)
  BY DEF Shown, IsReader, Fields
<1>2. firing \subseteq Ids(r.doc)
  <2>1. \A b \in Unfired(r) : b \in Range(r.doc.blocks)
    BY SeenOfDoc DEF Unfired, ReaderIs
  <2>. QED
    BY <2>1, BlocksTyped
<1>3. Pinned(r) \in Anchors(r.doc)
  BY PaneTyped DEF ReaderIs
<1>4. DOMAIN resets' = DOMAIN resets
  BY DEF Shown
<1>. HIDE DEF firing
<1>. QED
  BY <1>1, <1>2, <1>3, <1>4 DEF ReaderIs

LEMMA ReaderTypesStart == ReaderInit => ReaderIs(rd)
<1>. SUFFICES ASSUME ReaderInit PROVE ReaderIs(rd)
  OBVIOUS
<1>1. PICK d \in Docs, w \in BOOLEAN, l \in {"intuition", "both"} :
        LET top == [doc |-> d, surface |-> "scroll", layer |-> l, wide |-> w,
                    picks |-> [a \in Decisions(d) |-> NoPick],
                    active |-> "", pinned |-> "", fired |-> {}, toggled |-> {},
                    slide |-> 0, lang |-> "python", hasR |-> FALSE]
        IN  /\ rd = [top EXCEPT !.pinned = Pinned(top)]
            /\ resets = [i \in Ids(d) |-> 0]
  BY DEF ReaderInit
<1>. DEFINE top == [doc |-> d, surface |-> "scroll", layer |-> l, wide |-> w,
                    picks |-> [a \in Decisions(d) |-> NoPick],
                    active |-> "", pinned |-> "", fired |-> {}, toggled |-> {},
                    slide |-> 0, lang |-> "python", hasR |-> FALSE]
<1>2. "" \in Anchors(d)
  BY DEF Anchors
<1>3. Pinned(top) \in Anchors(d)
  <2>1. PICK r : r = top
    OBVIOUS
  <2>2. r.doc = d /\ r.active = "" /\ r.pinned = ""
    BY <2>1
  <2>. QED
    BY <1>2, <2>1, <2>2, PaneTyped
<1>4. /\ rd.doc = d /\ rd.surface = "scroll" /\ rd.layer = l /\ rd.wide = w
      /\ rd.picks = [a \in Decisions(d) |-> NoPick] /\ rd.active = "" /\ rd.pinned = Pinned(top)
      /\ rd.fired = {} /\ rd.toggled = {} /\ rd.lang = "python" /\ rd.hasR = FALSE
      /\ DOMAIN resets = Ids(d)
  BY <1>1
<1>. HIDE DEF top
<1>. QED
  BY <1>2, <1>3, <1>4 DEF ReaderIs

LEMMA ReaderTypesStep == ReaderTypes /\ [ReaderNext]_readerVars => ReaderIs(rd)'
<1>1. ASSUME ReaderTypes, NEW l \in {"intuition", "formal", "both"}, SetLayer(l)
      PROVE  ReaderIs(rd)'
  <2>1. PICK r : r = [rd EXCEPT !.layer = l] /\ Shown(r)
    BY <1>1 DEF SetLayer
  <2>2. ReaderIs(r) /\ IsReader(r)
    BY <1>1, <2>1 DEF ReaderTypes, ReaderInv, IsReader, Fields, ReaderIs
  <2>. QED
    BY <2>1, <2>2, ShownTyped
<1>2. ASSUME ReaderTypes, Resize
      PROVE  ReaderIs(rd)'
  <2>1. PICK r : r = [rd EXCEPT !.wide = ~@] /\ Shown(r)
    BY <1>2 DEF Resize
  <2>2. ReaderIs(r) /\ IsReader(r)
    BY <1>2, <2>1 DEF ReaderTypes, ReaderInv, IsReader, Fields, ReaderIs
  <2>. QED
    BY <2>1, <2>2, ShownTyped
<1>3. ASSUME ReaderTypes, NEW a \in Sentinels(rd), ScrollTo(a)
      PROVE  ReaderIs(rd)'
  <2>1. PICK r : r = [rd EXCEPT !.active = a] /\ Shown(r)
    BY <1>3 DEF ScrollTo
  <2>2. a \in Anchors(rd.doc)
    BY <1>3, KeysTyped DEF ReaderTypes, ReaderIs
  <2>3. ReaderIs(r) /\ IsReader(r)
    BY <1>3, <2>1, <2>2 DEF ReaderTypes, ReaderInv, IsReader, Fields, ReaderIs
  <2>. QED
    BY <2>1, <2>3, ShownTyped
<1>4. ASSUME ReaderTypes, NEW a \in DOMAIN rd.picks, NEW o \in Choice \cup {NoPick}, Pick(a, o)
      PROVE  ReaderIs(rd)'
  <2>1. PICK r : r = [rd EXCEPT !.picks[a] = o] /\ Shown(r)
    BY <1>4 DEF Pick
  <2>2. ReaderIs(r) /\ IsReader(r)
    BY <1>4, <2>1 DEF ReaderTypes, ReaderInv, IsReader, Fields, ReaderIs
  <2>. QED
    BY <2>1, <2>2, ShownTyped
<1>5. ASSUME ReaderTypes, NEW key \in RunKeys(rd), ToggleRun(key)
      PROVE  ReaderIs(rd)'
  <2>1. rd' = [rd EXCEPT !.toggled = SymDiff(@, {key})] /\ resets' = resets
    BY <1>5 DEF ToggleRun
  <2>2. key \in Ids(rd.doc)
    BY <1>5, KeysTyped DEF ReaderTypes, ReaderIs
  <2>. QED
    BY <1>5, <2>1, <2>2 DEF ReaderTypes, ReaderInv, IsReader, Fields, ReaderIs, SymDiff
<1>6. ASSUME ReaderTypes, NEW s \in {"scroll", "slides"}, ChangeSurface(s)
      PROVE  ReaderIs(rd)'
  <2>1. PICK r : r = Unscrolled([rd EXCEPT !.surface = s]) /\ Shown(r)
    BY <1>6 DEF ChangeSurface
  <2>2. "" \in Anchors(rd.doc)
    BY DEF Anchors
  <2>3. ReaderIs(r) /\ IsReader(r)
    BY <1>6, <2>1, <2>2 DEF ReaderTypes, ReaderInv, IsReader, Fields, ReaderIs, Unscrolled
  <2>. QED
    BY <2>1, <2>3, ShownTyped
<1>7. ASSUME ReaderTypes, NEW step \in {-1, 1}, Turn(step)
      PROVE  ReaderIs(rd)'
  <2>1. PICK r : r = [rd EXCEPT !.slide = @ + step] /\ Shown(r)
    BY <1>7 DEF Turn
  <2>2. rd.slide + step \in Nat
    BY <1>7 DEF ReaderTypes, ReaderInv, IsReader, Turn, CanPrev
  <2>3. ReaderIs(r) /\ IsReader(r)
    BY <1>7, <2>1, <2>2 DEF ReaderTypes, ReaderInv, IsReader, Fields, ReaderIs
  <2>. QED
    BY <2>1, <2>3, ShownTyped
<1>8. ASSUME ReaderTypes, NEW i \in 0 .. Slides(rd), Goto(i)
      PROVE  ReaderIs(rd)'
  <2>1. PICK r : r = [rd EXCEPT !.slide = i] /\ Shown(r)
    BY <1>8 DEF Goto
  <2>2. ReaderIs(r) /\ IsReader(r)
    BY <1>8, <2>1 DEF ReaderTypes, ReaderInv, IsReader, Fields, ReaderIs
  <2>. QED
    BY <2>1, <2>2, ShownTyped
<1>9. ASSUME ReaderTypes, NEW l \in {"python", "r"}, SetLang(l)
      PROVE  ReaderIs(rd)'
  <2>1. PICK r : r = [rd EXCEPT !.lang = l] /\ Shown(r)
    BY <1>9 DEF SetLang
  <2>2. ReaderIs(r) /\ IsReader(r)
    BY <1>9, <2>1 DEF ReaderTypes, ReaderInv, IsReader, Fields, ReaderIs
  <2>. QED
    BY <2>1, <2>2, ShownTyped
<1>10. ASSUME ReaderTypes, Capable
       PROVE  ReaderIs(rd)'
  <2>1. PICK r : r = [rd EXCEPT !.hasR = TRUE] /\ Shown(r)
    BY <1>10 DEF Capable
  <2>2. ReaderIs(r) /\ IsReader(r)
    BY <1>10, <2>1 DEF ReaderTypes, ReaderInv, IsReader, Fields, ReaderIs
  <2>. QED
    BY <2>1, <2>2, ShownTyped
<1>11. ASSUME ReaderTypes, UNCHANGED readerVars
       PROVE  ReaderIs(rd)'
  BY <1>11 DEF ReaderTypes, ReaderIs, readerVars
<1>. QED
  BY <1>1, <1>2, <1>3, <1>4, <1>5, <1>6, <1>7, <1>8, <1>9, <1>10, <1>11 DEF ReaderNext

\* The layer, the picks, the place, the pane, the resets that fired and the
\* runs that were opened (ScrollReader, SlideView) are of the topic that is
\* read, whatever its blocks.
THEOREM ReaderTypeCorrect == ReaderSpec => []ReaderTypeOK
<1>1. ReaderTypes => ReaderTypeOK
  BY DEF ReaderTypes, ReaderIs, ReaderInv, IsReader, ReaderTypeOK
<1>2. ReaderInit => ReaderTypes
  BY ReaderStart, ReaderTypesStart DEF ReaderTypes
<1>3. ReaderTypes /\ [ReaderNext]_readerVars => ReaderTypes'
  BY ReaderStep, ReaderTypesStep DEF ReaderTypes
<1>. QED
  BY <1>1, <1>2, <1>3, PTL DEF ReaderSpec

\* The edges and the requests under way keep their types, also while requests
\* overlap (create_edge).
THEOREM EdgesTypeCorrect == PrerequisiteSpec => []PrerequisiteTypeOK
<1>1. PrerequisiteInit => PrerequisiteTypeOK
  BY EdgesStart DEF EdgeInv
<1>2. PrerequisiteTypeOK /\ [PrerequisiteNext]_edgeVars => PrerequisiteTypeOK'
  <2>1. ASSUME PrerequisiteTypeOK, NEW c \in Editor, NEW s \in Topic, NEW t \in Topic, CreateEdge(c, s, t)
        PROVE  PrerequisiteTypeOK'
    <3>1. <<s, t>> \in Edge
      BY <2>1 DEF CreateEdge, Safe, Edge
    <3>. QED
      BY <2>1, <3>1 DEF CreateEdge, PrerequisiteTypeOK
  <2>2. ASSUME PrerequisiteTypeOK, NEW c \in Editor, InsertEdge(c)
        PROVE  PrerequisiteTypeOK'
    BY <2>2 DEF InsertEdge, PrerequisiteTypeOK
  <2>3. ASSUME PrerequisiteTypeOK, UNCHANGED edgeVars
        PROVE  PrerequisiteTypeOK'
    BY <2>3 DEF edgeVars, PrerequisiteTypeOK
  <2>. QED
    BY <2>1, <2>2, <2>3 DEF PrerequisiteNext
<1>. QED
  BY <1>1, <1>2, PTL DEF PrerequisiteSpec

LEMMA DiffTyped == DiffInv => DiffTypeOK
<1>. SUFFICES ASSUME DiffInv PROVE DiffTypeOK
  OBVIOUS
<1>. DEFINE a == Lines(master)
            b == Lines(suggested)
<1>1. a \in Seq(Line) /\ b \in Seq(Line)
  BY LinesAreLines DEF DiffInv
<1>2. drawn = lineDiff(a, b)
  BY DEF DiffInv, Draw
<1>. HIDE DEF a, b
<1>3. drawn \in Seq(DiffRow)
  BY <1>1, <1>2, DiffIsDrawn DEF Drawn
<1>4. \A k \in DOMAIN drawn : drawn[k] \in DiffRow
  BY <1>3
<1>. QED
  BY <1>4 DEF DiffTypeOK, DiffInv, DiffRow

\* The texts of the review pane and the rows it draws keep their types.
THEOREM DiffTypeCorrect == DiffSpec => []DiffTypeOK
  BY DiffStart, DiffStep, DiffTyped, PTL DEF DiffSpec
===============================================================================
