-------------------------- MODULE MergeBack_proofs --------------------------
(***************************************************************************)
(* Theorems about MergeBack, for any authors, rows, connections and texts. *)
(***************************************************************************)
EXTENDS MergeBack, FiniteSetTheorems, TLAPS

-----------------------------------------------------------------------------
(***************************************************************************)
(* What requests have read: an accept or a reject stands on a suggestion   *)
(* that was inserted, and only accepts delete rows.                        *)
(***************************************************************************)
Grounded(c) ==
    /\ c.op \in {"accept", "reject"} =>
          c.sug \in Suggestion /\ sug[c.sug].status # "none"
    /\ c.op = "suggest" => c.sug \in Suggestion /\ c.fork \in Fork
    /\ c.op = "fork" => c.fork \in Fork
    /\ c.phase \in {"deleting", "applied"} => c.op = "accept"

CallsGrounded == \A k \in Conn : Grounded(call[k])

Inv == TypeOK /\ CallsGrounded /\ NoOrphan

(***************************************************************************)
(* Where the text of content.md comes from.  The batch an accept is going  *)
(* to commit is new to every transaction's snapshot; and content.md was    *)
(* last written by an accept that has yet to commit, or whose batch is     *)
(* still there and in no snapshot of an accept that wrote the file before  *)
(* it.                                                                     *)
(***************************************************************************)
Applied(k) == call[k].phase = "applied"
Result(k) == [by |-> k, sug |-> call[k].sug, text |-> call[k].text]
Batches == blocks \cup UNION {call[k].seen : k \in Conn}

Old(b) ==
    b.by # None =>
        /\ b.sug \in Suggestion /\ Closed(b.sug)
        /\ call[b.by].op = "accept" => b.sug # call[b.by].sug

BatchesOld == \A b \in Batches : Old(b)

Safe(b) == b \in blocks /\ \A j \in Conn : Applied(j) => b \notin call[j].seen

DiskTraced ==
    \/ \E b \in blocks : b.text = disk /\ Safe(b)
    \/ \E k \in Conn : Applied(k) /\ call[k].text = disk

DiskInv == Inv /\ BatchesOld /\ DiskTraced

-----------------------------------------------------------------------------
(***************************************************************************)
(* Types.                                                                  *)
(***************************************************************************)

LEMMA IdleType == Idle \in CallState
  BY ConstantsAssumption DEF Idle, CallState

LEMMA InitInv == Init => Inv
<1>. SUFFICES ASSUME Init PROVE Inv
  OBVIOUS
<1>1. TypeOK
  BY IdleType, ConstantsAssumption
     DEF Init, TypeOK, ForkRow, SuggestionRow, Status, Imported, Batch
<1>2. CallsGrounded
  BY DEF Init, CallsGrounded, Grounded, Idle
<1>3. NoOrphan
  BY DEF Init, NoOrphan
<1>. QED
  BY <1>1, <1>2, <1>3 DEF Inv

LEMMA SpendType ==
  ASSUME TypeOK, NEW what \in Budget, Spend(what)
  PROVE  spent' \in [Budget -> Nat]
  BY DEF TypeOK, Spend

\* The step leaves every request alone but k's.
LEMMA CallType ==
  ASSUME TypeOK, NEW k \in Conn, NEW c \in CallState,
         call' = [call EXCEPT ![k] = c]
  PROVE  /\ call' \in [Conn -> CallState]
         /\ call'[k] = c
         /\ \A j \in Conn \ {k} : call'[j] = call[j]
  BY DEF TypeOK

(***************************************************************************)
(* Each kind of step, with what the later proofs need to know of it.       *)
(***************************************************************************)

LEMMA StartStep ==
  ASSUME Inv, NEW k \in Conn, Start(k)
  PROVE  /\ TypeOK'
         /\ CallsGrounded'
         /\ UNCHANGED <<fork, sug, blocks, disk>>
         /\ call[k] = Idle /\ call'[k].seen = {} /\ ~Applied(k)'
         /\ \A j \in Conn \ {k} : call'[j] = call[j]
         /\ call'[k].op = "accept" => sug[call'[k].sug].status = "pending"
<1>. USE DEF Inv
<1>. DEFINE c == call'[k]
<1>1. ASSUME NEW f \in Fork, ForkRead(k, f)
      PROVE  /\ call' = [call EXCEPT ![k] = c] /\ c \in CallState
             /\ c.op = "fork" /\ c.phase = "read" /\ c.seen = {} /\ c.fork = f
             /\ call[k] = Idle /\ UNCHANGED <<fork, sug, blocks, disk, spent>>
  BY <1>1, IdleType DEF ForkRead, TypeOK, CallState, Idle
<1>2. ASSUME NEW u \in Author, SuggestRead(k, u)
      PROVE  /\ call' = [call EXCEPT ![k] = c] /\ c \in CallState
             /\ c.op = "suggest" /\ c.phase = "read" /\ c.seen = {}
             /\ c.fork \in Fork /\ c.sug \in Suggestion
             /\ call[k] = Idle /\ UNCHANGED <<fork, sug, blocks, disk, spent>>
  <2>1. PICK f \in Reached(u), s \in Suggestion :
          /\ call[k] = Idle
          /\ call' = [call EXCEPT ![k] =
                        [Idle EXCEPT !.op = "suggest", !.phase = "read",
                             !.fork = f, !.sug = s, !.text = fork[f].text]]
          /\ UNCHANGED <<fork, sug, blocks, disk, spent>>
    BY <1>2 DEF SuggestRead
  <2>2. f \in Fork
    BY DEF Reached, Mine
  <2>3. fork[f].text \in Text
    BY <2>2 DEF TypeOK, ForkRow
  <2>. QED
    BY <2>1, <2>2, <2>3, IdleType DEF TypeOK, CallState, Idle
<1>3. ASSUME NEW s \in Suggestion, NEW op \in {"accept", "reject"},
             ReviewRead(k, s, op)
      PROVE  /\ call' = [call EXCEPT ![k] = c] /\ c \in CallState
             /\ c.op = op /\ c.phase = "read" /\ c.seen = {} /\ c.sug = s
             /\ sug[s].status = "pending"
             /\ call[k] = Idle /\ UNCHANGED <<fork, sug, blocks, disk, spent>>
  <2>1. sug[s].text \in Text
    BY DEF TypeOK, SuggestionRow
  <2>. QED
    BY <1>3, <2>1, IdleType DEF ReviewRead, Proposed, TypeOK, CallState, Idle
<1>4. /\ call' = [call EXCEPT ![k] = c] /\ c \in CallState
      /\ call[k] = Idle /\ UNCHANGED <<fork, sug, blocks, disk, spent>>
      /\ c.phase = "read" /\ c.seen = {}
      /\ \/ c.op = "fork" /\ c.fork \in Fork
         \/ c.op = "suggest" /\ c.fork \in Fork /\ c.sug \in Suggestion
         \/ /\ c.op \in {"accept", "reject"} /\ c.sug \in Suggestion
            /\ sug[c.sug].status = "pending"
  <2>1. CASE \E f \in Fork : ForkRead(k, f)
    BY <2>1, <1>1
  <2>2. CASE \E u \in Author : SuggestRead(k, u)
    BY <2>2, <1>2
  <2>3. CASE \E s \in Suggestion :
               ReviewRead(k, s, "accept") \/ ReviewRead(k, s, "reject")
    BY <2>3, <1>3
  <2>. QED
    BY <2>1, <2>2, <2>3 DEF Start
<1>. HIDE DEF c
<1>5. call' \in [Conn -> CallState] /\ \A j \in Conn \ {k} : call'[j] = call[j]
  BY <1>4, CallType
<1>6. TypeOK'
  BY <1>4, <1>5 DEF TypeOK
<1>7. CallsGrounded'
  BY <1>4, <1>5 DEF CallsGrounded, Grounded, c
<1>. QED
  BY <1>4, <1>5, <1>6, <1>7 DEF c, Applied

LEMMA EndStep ==
  ASSUME Inv, NEW k \in Conn, End(k)
  PROVE  /\ call' \in [Conn -> CallState] /\ call'[k] = Idle
         /\ \A j \in Conn \ {k} : call'[j] = call[j]
  BY IdleType, CallType DEF Inv, End

\* Requests stay grounded when one ends and no row is taken back.
LEMMA EndGrounded ==
  ASSUME Inv, NEW k \in Conn, End(k),
         \A s \in Suggestion : sug[s].status # "none" => sug'[s].status # "none"
  PROVE  CallsGrounded'
<1>1. Grounded(Idle)'
  BY DEF Grounded, Idle
<1>2. ASSUME NEW j \in Conn \ {k} PROVE Grounded(call[j])'
  BY EndStep DEF Inv, CallsGrounded, Grounded
<1>. QED
  BY <1>1, <1>2, EndStep DEF CallsGrounded, Grounded

LEMMA OwnerStep ==
  ASSUME Inv, NEW u \in Author, Owner(u)
  PROVE  /\ Inv'
         /\ UNCHANGED <<sug, blocks, disk, call, spent>>
<1>. USE DEF Inv
<1>1. ASSUME NEW text \in Draft, Save(u, text)
      PROVE  Inv' /\ UNCHANGED <<sug, blocks, disk, call, spent>>
  <2>1. PICK f \in Fork :
          /\ fork' = [fork EXCEPT ![f].text = text]
          /\ UNCHANGED <<sug, blocks, disk, call, spent>>
    BY <1>1 DEF Save, Reached, Mine
  <2>2. text \in Text
    BY DEF Draft
  <2>3. TypeOK'
    BY <2>1, <2>2 DEF TypeOK, ForkRow
  <2>4. CallsGrounded'
    BY <2>1 DEF CallsGrounded, Grounded
  <2>5. NoOrphan'
    BY <2>1 DEF NoOrphan, TypeOK, ForkRow
  <2>. QED
    BY <2>1, <2>3, <2>4, <2>5
<1>2. ASSUME Delete(u)
      PROVE  Inv' /\ UNCHANGED <<sug, blocks, disk, call, spent>>
  <2>1. PICK f \in Fork :
          /\ \A s \in Suggestion : sug[s].fork # f
          /\ fork' = [fork EXCEPT ![f].state = "deleted"]
          /\ UNCHANGED <<sug, blocks, disk, call, spent>>
    BY <1>2 DEF Delete, Reached, Mine
  <2>2. TypeOK'
    BY <2>1 DEF TypeOK, ForkRow
  <2>3. CallsGrounded'
    BY <2>1 DEF CallsGrounded, Grounded
  <2>4. NoOrphan'
    BY <2>1 DEF NoOrphan, TypeOK, ForkRow
  <2>. QED
    BY <2>1, <2>2, <2>3, <2>4
<1>. QED
  BY <1>1, <1>2 DEF Owner

LEMMA ForkInsertStep ==
  ASSUME Inv, NEW k \in Conn, ForkInsert(k)
  PROVE  Inv' /\ UNCHANGED <<sug, blocks, disk, spent>> /\ ~Applied(k)
<1>. USE DEF Inv
<1>1. /\ call[k].op = "fork" /\ call[k].fork \in Fork /\ ~Applied(k)
      /\ call[k].text \in Text
  BY DEF ForkInsert, CallsGrounded, Grounded, Applied, TypeOK, CallState
<1>2. TypeOK'
  BY <1>1, EndStep DEF ForkInsert, TypeOK, ForkRow
<1>3. CallsGrounded'
  BY EndGrounded DEF ForkInsert
<1>4. NoOrphan'
  BY <1>1 DEF ForkInsert, NoOrphan, TypeOK, ForkRow
<1>. QED
  BY <1>1, <1>2, <1>3, <1>4 DEF ForkInsert

LEMMA SuggestWriteStep ==
  ASSUME Inv, NEW k \in Conn, SuggestWrite(k)
  PROVE  /\ Inv' /\ UNCHANGED <<fork, blocks, disk, spent>> /\ ~Applied(k)
         /\ \A s \in Suggestion :
               sug[s].status # "none" => sug'[s].status = sug[s].status
<1>. USE DEF Inv
<1>. DEFINE c == call[k]
<1>1. /\ c.op = "suggest" /\ c.fork \in Fork /\ c.sug \in Suggestion
      /\ c.text \in Text /\ ~Applied(k)
  BY DEF SuggestWrite, CallsGrounded, Grounded, Applied, TypeOK, CallState
<1>2. /\ sug' \in [Suggestion -> SuggestionRow]
      /\ \A s \in Suggestion :
            sug[s].status # "none" =>
                sug'[s].status = sug[s].status /\ sug'[s].fork = sug[s].fork
      /\ \A s \in Suggestion :
            sug[s].status = "none" /\ sug'[s].status # "none" =>
                fork[sug'[s].fork].state = "live"
  <2>1. CASE /\ sug[c.sug].status # "none"
             /\ sug' = [sug EXCEPT ![c.sug] = Refreshed(@, c.text)]
    BY <1>1, <2>1 DEF Refreshed, TypeOK, SuggestionRow
  <2>2. CASE /\ sug[c.sug].status = "none" /\ KeysHold(c.fork)
             /\ sug' = [sug EXCEPT ![c.sug] =
                          [status |-> "pending", fork |-> c.fork, text |-> c.text]]
    BY <1>1, <2>2 DEF KeysHold, TypeOK, SuggestionRow, Status
  <2>. QED
    BY <2>1, <2>2 DEF SuggestWrite
<1>3. TypeOK'
  BY <1>2, EndStep DEF SuggestWrite, TypeOK
<1>4. CallsGrounded'
  BY <1>2, EndGrounded DEF SuggestWrite
<1>5. NoOrphan'
  BY <1>2 DEF SuggestWrite, NoOrphan
<1>. QED
  BY <1>1, <1>2, <1>3, <1>4, <1>5 DEF SuggestWrite

LEMMA AcceptDeleteStep ==
  ASSUME Inv, NEW k \in Conn, AcceptDelete(k)
  PROVE  /\ Inv' /\ UNCHANGED <<fork, sug, blocks, disk, spent>>
         /\ call' = [call EXCEPT ![k] =
                       [@ EXCEPT !.phase = "deleting", !.seen = blocks]]
<1>. USE DEF Inv
<1>. DEFINE c == [call[k] EXCEPT !.phase = "deleting", !.seen = blocks]
<1>1. c \in CallState /\ call' = [call EXCEPT ![k] = c]
  BY DEF AcceptDelete, TypeOK, CallState
<1>2. /\ call' \in [Conn -> CallState] /\ call'[k] = c
      /\ \A j \in Conn \ {k} : call'[j] = call[j]
  BY <1>1, CallType
<1>3. TypeOK'
  BY <1>2 DEF AcceptDelete, TypeOK
<1>4. Grounded(call[k]) /\ call[k] \in CallState /\ call[k].op = "accept"
  BY DEF CallsGrounded, AcceptDelete, TypeOK
<1>5. Grounded(c)
  BY <1>4 DEF Grounded, CallState
<1>6. CallsGrounded'
  BY <1>2, <1>5 DEF AcceptDelete, CallsGrounded, Grounded
<1>7. NoOrphan'
  BY DEF AcceptDelete, NoOrphan
<1>. QED
  BY <1>1, <1>3, <1>6, <1>7 DEF AcceptDelete

LEMMA AcceptApplyStep ==
  ASSUME Inv, NEW k \in Conn, AcceptApply(k)
  PROVE  /\ Inv' /\ UNCHANGED <<fork, sug, blocks, spent>>
         /\ disk' = call[k].text
         /\ call' = [call EXCEPT ![k] = [@ EXCEPT !.phase = "applied"]]
<1>. USE DEF Inv
<1>. DEFINE c == [call[k] EXCEPT !.phase = "applied"]
<1>1. c \in CallState /\ call' = [call EXCEPT ![k] = c]
  BY DEF AcceptApply, TypeOK, CallState
<1>2. /\ call' \in [Conn -> CallState] /\ call'[k] = c
      /\ \A j \in Conn \ {k} : call'[j] = call[j]
  BY <1>1, CallType
<1>3. disk' = call[k].text /\ disk' \in Text
  BY DEF AcceptApply, SourceWritten, TypeOK, CallState
<1>4. TypeOK'
  BY <1>2, <1>3 DEF AcceptApply, TypeOK
<1>5. Grounded(call[k]) /\ call[k] \in CallState /\ call[k].phase = "deleting"
  BY DEF CallsGrounded, AcceptApply, TypeOK
<1>6. Grounded(c)
  BY <1>5 DEF Grounded, CallState
<1>7. CallsGrounded'
  BY <1>2, <1>6 DEF AcceptApply, CallsGrounded, Grounded
<1>8. NoOrphan'
  BY DEF AcceptApply, NoOrphan
<1>. QED
  BY <1>1, <1>3, <1>4, <1>7, <1>8 DEF AcceptApply

\* A suggestion is resolved, and the request that did it ends.
LEMMA ResolvedStep ==
  ASSUME Inv, NEW k \in Conn, NEW status \in {"accepted", "rejected"},
         call[k].op \in {"accept", "reject"},
         Resolved(call[k].sug, status), End(k)
  PROVE  /\ sug' \in [Suggestion -> SuggestionRow]
         /\ CallsGrounded'
         /\ UNCHANGED fork => NoOrphan'
         /\ call[k].sug \in Suggestion /\ sug'[call[k].sug].status = status
         /\ \A s \in Suggestion \ {call[k].sug} : sug'[s] = sug[s]
<1>. USE DEF Inv
<1>1. call[k].sug \in Suggestion /\ sug[call[k].sug].status # "none"
  BY DEF CallsGrounded, Grounded
<1>2. /\ sug' \in [Suggestion -> SuggestionRow]
      /\ sug'[call[k].sug].status = status
      /\ \A s \in Suggestion \ {call[k].sug} : sug'[s] = sug[s]
      /\ \A s \in Suggestion : sug'[s].fork = sug[s].fork
  BY <1>1 DEF Resolved, TypeOK, SuggestionRow, Status
<1>3. CallsGrounded'
  BY <1>2, EndGrounded
<1>4. UNCHANGED fork => NoOrphan'
  BY <1>1, <1>2 DEF NoOrphan
<1>. QED
  BY <1>1, <1>2, <1>3, <1>4

LEMMA AcceptCommitStep ==
  ASSUME Inv, NEW k \in Conn, AcceptCommit(k)
  PROVE  Inv' /\ call[k].op = "accept"
<1>. USE DEF Inv
<1>1. call[k].op = "accept" /\ call[k].text \in Text /\ call[k].sug \in Suggestion
  BY DEF AcceptCommit, CallsGrounded, Grounded, TypeOK, CallState
<1>2. blocks' \subseteq Batch
  BY <1>1 DEF AcceptCommit, TypeOK, Batch
<1>3. TypeOK' /\ CallsGrounded' /\ NoOrphan'
  BY <1>1, <1>2, ResolvedStep, EndStep DEF AcceptCommit, TypeOK
<1>. QED
  BY <1>1, <1>3

LEMMA RejectCommitStep ==
  ASSUME Inv, NEW k \in Conn, RejectCommit(k)
  PROVE  Inv' /\ ~Applied(k)
<1>. USE DEF Inv
<1>1. TypeOK' /\ CallsGrounded' /\ NoOrphan'
  BY ResolvedStep, EndStep DEF RejectCommit, TypeOK
<1>. QED
  BY <1>1 DEF RejectCommit, CallsGrounded, Grounded, Applied

\* A request ends with no effect on the rows.
LEMMA DropStep ==
  ASSUME Inv, NEW k \in Conn, End(k), UNCHANGED <<fork, sug, blocks>>,
         disk' \in Text, spent' \in [Budget -> Nat]
  PROVE  Inv'
<1>. USE DEF Inv
<1>1. TypeOK'
  BY EndStep DEF TypeOK
<1>2. CallsGrounded' /\ NoOrphan'
  BY EndGrounded DEF NoOrphan
<1>. QED
  BY <1>1, <1>2

LEMMA RestartStep ==
  ASSUME Inv, Restart
  PROVE  Inv' /\ UNCHANGED <<fork, sug>>
<1>. USE DEF Inv
<1>1. spent' \in [Budget -> Nat]
  BY SpendType DEF Restart, Budget
<1>2. disk' \in Text
  BY ConstantsAssumption DEF Restart, TypeOK
<1>3. blocks' \subseteq Batch
  BY <1>2 DEF Restart, TypeOK, Imported, Batch
<1>4. call' \in [Conn -> CallState]
  BY IdleType DEF Restart
<1>5. TypeOK'
  BY <1>1, <1>2, <1>3, <1>4 DEF Restart, TypeOK
<1>6. CallsGrounded'
  BY DEF Restart, CallsGrounded, Grounded, Idle
<1>. QED
  BY <1>5, <1>6 DEF Restart, NoOrphan

-----------------------------------------------------------------------------
(***************************************************************************)
(* The invariant is inductive, and no step reopens a suggestion.           *)
(***************************************************************************)

NeverReopened == \A s \in Suggestion : Closed(s) => Closed(s)'

LEMMA InvStep == Inv /\ [Next]_vars => Inv' /\ NeverReopened
<1>. SUFFICES ASSUME Inv, [Next]_vars PROVE Inv' /\ NeverReopened
  OBVIOUS
<1>. USE DEF Inv
<1>1. ASSUME NEW u \in Author, Owner(u) PROVE Inv' /\ NeverReopened
  BY <1>1, OwnerStep DEF NeverReopened, Closed
<1>2. ASSUME NEW k \in Conn, Start(k) PROVE Inv' /\ NeverReopened
  <2>1. NoOrphan'
    BY <1>2, StartStep DEF NoOrphan
  <2>. QED
    BY <1>2, <2>1, StartStep DEF NeverReopened, Closed
<1>3. ASSUME NEW k \in Conn, Serve(k) PROVE Inv' /\ NeverReopened
  <2>1. CASE ForkInsert(k)
    BY <2>1, ForkInsertStep DEF NeverReopened, Closed
  <2>2. CASE SuggestWrite(k)
    BY <2>2, SuggestWriteStep DEF NeverReopened, Closed
  <2>3. CASE AcceptDelete(k)
    BY <2>3, AcceptDeleteStep DEF NeverReopened, Closed
  <2>4. CASE AcceptApply(k)
    BY <2>4, AcceptApplyStep DEF NeverReopened, Closed
  <2>5. CASE AcceptCommit(k)
    <3>1. Inv' /\ call[k].op = "accept"
      BY <2>5, AcceptCommitStep
    <3>2. NeverReopened
      BY <2>5, <3>1, ResolvedStep DEF AcceptCommit, NeverReopened, Closed
    <3>. QED
      BY <3>1, <3>2
  <2>6. CASE RejectCommit(k)
    <3>1. NeverReopened
      BY <2>6, ResolvedStep DEF RejectCommit, NeverReopened, Closed
    <3>. QED
      BY <2>6, <3>1, RejectCommitStep
  <2>7. CASE SuggestRefused(k)
    BY <2>7, DropStep DEF SuggestRefused, TypeOK, NeverReopened, Closed
  <2>. QED
    BY <1>3, <2>1, <2>2, <2>3, <2>4, <2>5, <2>6, <2>7 DEF Serve
<1>4. ASSUME NEW k \in Conn, AcceptUnwritten(k) \/ Abort(k)
      PROVE  Inv' /\ NeverReopened
  <2>1. spent' \in [Budget -> Nat] /\ disk' \in Text /\ End(k)
    BY <1>4, ConstantsAssumption, SpendType
       DEF AcceptUnwritten, Abort, TypeOK, Budget
  <2>2. UNCHANGED <<fork, sug, blocks>>
    BY <1>4 DEF AcceptUnwritten, Abort
  <2>. QED
    BY <2>1, <2>2, DropStep DEF NeverReopened, Closed
<1>5. CASE Restart
  BY <1>5, RestartStep DEF NeverReopened, Closed
<1>6. CASE UNCHANGED vars
  <2>1. TypeOK' /\ CallsGrounded' /\ NoOrphan'
    BY <1>6 DEF vars, TypeOK, CallsGrounded, Grounded, NoOrphan
  <2>. QED
    BY <1>6, <2>1 DEF vars, NeverReopened, Closed
<1>. QED
  BY <1>1, <1>2, <1>3, <1>4, <1>5, <1>6 DEF Next

LEMMA Invariance == Spec => []Inv
<1>1. Init => Inv
  BY InitInv
<1>2. Inv /\ [Next]_vars => Inv'
  BY InvStep
<1>. QED
  BY <1>1, <1>2, PTL DEF Spec

\* Every variable keeps its type.
THEOREM TypeCorrect == Spec => []TypeOK
<1>1. Inv => TypeOK
  BY DEF Inv
<1>. QED
  BY <1>1, Invariance, PTL

\* A suggestion always has its fork: the delete of a fork and the insert of
\* a suggestion for it never both succeed (delete_fork, suggest_from_fork).
THEOREM SuggestionsHaveForks == Spec => []NoOrphan
<1>1. Inv => NoOrphan
  BY DEF Inv
<1>. QED
  BY <1>1, Invariance, PTL

\* However the requests of owners and reviewers overlap, a suggestion that
\* was accepted or rejected is never pending again.
THEOREM ResolvedStaysResolved == Spec => Settled
<1>1. Inv /\ [Next]_vars => [\A s \in Suggestion : Closed(s) => Closed(s)']_vars
  BY InvStep DEF NeverReopened
<1>. QED
  BY <1>1, Invariance, PTL DEF Spec, Settled

-----------------------------------------------------------------------------
(***************************************************************************)
(* content.md and the rows.                                                *)
(***************************************************************************)

\* Requests that are alike for this purpose: k's may have ended.
LEMMA SameBatches ==
  ASSUME Inv, BatchesOld, NEW k \in Conn, UNCHANGED <<blocks, disk>>,
         call'[k].seen \subseteq Batches,
         call'[k].op = "accept" =>
            \/ call[k].op = "accept" /\ call'[k].sug = call[k].sug
            \/ ~Closed(call'[k].sug),
         \A j \in Conn \ {k} : call'[j] = call[j],
         NeverReopened
  PROVE  BatchesOld'
<1>1. Batches' \subseteq Batches
  BY DEF Batches
<1>2. SUFFICES ASSUME NEW b \in Batches, b.by # None PROVE Old(b)'
  BY <1>1 DEF BatchesOld, Old
<1>3. /\ b.sug \in Suggestion /\ Closed(b.sug)
      /\ call[b.by].op = "accept" => b.sug # call[b.by].sug
  BY <1>2 DEF BatchesOld, Old
<1>4. b \in Batch
  BY <1>2 DEF Inv, TypeOK, Batches, CallState
<1>5. b.by \in Conn
  BY <1>2, <1>4 DEF Batch
<1>6. Closed(b.sug)'
  BY <1>3 DEF NeverReopened
<1>7. CASE b.by = k
  BY <1>3, <1>6, <1>7 DEF Old
<1>8. CASE b.by # k
  BY <1>3, <1>5, <1>6, <1>8 DEF Old
<1>. QED
  BY <1>7, <1>8

\* ... and hence the traces of content.md, if k's request neither wrote it
\* nor committed.
LEMMA SameTrace ==
  ASSUME DiskTraced, NEW k \in Conn, UNCHANGED <<blocks, disk>>,
         ~Applied(k), ~Applied(k)',
         \A j \in Conn \ {k} : call'[j] = call[j]
  PROVE  DiskTraced'
<1>1. \A j \in Conn : Applied(j)' => Applied(j) /\ call'[j] = call[j]
  BY DEF Applied
<1>2. \A j \in Conn : Applied(j) => Applied(j)' /\ call'[j] = call[j]
  BY DEF Applied
<1>3. ASSUME NEW b \in blocks, b.text = disk, Safe(b) PROVE DiskTraced'
  <2>1. Safe(b)'
    BY <1>1, <1>3 DEF Safe
  <2>. QED
    BY <1>3, <2>1 DEF DiskTraced
<1>4. ASSUME NEW j \in Conn, Applied(j), call[j].text = disk PROVE DiskTraced'
  BY <1>2, <1>4 DEF DiskTraced
<1>. QED
  BY <1>3, <1>4 DEF DiskTraced

LEMMA AcceptDeleteDisk ==
  ASSUME DiskInv, NEW k \in Conn, AcceptDelete(k), NeverReopened
  PROVE  BatchesOld' /\ DiskTraced'
<1>. USE DEF DiskInv, Inv
<1>1. /\ call' = [call EXCEPT ![k] =
                    [@ EXCEPT !.phase = "deleting", !.seen = blocks]]
      /\ UNCHANGED <<blocks, disk>>
  BY AcceptDeleteStep
<1>2. /\ call[k].op = "accept" /\ call[k].phase = "read"
      /\ call'[k].op = "accept" /\ call'[k].sug = call[k].sug
      /\ call'[k].seen = blocks /\ call'[k].phase = "deleting"
      /\ \A j \in Conn \ {k} : call'[j] = call[j]
  BY <1>1 DEF AcceptDelete, TypeOK, CallState
<1>3. BatchesOld'
  BY <1>1, <1>2, SameBatches DEF Batches
<1>4. DiskTraced'
  BY <1>1, <1>2, SameTrace DEF Applied
<1>. QED
  BY <1>3, <1>4

LEMMA AcceptApplyDisk ==
  ASSUME DiskInv, NEW k \in Conn, AcceptApply(k)
  PROVE  BatchesOld' /\ DiskTraced'
<1>. USE DEF DiskInv, Inv
<1>1. /\ call' = [call EXCEPT ![k] = [@ EXCEPT !.phase = "applied"]]
      /\ UNCHANGED <<sug, blocks>> /\ disk' = call[k].text
  BY AcceptApplyStep
<1>2. /\ call'[k].phase = "applied" /\ call'[k].text = call[k].text
      /\ \A j \in Conn : /\ call'[j].seen = call[j].seen
                         /\ call'[j].op = call[j].op
                         /\ call'[j].sug = call[j].sug
  BY <1>1 DEF TypeOK, CallState
<1>3. Batches' = Batches
  BY <1>1, <1>2 DEF Batches
<1>4. \A b \in Batches : b.by = None \/ b.by \in Conn
  BY DEF TypeOK, Batches, CallState, Batch
<1>5. BatchesOld'
  BY <1>1, <1>2, <1>3, <1>4 DEF BatchesOld, Old, Closed
<1>6. DiskTraced'
  BY <1>1, <1>2 DEF DiskTraced, Applied
<1>. QED
  BY <1>5, <1>6

LEMMA AcceptCommitDisk ==
  ASSUME DiskInv, NEW k \in Conn, AcceptCommit(k), NeverReopened
  PROVE  BatchesOld' /\ DiskTraced'
<1>. USE DEF DiskInv, Inv
<1>. PICK r : r = Result(k)
  OBVIOUS
<1>1. /\ call[k].op = "accept" /\ Applied(k) /\ End(k)
      /\ Resolved(call[k].sug, "accepted")
      /\ blocks' = (blocks \ call[k].seen) \cup {r} /\ disk' = disk
  BY AcceptCommitStep DEF AcceptCommit, Result, Applied
<1>2. /\ call'[k] = Idle
      /\ \A j \in Conn \ {k} : call'[j] = call[j]
  BY <1>1, EndStep
<1>3. /\ r.by = k /\ r.sug \in Suggestion /\ r.text = call[k].text
      /\ Closed(r.sug)'
  BY <1>1, ResolvedStep DEF Closed, Result
<1>4. \A b \in Batches : b \in Batch /\ (b.by = None \/ b.by \in Conn)
  BY DEF TypeOK, Batches, CallState, Batch
<1>5. r \notin Batches
  BY <1>1, ConstantsAssumption DEF BatchesOld, Old, Result
<1>6. BatchesOld'
  <2>1. Batches' \subseteq Batches \cup {r}
    BY <1>1, <1>2 DEF Batches, Idle
  <2>2. Old(r)'
    BY <1>2, <1>3 DEF Old, Idle
  <2>3. ASSUME NEW b \in Batches PROVE Old(b)'
    BY <1>2, <1>4 DEF BatchesOld, Old, NeverReopened, Idle
  <2>. QED
    BY <2>1, <2>2, <2>3 DEF BatchesOld
<1>7. \A j \in Conn : Applied(j)' => j # k /\ Applied(j)
  BY <1>2 DEF Applied, Idle
<1>8. DiskTraced'
  <2>1. ASSUME NEW b \in blocks, b.text = disk, Safe(b) PROVE DiskTraced'
    <3>1. b \in blocks'
      BY <1>1, <2>1 DEF Safe
    <3>2. Safe(b)'
      BY <1>2, <1>7, <2>1, <3>1 DEF Safe
    <3>. QED
      BY <1>1, <2>1, <3>1, <3>2 DEF DiskTraced
  <2>2. CASE call[k].text = disk
    <3>1. Safe(r)'
      BY <1>1, <1>2, <1>5, <1>7 DEF Safe, Batches
    <3>. QED
      BY <1>1, <1>3, <2>2, <3>1 DEF DiskTraced
  <2>3. ASSUME NEW j \in Conn \ {k}, Applied(j), call[j].text = disk
        PROVE  DiskTraced'
    BY <1>1, <1>2, <2>3 DEF DiskTraced, Applied
  <2>. QED
    BY <2>1, <2>2, <2>3 DEF DiskTraced
<1>. QED
  BY <1>6, <1>8

LEMMA RestartDisk ==
  ASSUME Restart, RefreshOnBoot
  PROVE  BatchesOld' /\ DiskTraced'
<1>1. /\ blocks' = {[by |-> None, sug |-> None, text |-> disk']}
      /\ \A k \in Conn : call'[k] = Idle
  BY DEF Restart, Imported
<1>2. BatchesOld'
  BY <1>1 DEF BatchesOld, Batches, Old, Idle
<1>3. DiskTraced'
  BY <1>1 DEF DiskTraced, Safe, Applied, Idle
<1>. QED
  BY <1>2, <1>3

\* A step of a request that leaves the rows and the file alone.
LEMMA QuietDisk ==
  ASSUME DiskInv, NEW k \in Conn, NeverReopened, ~Applied(k),
         UNCHANGED <<blocks, disk>>, End(k)
  PROVE  BatchesOld' /\ DiskTraced'
<1>. USE DEF DiskInv
<1>1. call'[k] = Idle /\ \A j \in Conn \ {k} : call'[j] = call[j]
  BY EndStep
<1>2. ~Applied(k)' /\ call'[k].seen = {} /\ call'[k].op = "none"
  BY <1>1 DEF Applied, Idle
<1>. QED
  BY <1>1, <1>2, SameBatches, SameTrace

LEMMA DiskStep ==
  ASSUME RefreshOnBoot, Limit["fault"] = 0, DiskInv, [Next]_vars
  PROVE  DiskInv'
<1>. USE DEF DiskInv
<1>1. Inv' /\ NeverReopened
  BY InvStep
<1>2. ASSUME NEW u \in Author, Owner(u) PROVE BatchesOld' /\ DiskTraced'
  <2>1. UNCHANGED <<sug, blocks, disk, call>>
    BY <1>2, OwnerStep
  <2>. QED
    BY <2>1 DEF BatchesOld, Batches, Old, Closed, DiskTraced, Safe, Applied
<1>3. ASSUME NEW k \in Conn, Start(k) PROVE BatchesOld' /\ DiskTraced'
  <2>1. /\ UNCHANGED <<sug, blocks, disk>> /\ call[k] = Idle
        /\ call'[k].seen = {} /\ ~Applied(k)'
        /\ \A j \in Conn \ {k} : call'[j] = call[j]
        /\ call'[k].op = "accept" => ~Closed(call'[k].sug)
    BY <1>3, StartStep DEF Closed
  <2>2. ~Applied(k)
    BY <2>1 DEF Applied, Idle
  <2>. QED
    BY <1>1, <2>1, <2>2, SameBatches, SameTrace
<1>4. ASSUME NEW k \in Conn, Serve(k) PROVE BatchesOld' /\ DiskTraced'
  <2>1. CASE ForkInsert(k)
    BY <1>1, <2>1, ForkInsertStep, QuietDisk DEF ForkInsert
  <2>2. CASE SuggestWrite(k)
    BY <1>1, <2>2, SuggestWriteStep, QuietDisk DEF SuggestWrite
  <2>3. CASE AcceptDelete(k)
    BY <1>1, <2>3, AcceptDeleteDisk
  <2>4. CASE AcceptApply(k)
    BY <2>4, AcceptApplyDisk
  <2>5. CASE AcceptCommit(k)
    BY <1>1, <2>5, AcceptCommitDisk
  <2>6. CASE RejectCommit(k)
    BY <1>1, <2>6, RejectCommitStep, QuietDisk DEF RejectCommit
  <2>7. CASE SuggestRefused(k)
    <3>1. ~Applied(k)
      BY <2>7 DEF SuggestRefused, Inv, CallsGrounded, Grounded, Applied
    <3>. QED
      BY <1>1, <2>7, <3>1, QuietDisk DEF SuggestRefused
  <2>. QED
    BY <1>4, <2>1, <2>2, <2>3, <2>4, <2>5, <2>6, <2>7 DEF Serve
<1>5. ASSUME NEW k \in Conn PROVE ~AcceptUnwritten(k) /\ ~Abort(k)
  BY SMT DEF AcceptUnwritten, Abort, CanSpend, Inv, TypeOK, Budget
<1>6. CASE Restart
  BY <1>1, <1>6, RestartDisk
<1>7. CASE UNCHANGED vars
  <2>1. UNCHANGED <<sug, blocks, disk, call>>
    BY <1>7 DEF vars
  <2>2. BatchesOld'
    BY <2>1 DEF BatchesOld, Batches, Old, Closed
  <2>3. DiskTraced'
    BY <2>1 DEF DiskTraced, Safe, Applied
  <2>. QED
    BY <1>1, <2>2, <2>3
<1>. QED
  BY <1>1, <1>2, <1>3, <1>4, <1>5, <1>6, <1>7 DEF Next

(***************************************************************************)
(* Without I/O errors, and with a boot that refreshes, content.md is the   *)
(* source of something readers see whenever no accept is between writing   *)
(* it and its commit: for any number of accepts that overlap, and stops    *)
(* anywhere (accept_suggestion, _refresh_content).                         *)
(***************************************************************************)
THEOREM FileFollowsRows ==
  ASSUME RefreshOnBoot, Limit["fault"] = 0
  PROVE  Spec => []DiskIsShown
<1>1. Init => DiskInv
  <2>. SUFFICES ASSUME Init PROVE DiskInv
    OBVIOUS
  <2>1. BatchesOld /\ DiskTraced
    BY DEF Init, Imported, Idle, BatchesOld, Batches, Old, DiskTraced, Safe, Applied
  <2>. QED
    BY <2>1, InitInv DEF DiskInv
<1>2. DiskInv /\ [Next]_vars => DiskInv'
  BY DiskStep
<1>3. DiskInv => DiskIsShown
  BY DEF DiskInv, DiskTraced, DiskIsShown, Applied
<1>. QED
  BY <1>1, <1>2, <1>3, PTL DEF Spec

-----------------------------------------------------------------------------
(***************************************************************************)
(* Requests taken one at a time: what each has read is still so when it    *)
(* writes, so no fork and no pending suggestion is doubled, and the rows   *)
(* serve the board of ReviewBoard.  The server's one connection may fail   *)
(* or stop between any two steps of a request, and owners edit and delete  *)
(* their forks meanwhile.                                                  *)
(***************************************************************************)

\* What a request has read and relies on.
Reads(c) ==
    /\ c.op = "fork" => Mine(Forker[c.fork]) = {}
    /\ c.op = "suggest" =>
          \/ sug[c.sug].status = "none" /\ Pending(c.fork) = {}
          \/ sug[c.sug].status = "pending"
    /\ c.op \in {"accept", "reject"} =>
          sug[c.sug].status = "pending" /\ c.text = sug[c.sug].text
    /\ c.phase \in {"deleting", "applied"} => c.seen = blocks

ReadsHold == \A k \in Conn : Reads(call[k])

Live(f) == fork[f].state = "live"
ForksApart == \A f, g \in Fork : Live(f) /\ Live(g) /\ Forker[f] = Forker[g] => f = g

OneBatch == \E b \in Batch : blocks = {b}

Serial == Inv /\ ReadsHold /\ ForksApart /\ OnePending /\ OneBatch

OneAtATime == \A j, k \in Conn : j = k

-----------------------------------------------------------------------------
(***************************************************************************)
(* Operators.                                                              *)
(***************************************************************************)

LEMMA IdleReads == Reads(Idle)
  BY DEF Reads, Idle

LEMMA MasterOfOne ==
  ASSUME NEW b \in Batch, blocks = {b}
  PROVE  Master = b.text
  BY DEF Master, Batch

LEMMA ApartIsOne == ForksApart => OneFork
<1>. SUFFICES ASSUME ForksApart, NEW u \in Author
              PROVE  Cardinality(Mine(u)) <= 1
  BY DEF OneFork
<1>1. CASE Mine(u) = {}
  BY <1>1, FS_EmptySet
<1>2. CASE Mine(u) # {}
  <2>1. PICK f \in Mine(u) : TRUE
    BY <1>2
  <2>2. Mine(u) = {f}
    BY <2>1 DEF Mine, ForksApart, Live
  <2>3. Cardinality({f}) = 1
    BY FS_Singleton
  <2>. QED
    BY <2>2, <2>3
<1>. QED
  BY <1>1, <1>2

-----------------------------------------------------------------------------
(***************************************************************************)
(* The invariant, step by step.                                            *)
(***************************************************************************)

LEMMA InitSerial == Init => Serial
<1>. SUFFICES ASSUME Init PROVE Serial
  OBVIOUS
<1>1. ReadsHold
  BY IdleReads DEF Init, ReadsHold
<1>2. ForksApart /\ OnePending
  BY DEF Init, ForksApart, Live, OnePending
<1>3. OneBatch
  BY ConstantsAssumption DEF Init, OneBatch, Imported, Batch
<1>. QED
  BY <1>1, <1>2, <1>3, InitInv DEF Serial

\* Save and delete_fork take no fork's place and touch no suggestion.
LEMMA OwnerSerial ==
  ASSUME Serial, NEW u \in Author, Owner(u)
  PROVE  Serial'
<1>1. Inv' /\ UNCHANGED <<sug, blocks, call>>
  BY OwnerStep DEF Serial
<1>2. ASSUME NEW f \in Fork, Live(f)' PROVE Live(f)
  <2>1. CASE \E text \in Draft : Save(u, text)
    BY <1>2, <2>1 DEF Save, Reached, Mine, Live, Serial, Inv, TypeOK, ForkRow
  <2>2. CASE Delete(u)
    BY <1>2, <2>2 DEF Delete, Reached, Mine, Live, Serial, Inv, TypeOK, ForkRow
  <2>. QED
    BY <2>1, <2>2 DEF Owner
<1>3. ForksApart'
  BY <1>2 DEF Serial, ForksApart
<1>4. ReadsHold'
  <2>. SUFFICES ASSUME NEW k \in Conn PROVE Reads(call[k])'
    BY DEF ReadsHold
  <2>1. Reads(call[k])
    BY DEF Serial, ReadsHold
  <2>2. call[k].op = "fork" => call[k].fork \in Fork /\ Forker[call[k].fork] \in Author
    BY ConstantsAssumption DEF Serial, Inv, CallsGrounded, Grounded
  <2>3. call[k].op = "fork" => Mine(Forker[call[k].fork])' = {}
    BY <1>1, <1>2, <2>1, <2>2 DEF Reads, Mine, Live
  <2>. QED
    BY <1>1, <2>1, <2>3 DEF Reads, Pending, Mine
<1>. QED
  BY <1>1, <1>3, <1>4 DEF Serial, OnePending, OneBatch

\* A request starts: what it reads is what the rows are.
LEMMA StartSerial ==
  ASSUME Serial, OneAtATime, NEW k \in Conn, Start(k)
  PROVE  Serial'
<1>1. Inv' /\ UNCHANGED <<fork, sug, blocks>>
  BY StartStep DEF Serial, Inv, NoOrphan
<1>2. Reads(call'[k])
  <2>1. ASSUME NEW f \in Fork, ForkRead(k, f) PROVE Reads(call'[k])
    BY <2>1 DEF ForkRead, Existing, Reads, Idle, Serial, Inv, TypeOK
  <2>2. ASSUME NEW u \in Author, SuggestRead(k, u) PROVE Reads(call'[k])
    <3>1. PICK f \in Reached(u), s \in Suggestion :
            /\ IF Pending(f) = {} THEN sug[s].status = "none" ELSE s \in Pending(f)
            /\ call' = [call EXCEPT ![k] =
                          [Idle EXCEPT !.op = "suggest", !.phase = "read",
                               !.fork = f, !.sug = s, !.text = fork[f].text]]
      BY <2>2 DEF SuggestRead
    <3>2. /\ call'[k].op = "suggest" /\ call'[k].phase = "read"
          /\ call'[k].fork = f /\ call'[k].sug = s
      BY <3>1 DEF Idle, Serial, Inv, TypeOK
    <3>3. \/ sug[s].status = "none" /\ Pending(f) = {}
          \/ sug[s].status = "pending"
      BY <3>1 DEF Pending
    <3>. QED
      BY <3>2, <3>3 DEF Reads
  <2>3. ASSUME NEW s \in Suggestion, NEW op \in {"accept", "reject"}, ReviewRead(k, s, op)
        PROVE  Reads(call'[k])
    BY <2>3 DEF ReviewRead, Proposed, Reads, Idle, Serial, Inv, TypeOK
  <2>. QED
    BY <2>1, <2>2, <2>3 DEF Start
<1>3. ReadsHold'
  BY <1>1, <1>2 DEF OneAtATime, ReadsHold, Reads, Pending, Mine
<1>. QED
  BY <1>1, <1>3 DEF Serial, ForksApart, Live, OnePending, OneBatch

\* The only request ends, and what it wrote stands.
LEMMA EndSerial ==
  ASSUME OneAtATime, Serial, Inv', NEW k \in Conn, End(k),
         ForksApart', OnePending', OneBatch'
  PROVE  Serial'
<1>1. \A j \in Conn : call'[j] = Idle
  BY EndStep DEF OneAtATime, Serial
<1>2. ReadsHold'
  BY <1>1 DEF ReadsHold, Reads, Idle
<1>. QED
  BY <1>2 DEF Serial

LEMMA DropSerial ==
  ASSUME OneAtATime, Serial, Inv', NEW k \in Conn, End(k), UNCHANGED <<fork, sug, blocks>>
  PROVE  Serial'
<1>1. ForksApart' /\ OnePending' /\ OneBatch'
  BY DEF Serial, ForksApart, Live, OnePending, OneBatch
<1>. QED
  BY <1>1, EndSerial

LEMMA ForkInsertSerial ==
  ASSUME OneAtATime, Serial, NEW k \in Conn, ForkInsert(k)
  PROVE  Serial'
<1>1. Inv' /\ UNCHANGED <<sug, blocks>> /\ End(k)
  BY ForkInsertStep DEF Serial, ForkInsert
<1>2. call[k].fork \in Fork /\ Mine(Forker[call[k].fork]) = {}
  BY DEF ForkInsert, Serial, Inv, CallsGrounded, Grounded, ReadsHold, Reads
<1>3. ASSUME NEW f \in Fork, Live(f)' PROVE Live(f) \/ f = call[k].fork
  BY <1>3, <1>2 DEF ForkInsert, Live, Serial, Inv, TypeOK
<1>4. \A f \in Fork : Live(f) => Forker[f] # Forker[call[k].fork]
  BY <1>2 DEF Mine, Live
<1>5. ForksApart'
  BY <1>3, <1>4 DEF ForksApart, Serial
<1>6. OnePending' /\ OneBatch'
  BY <1>1 DEF Serial, OnePending, OneBatch
<1>. QED
  BY <1>1, <1>5, <1>6, EndSerial

\* A suggestion is written: a new row of a fork that has none pending, or a
\* pending row that stays so.
SuggestMade(k) ==
    LET c == call[k]
    IN  /\ c.op = "suggest" /\ c.sug \in Suggestion /\ c.fork \in Fork
        /\ sug[c.sug].status = "none" /\ Pending(c.fork) = {}
        /\ sug' = [sug EXCEPT ![c.sug] =
                     [status |-> "pending", fork |-> c.fork, text |-> c.text]]

SuggestRevised(k) ==
    LET c == call[k]
    IN  /\ c.op = "suggest" /\ c.sug \in Suggestion
        /\ sug[c.sug].status = "pending"
        /\ sug' = [sug EXCEPT ![c.sug] = [sug[c.sug] EXCEPT !.text = c.text]]

LEMMA SuggestCases ==
  ASSUME Serial, NEW k \in Conn, SuggestWrite(k)
  PROVE  SuggestMade(k) \/ SuggestRevised(k)
<1>1. Reads(call[k]) /\ Grounded(call[k])
  BY DEF Serial, ReadsHold, Inv, CallsGrounded
<1>. QED
  BY <1>1 DEF SuggestWrite, Refreshed, Reads, Grounded, SuggestMade, SuggestRevised

LEMMA SuggestWriteSerial ==
  ASSUME OneAtATime, Serial, NEW k \in Conn, SuggestWrite(k)
  PROVE  Serial'
<1>1. Inv' /\ UNCHANGED <<fork, blocks>> /\ End(k)
  BY SuggestWriteStep DEF Serial, SuggestWrite
<1>2. sug \in [Suggestion -> SuggestionRow]
  BY DEF Serial, Inv, TypeOK
<1>3. OnePending'
  <2>1. CASE SuggestMade(k)
    <3>1. \A s \in Suggestion : sug[s].fork = call[k].fork => sug[s].status # "pending"
      BY <2>1 DEF SuggestMade, Pending
    <3>. QED
      BY <1>2, <2>1, <3>1 DEF SuggestMade, OnePending, Serial
  <2>2. CASE SuggestRevised(k)
    <3>1. \A s \in Suggestion :
            sug'[s].status = sug[s].status /\ sug'[s].fork = sug[s].fork
      BY <1>2, <2>2 DEF SuggestRevised, SuggestionRow
    <3>. QED
      BY <3>1 DEF OnePending, Serial
  <2>. QED
    BY <2>1, <2>2, SuggestCases
<1>4. ForksApart' /\ OneBatch'
  BY <1>1 DEF Serial, ForksApart, Live, OneBatch
<1>. QED
  BY <1>1, <1>3, <1>4, EndSerial

\* An accept moves on.
LEMMA AcceptGoesOn ==
  ASSUME OneAtATime, Serial, NEW k \in Conn, AcceptDelete(k) \/ AcceptApply(k)
  PROVE  Serial'
<1>1. Inv' /\ UNCHANGED <<fork, sug, blocks>>
  BY AcceptDeleteStep, AcceptApplyStep DEF Serial
<1>2. Reads(call[k]) /\ call[k] \in CallState
  BY DEF Serial, ReadsHold, Inv, TypeOK
<1>3. /\ call'[k].op = call[k].op /\ call'[k].sug = call[k].sug
      /\ call'[k].text = call[k].text /\ call'[k].fork = call[k].fork
      /\ call'[k].seen = blocks
  <2>1. CASE AcceptDelete(k)
    <3>1. call'[k] = [call[k] EXCEPT !.phase = "deleting", !.seen = blocks]
      BY <2>1, AcceptDeleteStep DEF Serial, Inv, TypeOK
    <3>. QED
      BY <1>2, <3>1 DEF CallState
  <2>2. CASE AcceptApply(k)
    <3>1. call'[k] = [call[k] EXCEPT !.phase = "applied"]
      BY <2>2, AcceptApplyStep DEF Serial, Inv, TypeOK
    <3>2. call[k].seen = blocks
      BY <1>2, <2>2 DEF AcceptApply, Reads
    <3>. QED
      BY <1>2, <3>1, <3>2 DEF CallState
  <2>. QED
    BY <2>1, <2>2
<1>4. ReadsHold'
  <2>1. Reads(call[k])'
    BY <1>1, <1>2, <1>3 DEF Reads, Pending, Mine
  <2>. QED
    BY <2>1 DEF OneAtATime, ReadsHold
<1>. QED
  BY <1>1, <1>4 DEF Serial, ForksApart, Live, OnePending, OneBatch

\* A suggestion that was pending is closed, and the topic becomes its text if
\* it was accepted.
LEMMA ResolvedSerial ==
  ASSUME OneAtATime, Serial, NEW k \in Conn, AcceptCommit(k) \/ RejectCommit(k)
  PROVE  Serial'
<1>1. Inv' /\ End(k) /\ UNCHANGED fork
  BY AcceptCommitStep, RejectCommitStep DEF Serial, AcceptCommit, RejectCommit
<1>2. call[k].op \in {"accept", "reject"}
  BY AcceptCommitStep DEF Serial, RejectCommit
<1>3. PICK status \in {"accepted", "rejected"} : Resolved(call[k].sug, status)
  BY DEF AcceptCommit, RejectCommit
<1>4. OnePending'
  <2>1. /\ call[k].sug \in Suggestion /\ sug'[call[k].sug].status = status
        /\ \A s \in Suggestion \ {call[k].sug} : sug'[s] = sug[s]
    BY <1>1, <1>2, <1>3, ResolvedStep DEF Serial
  <2>. QED
    BY <2>1 DEF Serial, OnePending
<1>5. OneBatch'
  <2>1. CASE RejectCommit(k)
    BY <2>1 DEF RejectCommit, Serial, OneBatch
  <2>2. CASE AcceptCommit(k)
    <3>1. call[k].seen = blocks
      BY <2>2 DEF AcceptCommit, Serial, ReadsHold, Reads
    <3>2. blocks' = {Result(k)}
      BY <2>2, <3>1 DEF AcceptCommit, Result
    <3>3. Result(k) \in Batch
      BY <1>1, <3>2 DEF Inv, TypeOK
    <3>. QED
      BY <3>2, <3>3 DEF OneBatch
  <2>. QED
    BY <2>1, <2>2
<1>6. ForksApart'
  BY <1>1 DEF Serial, ForksApart, Live
<1>. QED
  BY <1>1, <1>4, <1>5, <1>6, EndSerial

LEMMA RestartSerial ==
  ASSUME Serial, Restart
  PROVE  Serial'
<1>1. Inv' /\ UNCHANGED <<fork, sug>>
  BY RestartStep DEF Serial
<1>2. ReadsHold'
  BY DEF Restart, ReadsHold, Reads, Idle
<1>3. OneBatch'
  <2>1. CASE RefreshOnBoot
    BY <1>1, <2>1 DEF Restart, OneBatch, Imported, Inv, TypeOK
  <2>2. CASE ~RefreshOnBoot
    BY <2>2 DEF Restart, Serial, OneBatch
  <2>. QED
    BY <2>1, <2>2
<1>. QED
  BY <1>1, <1>2, <1>3 DEF Serial, ForksApart, Live, OnePending

LEMMA FaultSerial ==
  ASSUME OneAtATime, Serial, NEW k \in Conn,
         AcceptUnwritten(k) \/ Abort(k) \/ SuggestRefused(k)
  PROVE  Serial'
<1>1. Inv'
  <2>1. [Next]_vars
    BY DEF Next, Serve
  <2>. QED
    BY <2>1, InvStep DEF Serial
<1>2. End(k) /\ UNCHANGED <<fork, sug, blocks>>
  BY DEF AcceptUnwritten, Abort, SuggestRefused
<1>. QED
  BY <1>1, <1>2, DropSerial

LEMMA SerialStep == OneAtATime /\ Serial /\ [Next]_vars => Serial'
<1>. SUFFICES ASSUME OneAtATime, Serial, [Next]_vars PROVE Serial'
  OBVIOUS
<1>1. ASSUME NEW k \in Conn, Serve(k) PROVE Serial'
  BY <1>1, ForkInsertSerial, SuggestWriteSerial, AcceptGoesOn, ResolvedSerial, FaultSerial
     DEF Serve
<1>2. CASE UNCHANGED vars
  <2>1. Inv'
    BY InvStep DEF Serial
  <2>2. ReadsHold'
    BY <1>2 DEF vars, Serial, ReadsHold, Reads, Pending, Mine
  <2>. QED
    BY <1>2, <2>1, <2>2 DEF vars, Serial, ForksApart, Live, OnePending, OneBatch
<1>. QED
  BY <1>1, <1>2, OwnerSerial, StartSerial, FaultSerial, RestartSerial DEF Next

LEMMA SerialInvariance ==
  ASSUME OneAtATime
  PROVE  Spec => []Serial
  BY InitSerial, SerialStep, PTL DEF Spec

(***************************************************************************)
(* A fork has one pending suggestion, in whatever order its owner, the     *)
(* reviewers and failures go: suggest_from_fork inserts when it has found  *)
(* none, and while requests are taken one at a time none comes before the  *)
(* insert.                                                                 *)
(***************************************************************************)
THEOREM PendingIsOne ==
  ASSUME OneAtATime
  PROVE  Spec => []OnePending
<1>1. Serial => OnePending
  BY DEF Serial
<1>. QED
  BY <1>1, SerialInvariance, PTL

(***************************************************************************)
(* A user has one fork of the topic: create_fork inserts when it has found *)
(* none, and get_fork reaches the fork that there is.                      *)
(***************************************************************************)
THEOREM ForkIsOne ==
  ASSUME OneAtATime
  PROVE  Spec => []OneFork
<1>1. Serial => OneFork
  BY ApartIsOne DEF Serial
<1>. QED
  BY <1>1, SerialInvariance, PTL

-----------------------------------------------------------------------------
(***************************************************************************)
(* Serving the board: every step is one of the board's, or none.           *)
(***************************************************************************)

LEMMA BoardStays ==
  ASSUME UNCHANGED <<sug, blocks>>
  PROVE  UNCHANGED Board!vars
  BY DEF Board!vars, Master

\* A suggestion's row is written as the board allows.
Proposes(s, r) == sug[s].status = "none" /\ r.status = "pending" /\ UNCHANGED Master
Revises(s, r) == sug[s].status = "pending" /\ r.status = "pending" /\ UNCHANGED Master

Resolves(s, r) ==
    /\ sug[s].status = "pending" /\ r.text = sug[s].text
    /\ \/ r.status = "accepted" /\ Master' = r.text
       \/ r.status = "rejected" /\ UNCHANGED Master

LEMMA RowServes ==
  ASSUME Serial, NEW s \in Suggestion, NEW r \in SuggestionRow, sug' = [sug EXCEPT ![s] = r],
         Proposes(s, r) \/ Revises(s, r) \/ Resolves(s, r)
  PROVE  Board!Next
<1>1. PICK text \in Text : text = r.text
  BY DEF SuggestionRow
<1>2. Board!Put(s, r.status, text)
  BY <1>1 DEF Serial, Inv, TypeOK, Board!Put
<1>3. CASE Proposes(s, r) \/ Revises(s, r)
  <2>1. r.status = "pending" /\ UNCHANGED Master /\ sug[s].status \in {"none", "pending"}
    BY <1>3 DEF Proposes, Revises
  <2>2. Board!Propose(s, text) \/ Board!Revise(s, text)
    BY <1>2, <2>1 DEF Board!Propose, Board!Revise, Board!Put
  <2>. QED
    BY <2>2 DEF Board!Next
<1>4. CASE Resolves(s, r)
  <2>1. Board!Accept(s) \/ Board!Reject(s)
    BY <1>1, <1>2, <1>4 DEF Resolves, Board!Accept, Board!Reject, Board!Put
  <2>. QED
    BY <2>1 DEF Board!Next
<1>. QED
  BY <1>3, <1>4

LEMMA SuggestServes ==
  ASSUME Serial, NEW k \in Conn, SuggestWrite(k)
  PROVE  Board!Next
<1>. DEFINE c == call[k]
<1>1. c.sug \in Suggestion /\ c.fork \in Fork /\ c.text \in Text
  BY DEF SuggestWrite, Serial, Inv, CallsGrounded, Grounded, TypeOK, CallState
<1>2. UNCHANGED Master
  BY DEF SuggestWrite, Master
<1>3. CASE SuggestMade(k)
  <2>. DEFINE r == [status |-> "pending", fork |-> c.fork, text |-> c.text]
  <2>1. r \in SuggestionRow /\ sug' = [sug EXCEPT ![c.sug] = r] /\ Proposes(c.sug, r)
    BY <1>1, <1>2, <1>3 DEF SuggestMade, SuggestionRow, Status, Proposes
  <2>. HIDE DEF r
  <2>. QED
    BY <1>1, <2>1, RowServes
<1>4. CASE SuggestRevised(k)
  <2>. DEFINE r == [sug[c.sug] EXCEPT !.text = c.text]
  <2>1. r \in SuggestionRow /\ sug' = [sug EXCEPT ![c.sug] = r] /\ Revises(c.sug, r)
    BY <1>1, <1>2, <1>4 DEF SuggestRevised, SuggestionRow, Revises, Serial, Inv, TypeOK
  <2>. HIDE DEF r
  <2>. QED
    BY <1>1, <2>1, RowServes
<1>. QED
  BY <1>3, <1>4, SuggestCases

LEMMA ReviewServes ==
  ASSUME Serial, NEW k \in Conn, AcceptCommit(k) \/ RejectCommit(k)
  PROVE  Board!Next
<1>. DEFINE c == call[k]
<1>1. c.op \in {"accept", "reject"}
  BY AcceptCommitStep DEF Serial, RejectCommit
<1>2. /\ c.sug \in Suggestion /\ sug[c.sug].status = "pending"
      /\ sug[c.sug] \in SuggestionRow /\ c.text = sug[c.sug].text
  BY <1>1 DEF Serial, ReadsHold, Reads, Inv, CallsGrounded, Grounded, TypeOK
<1>3. PICK status \in {"accepted", "rejected"} :
        /\ Resolved(c.sug, status)
        /\ \/ status = "accepted" /\ Master' = c.text
           \/ status = "rejected" /\ UNCHANGED Master
  <2>1. CASE AcceptCommit(k)
    <3>1. blocks' = {Result(k)}
      BY <2>1 DEF AcceptCommit, Serial, ReadsHold, Reads, Result
    <3>2. Result(k) \in Batch
      BY <2>1, <3>1, AcceptCommitStep DEF Serial, Inv, TypeOK
    <3>3. Master' = c.text
      BY <3>1, <3>2 DEF Master, Result, Batch
    <3>. QED
      BY <2>1, <3>3 DEF AcceptCommit
  <2>2. CASE RejectCommit(k)
    BY <2>2 DEF RejectCommit, Master
  <2>. QED
    BY <2>1, <2>2
<1>. DEFINE r == [sug[c.sug] EXCEPT !.status = status]
<1>4. r \in SuggestionRow /\ sug' = [sug EXCEPT ![c.sug] = r]
  BY <1>2, <1>3 DEF Resolved, SuggestionRow, Status
<1>5. Resolves(c.sug, r)
  BY <1>2, <1>3 DEF Resolves, SuggestionRow
<1>. HIDE DEF r
<1>. QED
  BY <1>2, <1>4, <1>5, RowServes

LEMMA InitServes == Init => Board!Init
<1>. SUFFICES ASSUME Init PROVE Board!Init
  OBVIOUS
<1>1. PICK b \in Batch : blocks = {b}
  BY InitSerial DEF Serial, OneBatch
<1>2. Master \in Text
  BY <1>1, MasterOfOne DEF Batch
<1>. QED
  BY <1>2, ConstantsAssumption DEF Init, Board!Init, Board!Unused

LEMMA NextServes ==
  ~RefreshOnBoot /\ Serial /\ [Next]_vars => [Board!Next]_(Board!vars)
<1>. SUFFICES ASSUME ~RefreshOnBoot, Serial, [Next]_vars
              PROVE  [Board!Next]_(Board!vars)
  OBVIOUS
<1>1. CASE UNCHANGED <<sug, blocks>>
  BY <1>1, BoardStays
<1>2. ASSUME NEW u \in Author, Owner(u) PROVE UNCHANGED <<sug, blocks>>
  BY <1>2, OwnerStep DEF Serial
<1>3. ASSUME NEW k \in Conn, Start(k) PROVE UNCHANGED <<sug, blocks>>
  BY <1>3, StartStep DEF Serial
<1>4. ASSUME NEW k \in Conn, Serve(k)
      PROVE  Board!Next \/ UNCHANGED <<sug, blocks>>
  <2>1. CASE \/ ForkInsert(k) \/ AcceptDelete(k) \/ AcceptApply(k) \/ SuggestRefused(k)
    BY <2>1 DEF ForkInsert, AcceptDelete, AcceptApply, SuggestRefused
  <2>. QED
    BY <1>4, <2>1, SuggestServes, ReviewServes DEF Serve
<1>5. ASSUME NEW k \in Conn, AcceptUnwritten(k) \/ Abort(k)
      PROVE  UNCHANGED <<sug, blocks>>
  BY <1>5 DEF AcceptUnwritten, Abort
<1>6. CASE Restart
  BY <1>1, <1>6 DEF Restart
<1>7. CASE UNCHANGED vars
  BY <1>1, <1>7 DEF vars
<1>. QED
  BY <1>1, <1>2, <1>3, <1>4, <1>5, <1>6, <1>7 DEF Next

(***************************************************************************)
(* Requests taken one at a time serve the board: the topic changes in no   *)
(* step but the commit of an accept, which resolves its suggestion and     *)
(* makes the topic the snapshot it proposed.  The server may stop inside   *)
(* a request as long as a boot does not read content.md back.              *)
(***************************************************************************)
THEOREM ImplementsBoard ==
  ASSUME OneAtATime, ~RefreshOnBoot
  PROVE  Spec => ServesTheBoard
  BY InitServes, NextServes, SerialInvariance, PTL DEF Spec, ServesTheBoard, Board!Spec
=============================================================================
