------------------------------- MODULE RunGate -------------------------------
(***************************************************************************)
(* Running code on the server: the sliding windows of the address and of   *)
(* the account (api/execute.py, rate_limit.py), then the slots of the host *)
(* and the container, or the local process where there is no docker, with  *)
(* their timeouts (execution_service.py).                                  *)
(***************************************************************************)
EXTENDS Naturals, Sequences, FiniteSetsExt

CONSTANTS
    Runner,     \* accounts, all behind one address
    Window,     \* window_seconds
    RunnerCap,  \* execution_rate_limit_learner
    AddressCap, \* execution_ip_rate_limit
    Slots,      \* execution_max_concurrent
    MaxTime,    \* bound on the clock
    MaxLeft     \* containers left behind are counted up to here

ASSUME GateAssumption ==
    /\ Window \in Nat \ {0} /\ RunnerCap \in Nat \ {0}
    /\ AddressCap \in Nat \ {0} /\ Slots \in Nat \ {0} /\ MaxTime \in Nat /\ MaxLeft \in Nat
    /\ IsFiniteSet(Runner) /\ "address" \notin Runner

VARIABLES
    clock,
    hits,    \* the deque of each key: of the accounts, and of "address"
    docker,  \* the docker client can be started
    jobs,    \* what the run of each account is doing
    left,    \* containers whose client was killed
    ran      \* history: when the window of each account let a run in

gateVars == <<clock, hits, docker, jobs, left, ran>>

Limited == Runner \cup {"address"}
Cap(k) == IF k = "address" THEN AddressCap ELSE RunnerCap
Stage == {"none", "waiting", "container", "process"}

GateTypeOK ==
    /\ clock \in 0 .. MaxTime
    /\ hits \in [Limited -> Seq(0 .. MaxTime)]
    /\ docker \in BOOLEAN
    /\ jobs \in [Runner -> Stage]
    /\ left \in 0 .. MaxLeft
    /\ ran \in [Runner -> Seq(0 .. MaxTime)]

GateInit ==
    /\ clock = 0
    /\ hits = [k \in Limited |-> <<>>]
    /\ docker \in BOOLEAN
    /\ jobs = [u \in Runner |-> "none"]
    /\ left = 0
    /\ ran = [u \in Runner |-> <<>>]

-----------------------------------------------------------------------------
(***************************************************************************)
(* SlidingWindowLimiter.check                                              *)
(***************************************************************************)

\* Mutant of Expired: a hit stays for the whole of its last second.
ExpiredAfter(hit, t) == hit + Window < t

\* Older than the cutoff, or as old.
Expired(hit, t) == hit + Window <= t

\* Hits leave the front of the deque until it is empty or its first is not
\* expired.
Evicted(w, t) == Min({n \in 0 .. Len(w) : n = Len(w) \/ ~ Expired(w[n + 1], t)})

Pruned(w, t) == SubSeq(w, Evicted(w, t) + 1, Len(w))

\* Mutant of Allowed: the limit itself is let in.
AllowedToo(w, t, limit) == Len(Pruned(w, t)) <= limit

Allowed(w, t, limit) == Len(Pruned(w, t)) < limit

\* A hit is recorded when it is allowed only.
Checked(w, t, limit) ==
    IF Allowed(w, t, limit) THEN Append(Pruned(w, t), t) ELSE Pruned(w, t)

\* What a refusal tells the caller to wait.
RetryAfter(w, t) == Head(Pruned(w, t)) + Window - t

-----------------------------------------------------------------------------
(***************************************************************************)
(* A run.                                                                  *)
(***************************************************************************)

\* execute_code: the address is charged before the account is asked.
Execute(u) ==
    /\ jobs[u] = "none"
    /\ LET past == Allowed(hits["address"], clock, AddressCap)
           may == Allowed(hits[u], clock, RunnerCap)
       IN /\ hits' = [hits EXCEPT
                        !["address"] = Checked(@, clock, AddressCap),
                        ![u] = IF past THEN Checked(@, clock, RunnerCap) ELSE @]
          /\ jobs' = [jobs EXCEPT ![u] = IF past /\ may THEN "waiting" ELSE @]
          /\ ran' = [ran EXCEPT ![u] = IF past /\ may THEN Append(@, clock) ELSE @]
    /\ UNCHANGED <<clock, docker, left>>

Busy == {u \in Runner : jobs[u] \in {"container", "process"}}

FreeSlot == Cardinality(Busy) < Slots

\* async with _execution_slots, then docker, or the local fallback; where
\* that is not allowed either the run is refused at once.
StartRun(u) ==
    /\ jobs[u] = "waiting" /\ FreeSlot
    /\ \E s \in (IF docker THEN {"container"} ELSE {"process", "none"}) :
          jobs' = [jobs EXCEPT ![u] = s]
    /\ UNCHANGED <<clock, hits, docker, left, ran>>

FinishRun(u) ==
    /\ u \in Busy
    /\ jobs' = [jobs EXCEPT ![u] = "none"]
    /\ UNCHANGED <<clock, hits, docker, left, ran>>

\* Mutant of GivenBack: the answer to a timeout keeps the slot.
GivenBackNot(u) == jobs

GivenBack(u) == [jobs EXCEPT ![u] = "none"]

\* The timeout kills the docker client, and the container goes on; a local
\* process goes with its group.
TimedOut(u) ==
    /\ u \in Busy
    /\ left' = IF jobs[u] = "container" /\ left < MaxLeft THEN left + 1 ELSE left
    /\ jobs' = GivenBack(u)
    /\ UNCHANGED <<clock, hits, docker, ran>>

ContainerEnds ==
    /\ left > 0
    /\ left' = left - 1
    /\ UNCHANGED <<clock, hits, docker, jobs, ran>>

Second ==
    /\ clock < MaxTime
    /\ clock' = clock + 1
    /\ UNCHANGED <<hits, docker, jobs, left, ran>>

GateNext ==
    \/ \E u \in Runner : Execute(u) \/ StartRun(u) \/ FinishRun(u) \/ TimedOut(u)
    \/ ContainerEnds \/ Second

\* Slots are handed to the waiting in turn, and a run that has not finished
\* times out.
GateFairness ==
    \A u \in Runner : /\ SF_gateVars(StartRun(u))
                      /\ WF_gateVars(TimedOut(u))

GateSpec == GateInit /\ [][GateNext]_gateVars /\ GateFairness

-----------------------------------------------------------------------------
(***************************************************************************)
(* What the gate promises.                                                 *)
(***************************************************************************)

\* In no window of time, wherever it starts, is an account let in more often
\* than its cap.
CapHolds ==
    \A u \in Runner, t \in 0 .. MaxTime :
        Cardinality({i \in DOMAIN ran[u] : t <= ran[u][i] /\ ran[u][i] < t + Window})
            <= RunnerCap

\* Whoever waits as long as a refusal says is let in: the wait is never short
\* of the moment when the oldest hit leaves.
RetryIsEnough ==
    \A k \in Limited :
        ~ Allowed(hits[k], clock, Cap(k)) =>
            Allowed(hits[k], clock + RetryAfter(hits[k], clock), Cap(k))

\* The gate's cap, and its promise to who waits.
GateHolds == CapHolds /\ RetryIsEnough

\* A run that was let in is answered.
RunIsAnswered == \A u \in Runner : jobs[u] = "waiting" ~> jobs[u] = "none"

=============================================================================
