------------------------------ MODULE RunnerBlock ------------------------------
(***************************************************************************)
(* A code block that the reader runs on the server (CodeRunner.tsx): the   *)
(* sign-in card that an anonymous run shows, the run that waits for the    *)
(* sign-in, the run of a simulation that scrolls into view, and answers    *)
(* that come back in any order; and the pair of languages around it        *)
(* (CodePairRenderer.tsx), which mounts it anew.                           *)
(***************************************************************************)
EXTENDS Naturals, FiniteSets

CONSTANTS
    MaxRuns,    \* bound on requests
    MaxMounts   \* bound on mounts

ASSUME RunnerAssumption == MaxRuns \in Nat /\ MaxMounts \in Nat \ {0}

VARIABLES
    run,      \* component state
    signed,   \* the token, and whether the server still takes it
    block,    \* isEditable, auto_run, expectedOutput
    runs,     \* requests that have not answered
    asked,    \* requests sent
    mounts,
    autos     \* history: runs that scrolling into view started, this mount

runnerVars == <<run, signed, block, runs, asked, mounts, autos>>

Code == {"initial", "edited"}

RunnerTypeOK ==
    /\ run \in [code : Code, result : Code \cup {"none", "error"}, running : BOOLEAN,
                shown : BOOLEAN, card : BOOLEAN, autoRan : BOOLEAN, pending : BOOLEAN]
    /\ signed \in {"no", "yes", "expired"}
    /\ block \in [editable : BOOLEAN, auto : BOOLEAN, expected : BOOLEAN]
    /\ runs \subseteq [n : 1 .. MaxRuns, code : Code, by : {"yes", "expired"},
                       mount : 1 .. MaxMounts]
    /\ asked \in 0 .. MaxRuns
    /\ mounts \in 1 .. MaxMounts
    /\ autos \in Nat

Mounted == [code |-> "initial", result |-> "none", running |-> FALSE,
            shown |-> block.expected, card |-> FALSE, autoRan |-> FALSE,
            pending |-> FALSE]

RunnerInit ==
    /\ block \in [editable : BOOLEAN, auto : BOOLEAN, expected : BOOLEAN]
    /\ signed \in {"no", "yes", "expired"}
    /\ run = Mounted
    /\ runs = {} /\ asked = 0 /\ mounts = 1 /\ autos = 0

-----------------------------------------------------------------------------
(***************************************************************************)
(* run                                                                     *)
(***************************************************************************)

\* What run makes of the state r, for the token t.
RunFrom(r, t) ==
    IF t = "no"
    THEN /\ run' = [r EXCEPT !.card = TRUE, !.shown = TRUE]
         /\ UNCHANGED <<runs, asked>>
    ELSE /\ asked < MaxRuns
         /\ asked' = asked + 1
         /\ runs' = runs \cup {[n |-> asked + 1, code |-> r.code, by |-> t, mount |-> mounts]}
         /\ run' = [r EXCEPT !.card = FALSE, !.running = TRUE, !.result = "none"]

\* The button waits for the run before; Ctrl-Enter does not.
ClickRun ==
    /\ ~run.running \/ block.editable
    /\ RunFrom(run, signed)
    /\ UNCHANGED <<signed, block, mounts, autos>>

\* Mutant of FirstSight: every crossing of the threshold.
EverySight == block.auto /\ ~block.editable

FirstSight == block.auto /\ ~run.autoRan /\ ~block.editable

\* The observer of the effect sees the block.
ScrollIntoView ==
    /\ FirstSight
    /\ RunFrom([run EXCEPT !.autoRan = TRUE], signed)
    /\ autos' = autos + 1
    /\ UNCHANGED <<signed, block, mounts>>

\* An answer is drawn when it comes, whichever run it is of, and any answer
\* ends "Running"; an answer to a block that has gone is dropped.
RunAnswers(f) ==
    /\ f \in runs
    /\ runs' = runs \ {f}
    /\ run' = IF f.mount # mounts THEN run
              ELSE IF f.by = "expired"
              THEN [run EXCEPT !.card = TRUE, !.shown = TRUE, !.running = FALSE]
              ELSE [run EXCEPT !.result = f.code, !.shown = TRUE, !.running = FALSE]
    /\ UNCHANGED <<signed, block, asked, mounts, autos>>

\* Mutant of NotRunning: only a result ends the run.
StillRunning(r) == r

\* finally
NotRunning(r) == [r EXCEPT !.running = FALSE]

\* The runner is busy, a window is full, the network failed.
RunFails(f) ==
    /\ f \in runs
    /\ runs' = runs \ {f}
    /\ run' = IF f.mount # mounts THEN run
              ELSE NotRunning([run EXCEPT !.result = "error", !.shown = TRUE])
    /\ UNCHANGED <<signed, block, asked, mounts, autos>>

-----------------------------------------------------------------------------
(***************************************************************************)
(* Signing in, editing, changing language.                                 *)
(***************************************************************************)

\* handleSignInToRun
SignInToRun ==
    /\ run.shown /\ run.card /\ ~run.pending
    /\ run' = [run EXCEPT !.pending = TRUE]
    /\ UNCHANGED <<signed, block, runs, asked, mounts, autos>>

\* A token lands, by this card or another: the effect runs what waited.
RunnerSignedIn ==
    /\ signed # "yes"
    /\ signed' = "yes"
    /\ IF run.pending
       THEN RunFrom([run EXCEPT !.pending = FALSE, !.card = FALSE], "yes")
       ELSE UNCHANGED <<run, runs, asked>>
    /\ UNCHANGED <<block, mounts, autos>>

TokenGoes(to) ==
    /\ signed = "yes"
    /\ signed' = to
    /\ UNCHANGED <<run, block, runs, asked, mounts, autos>>

Edit ==
    /\ block.editable /\ run.code = "initial"
    /\ run' = [run EXCEPT !.code = "edited"]
    /\ UNCHANGED <<signed, block, runs, asked, mounts, autos>>

\* "Reset" shows when the code is not the author's.
ResetCode ==
    /\ run.code # "initial"
    /\ run' = [run EXCEPT !.code = "initial", !.result = "none", !.shown = block.expected]
    /\ UNCHANGED <<signed, block, runs, asked, mounts, autos>>

\* Another language of the pair: a block of its own.
FlipLanguage ==
    /\ mounts < MaxMounts
    /\ mounts' = mounts + 1
    /\ run' = Mounted
    /\ autos' = 0
    /\ UNCHANGED <<signed, block, runs, asked>>

RunReplies == \E f \in runs : RunAnswers(f) \/ RunFails(f)

RunnerNext ==
    \/ ClickRun \/ ScrollIntoView
    \/ \E f \in runs : RunAnswers(f) \/ RunFails(f)
    \/ SignInToRun \/ RunnerSignedIn
    \/ \E to \in {"no", "expired"} : TokenGoes(to)
    \/ Edit \/ ResetCode \/ FlipLanguage

RunnerSpec == RunnerInit /\ [][RunnerNext]_runnerVars /\ WF_runnerVars(RunReplies)

-----------------------------------------------------------------------------
(***************************************************************************)
(* What the block promises.                                                *)
(***************************************************************************)

\* A simulation starts by itself once, however often it is scrolled to and
\* whoever signs in meanwhile (CodeRunner.tsx:26 "run once on first
\* scroll-into-view").
AutoRunsOnce == autos <= 1

\* While the block says "Running", its own request is awaited.
RunningIsTrue == run.running => \E f \in runs : f.mount = mounts

RunnerHolds == AutoRunsOnce /\ RunningIsTrue
=============================================================================
