----------------------------- MODULE StepFigures -----------------------------
(***************************************************************************)
(* The two ways a derivation shows its steps (topic/blocks/StepThrough.tsx *)
(* and FillIn.tsx): one after the other by timers once the list is on the  *)
(* screen, or each when the reader asks for it.  The chain of timers is    *)
(* not cleared by anything, so two of them may run at a time.              *)
(***************************************************************************)
EXTENDS Naturals

CONSTANTS
    StepCount,   \* steps of the derivation
    MaxFlips     \* bound: changes of the reader's motion preference

ASSUME StepAssumption == StepCount \in Nat \ {0} /\ MaxFlips \in Nat

VARIABLES
    figure,      \* "through" (StepThrough) or "fill" (FillIn)
    visible,     \* steps that are shown: a prefix of the list
    motion,      \* reduced: the preference; flips: its changes
    watching,    \* the observer waits for the list to come on the screen
    chains       \* what the chain of timers begun after each flip has shown

stepVars == <<figure, visible, motion, watching, chains>>

StepTypeOK ==
    /\ figure \in {"through", "fill"}
    /\ visible \in 0 .. StepCount
    /\ motion \in [reduced : BOOLEAN, flips : 0 .. MaxFlips]
    /\ watching \in BOOLEAN
    /\ chains \in [0 .. MaxFlips -> 0 .. StepCount]

-----------------------------------------------------------------------------
\* StepThrough.  The list comes on the screen: the observer is gone, and the
\* first tick is now.
Intersect ==
    /\ watching
    /\ watching' = FALSE
    /\ visible' = 1
    /\ chains' = [chains EXCEPT ![motion.flips] = 1]
    /\ UNCHANGED <<figure, motion>>

\* Mutant of Running: a chain ends a step early.
RunningShort(c) == chains[c] # 0 /\ chains[c] + 1 < StepCount

\* Mutant of Running: a chain goes a step too far.
RunningLong(c) == chains[c] # 0 /\ chains[c] <= StepCount

\* A timer of the chain is set.
Running(c) == chains[c] # 0 /\ chains[c] < StepCount

\* A tick shows as many steps as its own chain has, whatever is shown.
ChainTick(c) ==
    /\ Running(c)
    /\ chains' = [chains EXCEPT ![c] = @ + 1]
    /\ visible' = chains[c] + 1
    /\ UNCHANGED <<figure, motion, watching>>

\* The preference changes: everything is shown, or the list is observed anew.
FlipMotion ==
    /\ figure = "through" /\ motion.flips < MaxFlips
    /\ motion' = [reduced |-> ~motion.reduced, flips |-> motion.flips + 1]
    /\ visible' = IF motion.reduced THEN visible ELSE StepCount
    /\ watching' = motion.reduced
    /\ UNCHANGED <<figure, chains>>

\* FillIn.  A hidden step shows itself and those before it.
Reveal(i) ==
    /\ figure = "fill" /\ i \in visible + 1 .. StepCount
    /\ visible' = i
    /\ UNCHANGED <<figure, motion, watching, chains>>

StepInit ==
    /\ figure \in {"through", "fill"}
    /\ motion \in [reduced : BOOLEAN, flips : {0}]
    /\ visible = IF figure = "through" /\ motion.reduced THEN StepCount ELSE 0
    /\ watching = (figure = "through" /\ ~motion.reduced)
    /\ chains = [c \in 0 .. MaxFlips |-> 0]

\* A step's button, or "Reveal all", which is the last step's.
StepNext ==
    \/ Intersect \/ FlipMotion
    \/ \E c \in DOMAIN chains : ChainTick(c)
    \/ \E i \in 1 .. StepCount : Reveal(i)

ChainTicks == \E c \in DOMAIN chains : ChainTick(c)

StepSpec == StepInit /\ [][StepNext]_stepVars /\ WF_stepVars(ChainTicks)

-----------------------------------------------------------------------------
\* A list that has come on the screen is not shown whole yet.
StepsWait == (\E c \in DOMAIN chains : chains[c] # 0) /\ visible # StepCount
=============================================================================
