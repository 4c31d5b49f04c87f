------------------------------- MODULE Practice -------------------------------
(***************************************************************************)
(* A reader practising on one topic: the decision, the quiz, the exercise, *)
(* the playground, the recall prompt, the revisit flags and the completion *)
(* button, what they write to the two stores, what a pull from another     *)
(* device replaces under them, and leaving the page and coming back.       *)
(*                                                                         *)
(* Component state that React drops when the page closes is in page; what  *)
(* an effect does after the render that a handler causes is part of the    *)
(* handler's action.                                                       *)
(***************************************************************************)
EXTENDS LearnerStore

CONSTANTS
    CorrectOption,  \* meta.correct of the decision, None when it has none
    Writes,         \* Writes[o]: the state an option writes
    Author,         \* the defaults of the topic's state block
    Target, Goal,   \* goal.target, and the values that satisfy success_when
    Questions,      \* number of questions of the quiz
    Elsewhere,      \* slices another device may have pushed
    MaxDay,         \* bound on time, in days
    MaxReviews      \* bound on the reviews a behaviour records

ASSUME PracticeAssumption ==
    /\ CorrectOption \in Option \cup {None}
    /\ Writes \in [Option -> Values]
    /\ Author \in Values /\ Target \in Values /\ Goal \subseteq Values
    /\ Target \in Goal
    /\ None \notin World
    /\ Questions \in Nat \ {0}
    /\ Elsewhere \subseteq Slice
    /\ MaxDay \in Nat /\ MaxReviews \in Nat

VARIABLES
    slice, world,  \* the stores
    page,          \* component state
    today,
    tally          \* reviews recorded: in all, and by this visit's exercise

practiceVars == <<slice, world, page, today, tally>>

Opened == [recall |-> TRUE, question |-> 1, answered |-> FALSE,
           exercise |-> "idle", recorded |-> FALSE, reset |-> FALSE,
           praised |-> FALSE]

PracticeTypeOK ==
    /\ slice \in Slice
    /\ world \in World
    /\ page \in [recall : BOOLEAN, question : 1 .. Questions, answered : BOOLEAN,
                 exercise : {"idle", "wrong", "correct", "revealed"},
                 recorded : BOOLEAN, reset : BOOLEAN, praised : BOOLEAN]
    /\ today \in 0 .. MaxDay
    /\ tally \in [reviews : Nat, exercise : Nat]

\* A first visit, or one of a browser that completed the topic before the
\* store kept review cards.
PracticeInit ==
    /\ slice \in {MarkInProgress(EmptySlice, 0),
                  Migrate([EmptySlice EXCEPT !.done = TRUE], 0)}
    /\ world = InitTopic(None, Author)
    /\ page = Opened
    /\ today = 0
    /\ tally = [reviews |-> 0, exercise |-> 0]

-----------------------------------------------------------------------------
(***************************************************************************)
(* The playground's meter.                                                 *)
(***************************************************************************)

\* A parameter that is not set counts as 0.
Held(value, k) == IF value[k] = None THEN 0 ELSE value[k]

\* Mutant of OnTarget: one parameter that matches fills the meter.
OnTargetSome(value) ==
    \E k \in Key : Target[k] # None /\ Held(value, k) = Target[k]

\* A goal without a number to reach is never close.
OnTarget(value) ==
    LET aimed == {k \in Key : Target[k] # None}
    IN  aimed # {} /\ \A k \in aimed : Held(value, k) = Target[k]

MeterFull(value) == value \in Goal \/ OnTarget(value)

\* The effect that persists success runs when the meter's score changed.
Metered(w) ==
    IF MeterFull(w.value) /\ ~MeterFull(world.value) THEN MarkSuccess(w) ELSE w

SetWorld(w) == world' = Metered(w)

Slide(k, v) ==
    /\ v # world.value[k]
    /\ SetWorld(PatchState(world, [Unset EXCEPT ![k] = v]))
    /\ UNCHANGED <<slice, page, today, tally>>

\* "Reset": every bound key that has a default.
ResetBound ==
    /\ SetWorld(PatchState(world, world.defaults))
    /\ UNCHANGED <<slice, page, today, tally>>

SkipGoal ==
    /\ ~world.success
    /\ world' = MarkSuccess(PatchState(world, Target))
    /\ UNCHANGED <<slice, page, today, tally>>

\* The meter's score has not changed, so the effect does not run again.
TryAgain ==
    /\ world.success
    /\ world' = ClearSuccess(world)
    /\ UNCHANGED <<slice, page, today, tally>>

\* A state_reset anchor that becomes active for the first time.
ScrollToReset ==
    /\ ~page.reset
    /\ page' = [page EXCEPT !.reset = TRUE]
    /\ SetWorld(ResetState(world))
    /\ UNCHANGED <<slice, today, tally>>

-----------------------------------------------------------------------------
(***************************************************************************)
(* Answers.                                                                *)
(***************************************************************************)

\* Every review an answer records, and whether the exercise did.
Review(s, quality, exercise) ==
    /\ tally.reviews < MaxReviews
    /\ slice' = RecordReview(s, quality, today)
    /\ tally' = [tally EXCEPT !.reviews = @ + 1,
                              !.exercise = IF exercise THEN @ + 1 ELSE @]

\* handleChoose: the pick goes to both stores, the writes to the world, and
\* every pick is a review.
ChooseOption(o, viaShowAnswer) ==
    /\ viaShowAnswer => slice.pick = None /\ o = CorrectOption
    /\ Review(RecordDecision(slice, o, today),
              IF CorrectOption = None THEN 3
              ELSE IF ~viaShowAnswer /\ o = CorrectOption THEN 5 ELSE 1, FALSE)
    /\ SetWorld(PatchState(SelectDecision(world, o), Writes[o]))
    /\ UNCHANGED <<page, today>>

\* The prompt is there while the topic is due and has not been answered.
Recall(quality) ==
    /\ page.recall /\ IsDue(slice, today)
    /\ Review(slice, quality, FALSE)
    /\ page' = [page EXCEPT !.recall = FALSE]
    /\ UNCHANGED <<world, today>>

QuizPick(right) ==
    /\ ~page.answered
    /\ page' = [page EXCEPT !.answered = TRUE]
    /\ Review(slice, IF right THEN 5 ELSE 1, FALSE)
    /\ UNCHANGED <<world, today>>

QuizNext ==
    /\ page.answered /\ page.question < Questions
    /\ page' = [page EXCEPT !.question = @ + 1, !.answered = FALSE]
    /\ UNCHANGED <<slice, world, today, tally>>

\* Mutant of Unrecorded: a review for every check.
UnrecordedAlways == TRUE

Unrecorded == ~page.recorded

\* recordOnce
RecordOnce(quality) ==
    IF Unrecorded THEN Review(slice, quality, TRUE) ELSE UNCHANGED <<slice, tally>>

ExerciseCheck(right) ==
    /\ page.exercise \in {"idle", "wrong"}
    /\ page' = [page EXCEPT !.exercise = IF right THEN "correct" ELSE "wrong",
                            !.recorded = TRUE]
    /\ RecordOnce(IF right THEN 5 ELSE 1)
    /\ UNCHANGED <<world, today>>

ExerciseReveal ==
    /\ page.exercise \in {"idle", "wrong"}
    /\ page' = [page EXCEPT !.exercise = "revealed", !.recorded = TRUE]
    /\ RecordOnce(1)
    /\ UNCHANGED <<world, today>>

-----------------------------------------------------------------------------
(***************************************************************************)
(* The slice's other setters, and what comes from elsewhere.               *)
(***************************************************************************)

\* The button of the chrome.  The praise stays as long as the page, whatever
\* becomes of the slice meanwhile.
LearnedButton ==
    IF page.praised THEN "praise" ELSE IF slice.done THEN "unmark" ELSE "mark"

Complete ==
    /\ LearnedButton = "mark"
    /\ slice' = MarkCompleted(slice, today)
    /\ page' = [page EXCEPT !.praised = TRUE]
    /\ UNCHANGED <<world, today, tally>>

Unmark ==
    /\ LearnedButton = "unmark"
    /\ slice' = UnmarkCompleted(slice, today)
    /\ UNCHANGED <<world, page, today, tally>>

Flag(b) ==
    /\ slice' = ToggleFlag(slice, b, today)
    /\ UNCHANGED <<world, page, today, tally>>

\* A pull brings what another device pushed; the world is not synced.
Pull(server) ==
    /\ Adopt(slice, server) # slice
    /\ slice' = Adopt(slice, server)
    /\ UNCHANGED <<world, page, today, tally>>

\* The page closes and opens again: the effects of a first render mark the
\* topic started, merge the author's defaults and read the meter.
Reopen ==
    /\ page # Opened
    /\ page' = Opened
    /\ slice' = MarkInProgress(slice, today)
    /\ world' = LET w == InitTopic(world, Author)
                IN  IF MeterFull(w.value) THEN MarkSuccess(w) ELSE w
    /\ tally' = [tally EXCEPT !.exercise = 0]
    /\ UNCHANGED today

NextDay ==
    /\ today < MaxDay
    /\ today' = today + 1
    /\ UNCHANGED <<slice, world, page, tally>>

PracticeNext ==
    \/ \E k \in Key, v \in Val : Slide(k, v)
    \/ ResetBound \/ SkipGoal \/ TryAgain \/ ScrollToReset
    \/ \E o \in Option, via \in BOOLEAN : ChooseOption(o, via)
    \/ \E quality \in {1, 3, 5} : Recall(quality)
    \/ \E right \in BOOLEAN : QuizPick(right) \/ ExerciseCheck(right)
    \/ QuizNext \/ ExerciseReveal
    \/ Complete \/ Unmark
    \/ \E b \in Block : Flag(b)
    \/ \E server \in Elsewhere : Pull(server)
    \/ Reopen \/ NextDay

PracticeSpec == PracticeInit /\ [][PracticeNext]_practiceVars

-----------------------------------------------------------------------------
(***************************************************************************)
(* What practice promises.                                                 *)
(***************************************************************************)

\* A topic is completed or in progress, never both, whatever the buttons,
\* the visits and the pulls do to it.
OneStatus == ~(slice.done /\ slice.started)

\* The review card is one SM-2 can go on from, after any grades, completions
\* and pulls: the ease is over its floor, a review is at least a day off and
\* its date follows from the last one (sm2.ts:35).
ScheduleHolds ==
    slice.card # None =>
        /\ slice.card.ease >= EaseFloor
        /\ slice.card.interval >= 1
        /\ slice.card.due = slice.card.last + slice.card.interval

\* However often a reader checks, misses and reveals, one visit's exercise
\* moves the review schedule once (ExerciseBlock.tsx:6 "One review event
\* per block").
ExerciseCountsOnce == tally.exercise <= 1

PracticeHolds == OneStatus /\ ScheduleHolds /\ ExerciseCountsOnce

\* The success flag of the playground comes on only where success_when holds
\* (PlaygroundBlock.tsx:98 "the hard gate is success_when").
SuccessEarned ==
    [][world'.success /\ ~world.success => world'.value \in Goal]_practiceVars
=============================================================================
