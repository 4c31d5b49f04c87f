----------------------------- MODULE LearnerStore -----------------------------
(***************************************************************************)
(* What the browser remembers of one topic, and the setters that change    *)
(* it: the topic's part of progressStore.ts (a slice), the SM-2 step of    *)
(* sm2.ts, and the topic's record in topicState.ts (a world: the values    *)
(* that plots and sliders share).                                          *)
(*                                                                         *)
(* Times are days; an ease is in hundredths, so SM-2's constants are       *)
(* integers.  None stands for a missing key.                               *)
(***************************************************************************)
EXTENDS Integers, FiniteSets

CONSTANTS
    Option,    \* the options of the topic's decision
    Block,     \* blocks a reader may flag
    Key, Val,  \* shared state: names and values
    None

ASSUME StoreAssumption == None \notin Option \cup Val

-----------------------------------------------------------------------------
(***************************************************************************)
(* sm2.ts                                                                  *)
(***************************************************************************)

Card == [ease : Nat, interval : Nat, last : Nat, due : Nat]

FirstEase == 250
EaseFloor == 130
Forgotten == [ease |-> FirstEase, interval |-> 0, last |-> 0, due |-> 0]

Grade(quality) == IF quality < 0 THEN 0 ELSE IF quality > 5 THEN 5 ELSE quality

\* Mutant of EaseAfter: the floor is forgotten.
EaseUnbounded(ease, q) ==
    IF q < 3 THEN ease ELSE ease + 10 - (5 - q) * (8 + (5 - q) * 2)

EaseAfter(ease, q) ==
    LET grown == ease + 10 - (5 - q) * (8 + (5 - q) * 2)
    IN  IF q < 3 THEN ease ELSE IF grown < EaseFloor THEN EaseFloor ELSE grown

\* Math.round, so that half a day counts as one.
IntervalAfter(interval, ease, q) ==
    CASE q < 3 \/ interval = 0 -> 1
      [] q >= 3 /\ interval = 1 -> 6
      [] OTHER -> (interval * ease + 50) \div 100

Sm2Step(card, quality, now) ==
    LET q == Grade(quality)
        ease == EaseAfter(card.ease, q)
        interval == IntervalAfter(card.interval, ease, q)
    IN  [ease |-> ease, interval |-> interval, last |-> now, due |-> now + interval]

-----------------------------------------------------------------------------
(***************************************************************************)
(* progressStore.ts, one topic's slice                                     *)
(***************************************************************************)

Slice == [done : BOOLEAN, started : BOOLEAN,
          pick : Option \cup {None},
          card : Card \cup {None},
          flag : [Block -> Nat],
          stamp : Nat]

EmptySlice == [done |-> FALSE, started |-> FALSE, pick |-> None, card |-> None,
               flag |-> [b \in Block |-> 0], stamp |-> 0]

\* bumpTopic; the setters of this module run outside a hydration.
Bump(s, now) == [s EXCEPT !.stamp = now]

FirstCard(now) ==
    [ease |-> FirstEase, interval |-> 1, last |-> now, due |-> now + 1]

\* Mutant of MarkCompleted: the topic stays in progress.
MarkCompletedStarted(s, now) ==
    Bump([s EXCEPT !.done = TRUE,
                   !.card = IF s.done THEN @ ELSE FirstCard(now)], now)

\* A topic completed again keeps its card; one unmarked and completed again
\* starts over.
MarkCompleted(s, now) ==
    Bump([s EXCEPT !.done = TRUE, !.started = FALSE,
                   !.card = IF s.done THEN @ ELSE FirstCard(now)], now)

MarkInProgress(s, now) ==
    IF s.started \/ s.done THEN s ELSE Bump([s EXCEPT !.started = TRUE], now)

UnmarkCompleted(s, now) == Bump([s EXCEPT !.done = FALSE], now)

RecordDecision(s, option, now) == Bump([s EXCEPT !.pick = option], now)

ClearDecision(s, now) ==
    IF s.pick = None THEN s ELSE Bump([s EXCEPT !.pick = None], now)

RecordReview(s, quality, now) ==
    LET card == IF s.card = None THEN Forgotten ELSE s.card
    IN  Bump([s EXCEPT !.card = Sm2Step(card, quality, now)], now)

IsDue(s, now) == s.card # None /\ s.card.due <= now

\* ConfusionFlag: one more when the block has no flag, none when it has.
ToggleFlag(s, b, now) ==
    Bump([s EXCEPT !.flag[b] = IF @ > 0 THEN 0 ELSE @ + 1], now)

Status(s) == IF s.done THEN "completed"
             ELSE IF s.started THEN "in_progress" ELSE "not_started"

HasContent(s) == \/ Status(s) # "not_started"
                 \/ s.pick # None \/ s.card # None
                 \/ \E b \in Block : s.flag[b] > 0

\* syncFromServer for the topic: what the server has replaces the slice as a
\* whole, unless the slice was touched later.
Adopt(s, server) == IF s.stamp > server.stamp THEN s ELSE server

\* migrate, on a persisted slice of a version that had only completions.
Migrate(s, now) ==
    IF HasContent(s) THEN [s EXCEPT !.stamp = now] ELSE [s EXCEPT !.stamp = 0]

-----------------------------------------------------------------------------
(***************************************************************************)
(* topicState.ts, one topic's record                                       *)
(***************************************************************************)

Values == [Key -> Val \cup {None}]
World == [value : Values, defaults : Values, pick : Option \cup {None},
          success : BOOLEAN]

Unset == [k \in Key |-> None]
Overlaid(base, patch) ==
    [k \in Key |-> IF patch[k] # None THEN patch[k] ELSE base[k]]

EmptyWorld(defaults) ==
    [value |-> defaults, defaults |-> defaults, pick |-> None, success |-> FALSE]

OrEmpty(w) == IF w = None THEN EmptyWorld(Unset) ELSE w

\* initTopic: a value that is there wins over the author's default.
InitTopic(w, defaults) ==
    IF w = None THEN EmptyWorld(defaults)
    ELSE [w EXCEPT !.value = Overlaid(defaults, @), !.defaults = defaults]

PatchState(w, patch) == [OrEmpty(w) EXCEPT !.value = Overlaid(@, patch)]
ResetState(w) == IF w = None THEN w ELSE [w EXCEPT !.value = w.defaults]
SelectDecision(w, option) == [OrEmpty(w) EXCEPT !.pick = option]
MarkSuccess(w) == [OrEmpty(w) EXCEPT !.success = TRUE]
ClearSuccess(w) == IF w = None THEN w ELSE [w EXCEPT !.success = FALSE]
=============================================================================
