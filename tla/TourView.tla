------------------------------ MODULE TourView ------------------------------
(***************************************************************************)
(* The tour of a topic (components/topic/TourView.tsx): prose that scrolls *)
(* over a canvas of the whole graph.  The anchor above the reading line    *)
(* picks a target, the target arms two timers, and each of them aims the   *)
(* camera.                                                                 *)
(*                                                                         *)
(* A place of the scroll is the last block whose top is over the line, 0   *)
(* above the first; the branch filter is Reader's.                         *)
(***************************************************************************)
EXTENDS GraphCanvas, Sequences

CONSTANTS
    Story,       \* the blocks: [layer, anchor, view], a view of a graph_view
    NoAnchor,    \* a block without an anchor, a block without a view
    MaxScrolls   \* bound

ASSUME TourAssumption ==
    /\ Story \in Seq({Story[k] : k \in DOMAIN Story})
    /\ \A k \in DOMAIN Story : Story[k].view \in Dot \cup {"all", "none"}
    /\ NoDot \notin {"all", "none"} /\ MaxScrolls \in Nat

VARIABLES
    read,      \* activeLayer, the place of the scroll, scrolls made
    lastId,    \* the anchor the listener saw last, in its closure
    target,    \* activeTarget: a node or family, or "all"
    timers,    \* the effect's timers that are still to fire, soonest first
    payload    \* getGraph: waiting, here, failed

tourVars == <<read, lastId, target, timers, payload>>
tourAll == <<canvasVars, tourVars>>

Layer == {"intuition", "rigorous", "both"}
Targets == Dot \cup {"all"}

TourTypeOK ==
    /\ read \in [layer : Layer, place : 0 .. Len(Story), scrolls : 0 .. MaxScrolls]
    /\ target \in Targets
    /\ timers \in UNION {[1 .. k -> Targets] : k \in 0 .. 2}
    /\ payload \in {"waiting", "here", "failed"}

\* anchorBlocks, by their places in the story.
Anchored(layer) ==
    {k \in DOMAIN Story : /\ Story[k].anchor # NoAnchor
                          /\ layer = "both" \/ Story[k].layer \in {"both", layer}}

\* The anchor the camera is at: the last over the line, the first if none is.
Last(places) == CHOOSE k \in places : \A j \in places : j <= k
First(places) == CHOOSE k \in places : \A j \in places : k <= j
PickActiveAnchor(layer, place) ==
    LET over == {k \in Anchored(layer) : k <= place}
    IN  Story[IF over # {} THEN Last(over) ELSE First(Anchored(layer))].anchor

\* targetByAnchor: the last view of the layer under that anchor.
Views(layer, anchor) ==
    {k \in Anchored(layer) : Story[k].anchor = anchor /\ Story[k].view # "none"}
TargetOf(layer, anchor) == Story[Last(Views(layer, anchor))].view

-----------------------------------------------------------------------------
\* The effect over the target and the nodes: the timers of the run before
\* are cleared, and two start, at once and after 80 ms.
Armed(t, loaded) == IF loaded THEN <<t, t>> ELSE timers

\* The listener's update.  An anchor without a view keeps the frame; targets
\* are compared by identity, so each layer makes others.
Update(layer, place, seen, loaded) ==
    IF Anchored(layer) = {} THEN UNCHANGED <<lastId, target, timers>>
    ELSE LET id == PickActiveAnchor(layer, place)
         IN  /\ lastId' = id
             /\ IF id = seen \/ Views(layer, id) = {} THEN UNCHANGED <<target, timers>>
                ELSE /\ target' = TargetOf(layer, id)
                     /\ timers' = Armed(TargetOf(layer, id), loaded)

\* visibleDomain, whose members alone are painted.
VisibleDomain(t) == IF t = "all" THEN NoDot ELSE FamilyOf[t]

\* Another family on the screen rebuilds the canvas, once there is one.
Repainted ==
    IF payload = "here" /\ VisibleDomain(target') # family
    THEN /\ family' = VisibleDomain(target')
         /\ Rebuilds(given) /\ Rebinds
         /\ UNCHANGED <<given, chosen, camera>>
    ELSE UNCHANGED canvasVars

Scroll(place) ==
    /\ read.scrolls < MaxScrolls /\ place # read.place
    /\ read' = [read EXCEPT !.place = place, !.scrolls = @ + 1]
    /\ Update(read.layer, place, lastId, payload = "here")
    /\ Repainted
    /\ UNCHANGED payload

\* Mutant of Seen: the listener of the other layer remembers the anchor.
SeenStill == lastId

\* Each run of the effect has a lastId of its own.
Seen == NoAnchor

\* The other layer is laid out anew, and the line falls anywhere in it.
SetLayer(layer) ==
    /\ read.scrolls < MaxScrolls /\ layer # read.layer
    /\ \E place \in 0 .. Len(Story) :
         /\ read' = [layer |-> layer, place |-> place, scrolls |-> read.scrolls + 1]
         /\ Update(layer, place, Seen, payload = "here")
    /\ Repainted
    /\ UNCHANGED payload

\* Mutant of Loads: the effect does not depend on the nodes.
LoadsOnly == timers

Loads == Armed(target, TRUE)

\* The canvas is mounted in the commit that has the nodes, before the effect
\* looks for its handle.
GraphArrives ==
    /\ payload = "waiting"
    /\ payload' = "here"
    /\ given' = Dot /\ sim' = Built(Dot) /\ family' = VisibleDomain(target)
    /\ timers' = Loads
    /\ UNCHANGED <<read, lastId, target, chosen, held, dragged, hovered, glow, pointer,
                   camera, frame, pixels>>

\* The prose works without the graph.
GraphLost ==
    /\ payload = "waiting"
    /\ payload' = "failed"
    /\ UNCHANGED <<read, lastId, target, timers, canvasVars>>

\* A family is fitted by its members, or, without any, centered.
Framed(t) ==
    IF t = "all" THEN Fitted({})
    ELSE IF t \in RootDot /\ Members(t) # {} THEN Fitted(Members(t))
    ELSE Centered(t)

AimTick ==
    /\ timers # << >>
    /\ timers' = Tail(timers)
    /\ camera' = Framed(Head(timers)) /\ frame' = TRUE
    /\ UNCHANGED <<read, lastId, target, payload, given, chosen, sim, held, dragged,
                   hovered, glow, pointer, family, pixels>>

\* The canvas on its own: nobody points at it.
Draws == (SimTick \/ Frame) /\ UNCHANGED tourVars

\* A run of update when the page mounts; the canvas is not there yet.
TourInit ==
    /\ \E layer \in Layer :
         read = [layer |-> layer, place |-> 0, scrolls |-> 0]
    /\ target = IF Anchored(read.layer) = {} THEN "all"
                ELSE LET id == PickActiveAnchor(read.layer, 0)
                     IN  IF Views(read.layer, id) = {} THEN "all"
                         ELSE TargetOf(read.layer, id)
    /\ lastId = IF Anchored(read.layer) = {} THEN NoAnchor
                ELSE PickActiveAnchor(read.layer, 0)
    /\ timers = << >> /\ payload = "waiting"

TourNext ==
    \/ \E place \in 0 .. Len(Story) : Scroll(place)
    \/ \E layer \in Layer : SetLayer(layer)
    \/ GraphArrives \/ GraphLost \/ AimTick \/ Draws

NoCanvas ==
    /\ given = {} /\ chosen = NoDot /\ sim = NoSim
    /\ held = LetGo /\ dragged = NoObject /\ hovered = NoObject
    /\ glow = {} /\ pointer = "still" /\ camera = {}
    /\ family = NoDot /\ frame = FALSE /\ pixels = Blankness

TourSpec == TourInit /\ NoCanvas /\ [][TourNext]_tourAll /\ WF_tourAll(AimTick)

-----------------------------------------------------------------------------
(***************************************************************************)
(* What the tour promises.                                                 *)
(***************************************************************************)

\* When the section at the reading line has a view, that is the target, also
\* after a switch to a layer that has other views under the same anchors;
\* and once the timers have fired the camera is on the target, whichever of
\* the scroll and the graph came first.
TourShowsItsSection ==
    /\ Anchored(read.layer) # {} =>
         LET id == PickActiveAnchor(read.layer, read.place)
         IN  Views(read.layer, id) # {} => target = TargetOf(read.layer, id)
    /\ payload = "here" /\ timers = << >> => camera = Framed(target)
    /\ payload = "here" /\ timers = << >> /\ ~sim.ticking /\ ~frame
         => camera \subseteq pixels.dots
=============================================================================
