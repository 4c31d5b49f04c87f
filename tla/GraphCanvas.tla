----------------------------- MODULE GraphCanvas -----------------------------
(***************************************************************************)
(* The canvas that draws a graph (components/graph/ForceGraph.tsx): the    *)
(* simulation that a React effect builds over the nodes it is given, the   *)
(* frames that draw it, the pointer's drag, hover and click over it, and   *)
(* the two ways a page aims the camera.                                    *)
(*                                                                         *)
(* Every build makes new objects for the same nodes; a gesture that began  *)
(* before goes on with an object of the old simulation.  So an object is a *)
(* node and whether it is of the simulation that runs.  Places are         *)
(* abstract: a link has a bearing, in eighths of a turn.  Of a drawing it  *)
(* is kept which nodes, which descriptions of links, which node as the     *)
(* selected one and which as glowing; what is off the screen counts too.   *)
(***************************************************************************)
EXTENDS Naturals, FiniteSets

CONSTANTS
    Dot, RootDot,   \* nodes, and those of depth 0, which are their own domain
    FamilyOf,       \* FamilyOf[d]: the root of d's domain
    Links,          \* edges, <<source, target>>
    Required,       \* of these, the prerequisites that have a description
    Bearing,        \* Bearing[l]: where the target lies from the source
    Payloads,       \* the sets of nodes that a page may hand the canvas
    NoDot

ASSUME CanvasAssumption ==
    /\ RootDot \subseteq Dot /\ NoDot \notin Dot
    /\ FamilyOf \in [Dot -> RootDot] /\ \A r \in RootDot : FamilyOf[r] = r
    /\ Links \subseteq Dot \X Dot /\ Required \subseteq Links
    /\ Bearing \in [Links -> 0 .. 7]
    /\ Payloads \subseteq SUBSET Dot

VARIABLES
    given,     \* the nodes of the page; none while the page draws no canvas
    chosen,    \* highlightedNode
    family,   \* visibleDomain, NoDot for all
    sim,       \* simRef: its nodes, those pinned, hot (alphaTarget), warm
               \* (alpha over its minimum), ticking (its timer runs)
    held,      \* the gesture of d3-drag, and whether by touch
    dragged,   \* draggedRef
    hovered,   \* hoveredRef
    glow,      \* nodes whose targetGlow is not 0
    pointer,   \* pendingHoverRef: what lies under the pointer, if it moved
    camera,    \* the nodes the last aim was at
    frame,     \* animFrameRef: a frame is to come
    pixels     \* what the last frame drew

drawVars == <<family, frame, pixels>>
canvasVars == <<given, chosen, sim, held, dragged, hovered, glow, pointer, camera, drawVars>>

NoObject == [dot |-> NoDot, live |-> FALSE]
Object(d) == [dot |-> d, live |-> TRUE]
Objects == [dot : Dot, live : BOOLEAN] \cup {NoObject}
Stale(object) == [object EXCEPT !.live = FALSE]
LetGo == [on |-> NoObject, touch |-> FALSE]

CanvasTypeOK ==
    /\ given \subseteq Dot
    /\ chosen \in Dot \cup {NoDot}
    /\ sim \in [dots : SUBSET Dot, pinned : SUBSET Dot, hot : BOOLEAN,
                warm : BOOLEAN, ticking : BOOLEAN]
    /\ sim.pinned \subseteq sim.dots
    /\ held \in [on : Objects, touch : BOOLEAN]
    /\ dragged \in Objects /\ hovered \in Objects
    /\ glow \subseteq sim.dots
    /\ pointer \in Dot \cup {NoDot, "still"}
    /\ camera \subseteq Dot
    /\ family \in RootDot \cup {NoDot} /\ frame \in BOOLEAN
    /\ pixels \in [dots : SUBSET Dot, captions : SUBSET Required,
                   mark : Dot \cup {NoDot}, lit : SUBSET Dot]

-----------------------------------------------------------------------------
(***************************************************************************)
(* The simulation.                                                         *)
(***************************************************************************)

\* Mutant of Carried: a pin is carried over with the position.
CarriedPins(dots) == sim.pinned \cap dots

\* What the new objects keep of the old ones' pins: they get the position
\* and the velocity alone.
Carried(dots) == {}

Built(dots) == [dots |-> dots, pinned |-> Carried(dots),
                hot |-> FALSE, warm |-> TRUE, ticking |-> TRUE]

\* The effect over the nodes: the objects of the gesture, of the drag and of
\* the hover are of the past now, and the frame that was to come is
\* cancelled: the new simulation's ticks ask for others.
Rebuilds(dots) ==
    /\ sim' = Built(dots)
    /\ frame' = FALSE /\ UNCHANGED pixels
    /\ dragged' = Stale(dragged) /\ hovered' = Stale(hovered)
    /\ glow' = {}

\* The effect over the listeners: it cancels the hover of this frame, and a
\* touch loses the listeners that would have ended it.
Rebinds ==
    /\ pointer' = "still"
    /\ held' = IF held.touch THEN LetGo ELSE [held EXCEPT !.on = Stale(@)]

\* Another filter or a fetched graph: other nodes, the same listeners.
GiveNodes(dots) ==
    /\ given # {} /\ dots # {} /\ dots # given
    /\ given' = dots
    /\ Rebuilds(dots)
    /\ held' = [held EXCEPT !.on = Stale(@)]
    /\ UNCHANGED <<chosen, family, pointer, camera>>

\* A selection, the theme, the size of the window, the reader's progress:
\* each makes another `render`, on which both effects depend.
Choose(d) ==
    /\ given # {}
    /\ chosen' = d
    /\ Rebuilds(given) /\ Rebinds
    /\ UNCHANGED <<given, family, camera>>

Repaint == Choose(chosen)

\* A tick asks for a frame.  alpha decays to its minimum unless it is held
\* over it; then the timer of the simulation stops, after a last tick.
SimTick ==
    /\ sim.ticking /\ frame' = TRUE
    /\ \/ UNCHANGED sim
       \/ ~sim.hot /\ sim' = [sim EXCEPT !.warm = FALSE, !.ticking = FALSE]
    /\ UNCHANGED <<given, chosen, held, dragged, hovered, glow, pointer, camera,
                   family, pixels>>

-----------------------------------------------------------------------------
(***************************************************************************)
(* The frames.                                                             *)
(***************************************************************************)

Painted == {d \in sim.dots : family \in {NoDot, FamilyOf[d]}}
PaintedLinks == {l \in Links : l[1] \in Painted /\ l[2] \in Painted}

\* Why the selected node needs what it needs.
Described(l) == l \in Required /\ l[2] = chosen
Captions == {l \in PaintedLinks : Described(l)}

Drawing(lit) == [dots |-> Painted, captions |-> Captions,
                 mark |-> IF chosen \in Painted THEN chosen ELSE NoDot,
                 lit |-> lit \cap Painted]

\* A glow goes over to its target in several frames.
Fading == {pixels.lit, glow}

\* render: it asks for the next frame itself while something fades or moves.
Frame ==
    /\ frame
    /\ \E lit \in Fading :
         /\ pixels' = Drawing(lit)
         /\ frame' = (lit # glow \/ sim.warm)
    /\ UNCHANGED <<given, chosen, sim, held, dragged, hovered, glow, pointer, camera, family>>

-----------------------------------------------------------------------------
(***************************************************************************)
(* The pointer.                                                            *)
(***************************************************************************)

DragStart(d, touch) ==
    /\ held = LetGo /\ d \in sim.dots
    /\ held' = [on |-> Object(d), touch |-> touch]
    /\ dragged' = Object(d)
    /\ sim' = [sim EXCEPT !.pinned = @ \cup {d}, !.hot = TRUE, !.warm = TRUE, !.ticking = TRUE]
    /\ UNCHANGED <<given, chosen, hovered, glow, pointer, camera, drawVars>>

\* The pin is lifted from the object that was grabbed; alpha is set, but the
\* timer is not started.
DragEnd ==
    /\ held # LetGo
    /\ held' = LetGo /\ dragged' = NoObject
    /\ sim' = [sim EXCEPT !.hot = FALSE, !.warm = TRUE,
                  !.pinned = IF held.on.live THEN @ \ {held.on.dot} ELSE @]
    /\ UNCHANGED <<given, chosen, hovered, glow, pointer, camera, drawVars>>

MoveMouse(d) ==
    /\ given # {} /\ ~held.touch
    /\ d \in sim.dots \cup {NoDot} /\ pointer = "still"
    /\ pointer' = d
    /\ UNCHANGED <<given, chosen, sim, held, dragged, hovered, glow, camera, drawVars>>

Near(d) == {d} \cup {e \in sim.dots : <<d, e>> \in Links \/ <<e, d>> \in Links}

\* Mutant of Unlit: the glow of the node before stays.
UnlitNot == glow

Unlit == {}

\* Mutant of NodeChanged: nodes are compared by their slugs.
SlugChanged(node) == node.dot # hovered.dot

NodeChanged(node) == node # hovered

\* processHover, once a frame; not during a drag.  What lay under the pointer
\* may have been filtered out since.  A frame is asked for when it is another
\* object than before.
Hover ==
    /\ pointer # "still"
    /\ pointer' = "still"
    /\ IF dragged # NoObject THEN UNCHANGED <<hovered, glow, frame>>
       ELSE LET node == IF pointer \in sim.dots THEN Object(pointer) ELSE NoObject
            IN  /\ hovered' = node
                /\ glow' = Unlit \cup (IF node.live THEN Near(pointer) ELSE {})
                /\ frame' = (frame \/ NodeChanged(node))
    /\ UNCHANGED <<given, chosen, sim, held, dragged, camera, family, pixels>>

\* A click selects, and a double click is two of them; no click counts while
\* something is dragged.
Click(d) ==
    /\ dragged = NoObject /\ d \in sim.dots \ {chosen}
    /\ Choose(d)

-----------------------------------------------------------------------------
(***************************************************************************)
(* The handle of the pages.                                                *)
(***************************************************************************)

\* Where e lies from d, and how far that is off the arrow, within 45 degrees.
Toward(d, e) == {Bearing[l] : l \in Links \cap {<<d, e>>}}
                \cup {(Bearing[l] + 4) % 8 : l \in Links \cap {<<e, d>>}}
Off(a, b) == IF (a + 8 - b) % 8 <= 4 THEN (a + 8 - b) % 8 ELSE (b + 8 - a) % 8
Neighbors(d, arrow) ==
    LET offs(e) == {Off(b, arrow) : b \in Toward(d, e)}
        cone == {e \in sim.dots : \E o \in offs(e) : o <= 1}
    IN  {e \in cone : \E o \in offs(e) : \A f \in cone : \A p \in offs(f) : o <= p}

\* An arrow key: right, down, left, up are every other eighth of the turn.
Walk(arrow) ==
    /\ chosen \in sim.dots /\ arrow \in {0, 2, 4, 6}
    /\ \E e \in Neighbors(chosen, arrow) : Choose(e)

Members(r) == {d \in sim.dots \ RootDot : FamilyOf[d] = r}

\* centerOnSlug: the root of a family stands for its members; a node that is
\* not drawn moves nothing.
Centered(d) ==
    IF d \notin sim.dots THEN camera
    ELSE IF d \in RootDot /\ Members(d) # {} THEN Members(d)
    ELSE {d}

\* fitNodes: no list is every node.
Fitted(dots) ==
    LET subset == IF dots = {} THEN sim.dots ELSE dots \cap sim.dots
    IN  IF subset = {} THEN camera ELSE subset

Aim(to) ==
    /\ given # {}
    /\ camera' = to /\ camera' # camera
    /\ frame' = TRUE
    /\ UNCHANGED <<given, chosen, sim, held, dragged, hovered, glow, pointer,
                   family, pixels>>

-----------------------------------------------------------------------------
Blankness == [dots |-> {}, captions |-> {}, mark |-> NoDot, lit |-> {}]
NoSim == [dots |-> {}, pinned |-> {}, hot |-> FALSE, warm |-> FALSE, ticking |-> FALSE]

CanvasInit ==
    /\ given \in Payloads \ {{}}
    /\ chosen = NoDot
    /\ sim = [NoSim EXCEPT !.dots = given, !.warm = TRUE, !.ticking = TRUE]
    /\ held = LetGo /\ dragged = NoObject /\ hovered = NoObject
    /\ glow = {} /\ pointer = "still" /\ camera = {}
    /\ family = NoDot /\ frame = FALSE /\ pixels = Blankness

CanvasNext ==
    \/ \E dots \in Payloads : GiveNodes(dots)
    \/ \E d \in given \cup {NoDot} : Choose(d)
    \/ Repaint \/ SimTick \/ Frame
    \/ \E d \in Dot : Click(d) \/ DragStart(d, TRUE) \/ DragStart(d, FALSE)
    \/ DragEnd
    \/ \E d \in Dot \cup {NoDot} : MoveMouse(d)
    \/ Hover
    \/ \E arrow \in 0 .. 7 : Walk(arrow)
    \/ \E d \in Dot : Aim(Centered(d))

CanvasSpec == CanvasInit /\ [][CanvasNext]_canvasVars

-----------------------------------------------------------------------------
(***************************************************************************)
(* What the canvas promises.                                               *)
(***************************************************************************)

\* A node of the running simulation is pinned only under the pointer that
\* holds it, and the simulation is kept hot only by one: whatever rebuilds
\* it in the middle of a drag, the layout is free to settle afterwards.  And
\* what glows is the node under the pointer with its neighbours.
LetsGo ==
    /\ \A d \in sim.pinned : held.on = Object(d)
    /\ sim.hot => held.on.live
    /\ glow # {} => hovered.live /\ glow = Near(hovered.dot)

\* Once the simulation is at rest and no frame is to come, the screen shows
\* the nodes, the selection, the family and the glow there are: no cancelled
\* frame and no hover that found the same node took the last drawing away.
ShowsWhatIs ==
    given # {} /\ ~sim.ticking /\ ~frame => pixels = Drawing(glow)

CanvasHolds == LetsGo /\ ShowsWhatIs
=============================================================================
