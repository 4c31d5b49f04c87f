----------------------------- MODULE Graph_proofs -----------------------------
(***************************************************************************)
(* Theorems about the pages that draw the graph: the graph page, the       *)
(* canvas, the tour that scrolls over it and the figures beside a text,    *)
(* for any graph, any story and any of the bounds.                         *)
(***************************************************************************)
EXTENDS MCPages, Pages_proofs, WellFoundedInduction, TLAPS

-----------------------------------------------------------------------------
(***************************************************************************)
(* The graph page.                                                         *)
(***************************************************************************)

\* A click that is unanswered is of the selected node, unless another click
\* was faster.
ClicksAreOfNode == node # Nothing /\ ~raced => \A c \in clicks : c.node = node

ExploreInv ==
    /\ ExploreTypeOK /\ fetches.open <= fetches.made
    /\ ClicksAreOfNode /\ ListsAreOfNode /\ MatchesAreOfText

GraphType == [edges : Graphs \cup {{}}, loaded : BOOLEAN, loading : BOOLEAN, error : BOOLEAN]
FetchType == [open : 0 .. MaxFetches, made : 0 .. MaxFetches]
ChipType == [open : BOOLEAN, query : Query \cup {Nothing},
             remote : Query \cup {Nothing}, request : {"none", "timer", "sent"}]

\* Every member of a family is drawn with an edge: the family's own edges, or
\* the dashed link to the root.
LEMMA NoneFloatsLemma == NoneFloats
<1> SUFFICES ASSUME NEW r \in ActiveRoot, NEW n \in FilteredNodes \ Root
             PROVE  n \in Ends(DrawnEdges)
  BY DEF NoneFloats
<1>1. CASE n \in Connected
  BY <1>1 DEF Connected, Ends, DrawnEdges
<1>2. CASE n \notin Connected
  <2>1. <<r, n>> \in FamilyLinks
    BY <1>2 DEF FamilyLinks
  <2>2. <<r, n>> \in DrawnEdges /\ <<r, n>>[2] = n
    BY <2>1 DEF DrawnEdges
  <2> QED BY <2>2 DEF Ends
<1> QED BY <1>1, <1>2

LEMMA ExploreStarts == ExploreInit => ExploreInv
<1> SUFFICES ASSUME ExploreInit PROVE ExploreInv
  OBVIOUS
<1>1. /\ fetches = [open |-> 1, made |-> 1] /\ fetches \in FetchType
      /\ clicked \in 0 .. MaxClicks
  BY ExploreAssumption DEF ExploreInit, FetchType
<1>2. chip \in ChipType /\ chip.remote = Nothing /\ graph \in GraphType
  BY DEF ExploreInit, ChipType, Closed, GraphType
<1>3. /\ served \in Graphs /\ domain \in Domain \cup {Nothing} /\ raced = FALSE
      /\ node = Nothing /\ lists = Nothing /\ clicks = {}
  BY DEF ExploreInit
<1>4. ExploreTypeOK
  BY <1>1, <1>2, <1>3 DEF ExploreTypeOK, ChipType, GraphType, FetchType
<1> QED BY <1>1, <1>2, <1>3, <1>4
  DEF ExploreInv, ClicksAreOfNode, ListsAreOfNode, MatchesAreOfText

\* The chip's effect drops what it found with the text it was found for.
LEMMA SearchedLemma ==
  ASSUME NEW c \in ChipType
  PROVE  /\ Searched(c) \in ChipType /\ Closed \in ChipType
         /\ Searched(c).query = c.query
         /\ Searched(c).request = "none" => Searched(c).remote = Nothing
  BY DEF Searched, ChipType, Closed

LEMMA FetchLemma ==
  ASSUME ExploreInv, FetchGraph
  PROVE  graph' \in GraphType /\ fetches' \in FetchType /\ fetches'.open <= fetches'.made
<1>1. /\ fetches.open \in Nat /\ fetches.made \in Nat /\ fetches.open <= fetches.made
      /\ fetches.made < MaxFetches /\ MaxFetches \in Nat
  BY ExploreAssumption DEF FetchGraph, ExploreInv, ExploreTypeOK
<1>2. fetches.open + 1 \in 0 .. MaxFetches /\ fetches.made + 1 \in 0 .. MaxFetches
  BY <1>1
<1>3. graph' \in GraphType
  BY DEF FetchGraph, ExploreInv, ExploreTypeOK, GraphType
<1>4. fetches' = [open |-> fetches.open + 1, made |-> fetches.made + 1]
  BY DEF FetchGraph
<1> QED BY <1>1, <1>2, <1>3, <1>4 DEF FetchType

LEMMA GraphLoadLemma ==
  ASSUME ExploreInv, Mount \/ Retry \/ GraphReplies
  PROVE  ExploreInv'
<1>0. chip \in ChipType /\ graph \in GraphType /\ fetches \in FetchType
  BY DEF ExploreInv, ExploreTypeOK, ChipType, GraphType, FetchType
<1>1. CASE Mount
  <2>1. /\ graph' \in GraphType /\ fetches' \in FetchType /\ fetches'.open <= fetches'.made
        /\ chip' \in ChipType /\ chip'.remote = Nothing
    BY <1>0, <1>1, FetchLemma, SearchedLemma DEF Mount, Closed
  <2> QED BY <1>1, <2>1
    DEF Mount, ExploreInv, ExploreTypeOK, ChipType, GraphType, FetchType,
        ClicksAreOfNode, ListsAreOfNode, MatchesAreOfText
<1>2. CASE Retry
  <2>1. graph' \in GraphType /\ fetches' \in FetchType /\ fetches'.open <= fetches'.made
    BY <1>2, FetchLemma DEF Retry
  <2> QED BY <1>2, <2>1
    DEF Retry, ExploreInv, ExploreTypeOK, GraphType, FetchType,
        ClicksAreOfNode, ListsAreOfNode, MatchesAreOfText
<1>3. CASE GraphReplies
  <2>1. graph' \in GraphType
    BY ZenonT(60), <1>0, <1>3
    DEF GraphReplies, GraphAnswers, GraphFails, Answered, GraphType, ExploreInv, ExploreTypeOK
  <2>2. fetches' \in FetchType /\ fetches'.open <= fetches'.made
    <3>1. /\ fetches' = [fetches EXCEPT !.open = fetches.open - 1] /\ fetches.open > 0
          /\ fetches.open \in 0 .. MaxFetches /\ fetches.open <= fetches.made
          /\ fetches.made \in 0 .. MaxFetches /\ MaxFetches \in Nat
      BY <1>3, ExploreAssumption DEF GraphReplies, GraphAnswers, GraphFails, ExploreInv, ExploreTypeOK
    <3>2. fetches.open - 1 \in 0 .. MaxFetches /\ fetches.open - 1 <= fetches.made
      BY <3>1
    <3> QED BY <1>0, <3>1, <3>2 DEF FetchType
  <2>4. chip' \in ChipType /\ (chip'.request = "none" => chip'.remote = Nothing)
    <3>1. PICK c \in ChipType : c = chip
      BY <1>0
    <3>2. chip' = Searched(c) \/ chip' = Closed
      BY <1>3, <3>1 DEF GraphReplies, GraphAnswers, GraphFails
    <3>3. Closed.remote = Nothing
      BY DEF Closed
    <3> QED BY <3>2, <3>3, SearchedLemma
  <2>3. UNCHANGED <<served, domain, node, lists, clicks, clicked, raced>>
    BY <1>3 DEF GraphReplies, GraphAnswers, GraphFails
  <2> QED BY <2>1, <2>2, <2>3, <2>4
    DEF ExploreInv, ExploreTypeOK, ChipType, GraphType, FetchType,
        ClicksAreOfNode, ListsAreOfNode, MatchesAreOfText
<1> QED BY <1>1, <1>2, <1>3

\* A second click before the first's answer counts as a race.
LEMMA ClickedLemma ==
  ASSUME ExploreInv, NEW n \in Node, Clicked(n)
  PROVE  /\ node' = n /\ clicks' \subseteq [n : 1 .. MaxClicks, node : Node]
         /\ clicked' \in 0 .. MaxClicks /\ raced' \in BOOLEAN
         /\ ~raced' => clicks' # {} /\ \A c \in clicks' : c.node = n
<1>1. raced' \in BOOLEAN /\ (~raced' => ~raced /\ clicks = {} /\ n \notin Root)
  BY Zenon DEF Clicked
<1>2. CASE n \in Root
  BY <1>1, <1>2 DEF Clicked, ExploreInv, ExploreTypeOK
<1>3. CASE n \notin Root
  <2> DEFINE c == [n |-> clicked + 1, node |-> n]
  <2>1. clicks' = clicks \cup {c} /\ clicked' = clicked + 1 /\ clicked < MaxClicks /\ node' = n
    BY <1>3 DEF Clicked
  <2>2. clicked + 1 \in 1 .. MaxClicks
    BY <2>1, ExploreAssumption DEF ExploreInv, ExploreTypeOK
  <2>3. c \in [n : 1 .. MaxClicks, node : Node] /\ c.node = n
    BY <2>2
  <2> HIDE DEF c
  <2> QED BY <1>1, <2>1, <2>2, <2>3 DEF ExploreInv, ExploreTypeOK
<1> QED BY <1>2, <1>3

LEMMA SelectLemma ==
  ASSUME ExploreInv,
         \/ Deselect
         \/ \E n \in Node : ClickNode(n) \/ ChooseInChip(n)
         \/ \E c \in clicks : ClickAnswers(c) \/ ClickFails(c)
  PROVE  ExploreInv'
<1>1. CASE Deselect
  BY <1>1 DEF Deselect, ExploreInv, ExploreTypeOK, ClicksAreOfNode, ListsAreOfNode, MatchesAreOfText
<1>2. ASSUME NEW n \in Node, ClickNode(n) \/ ChooseInChip(n) PROVE ExploreInv'
  <2>1. /\ node' = n /\ clicks' \subseteq [n : 1 .. MaxClicks, node : Node]
        /\ clicked' \in 0 .. MaxClicks /\ raced' \in BOOLEAN
        /\ ~raced' => clicks' # {} /\ \A c \in clicks' : c.node = n
    BY <1>2, ClickedLemma DEF ClickNode, ChooseInChip
  <2>2. /\ domain' \in Domain \cup {Nothing} /\ UNCHANGED <<graph, served, fetches, lists>>
        /\ chip' \in ChipType /\ (chip'.request = "none" => chip'.remote \in {chip'.query, Nothing})
    <3>1. CASE ClickNode(n)
      BY <3>1 DEF ClickNode, ChipType, ExploreInv, ExploreTypeOK, MatchesAreOfText
    <3>2. CASE ChooseInChip(n)
      <4>1. chip' \in ChipType /\ chip'.remote = Nothing
        BY <3>2 DEF ChooseInChip, Closed, ChipType
      <4>2. domain' \in Domain \cup {Nothing} /\ UNCHANGED <<graph, served, fetches, lists>>
        BY <3>2 DEF ChooseInChip, ExploreInv, ExploreTypeOK
      <4> QED BY <4>1, <4>2
    <3> QED BY <1>2, <3>1, <3>2
  <2> QED BY <2>1, <2>2
    DEF ExploreInv, ExploreTypeOK, ChipType, ClicksAreOfNode, ListsAreOfNode, MatchesAreOfText
<1>3. ASSUME NEW c \in clicks, ClickAnswers(c) \/ ClickFails(c) PROVE ExploreInv'
  <2>1. /\ clicks' = clicks \ {c} /\ lists' \in {c.node, Nothing} /\ c.node \in Node
        /\ UNCHANGED <<graph, served, fetches, domain, node, clicked, chip, raced>>
    BY <1>3 DEF ClickAnswers, ClickFails, Emptied, ExploreInv, ExploreTypeOK
  <2>2. node # Nothing /\ ~raced => c.node = node
    BY DEF ExploreInv, ClicksAreOfNode
  <2> QED BY <2>1, <2>2
    DEF ExploreInv, ExploreTypeOK, ClicksAreOfNode, ListsAreOfNode, MatchesAreOfText
<1> QED BY <1>1, <1>2, <1>3

LEMMA ChipStepsLemma ==
  ASSUME ExploreInv,
         \/ OpenChip \/ ChipTimer \/ ChipAnswers \/ ChipFails
         \/ \E q \in Query \cup {Nothing} : TypeInChip(q) \/ CloseChip(q)
         \/ \E d \in Domain \cup {Nothing} : SetDomain(d)
  PROVE  ExploreInv'
<1>0. chip \in ChipType
  BY DEF ExploreInv, ExploreTypeOK, ChipType
<1>1. CASE \E d \in Domain \cup {Nothing} : SetDomain(d)
  BY <1>1 DEF SetDomain, ExploreInv, ExploreTypeOK, ClicksAreOfNode, ListsAreOfNode, MatchesAreOfText
<1>2. ASSUME NEW c \in ChipType, chip' = Searched(c),
             UNCHANGED <<graph, served, fetches, domain, node, lists, clicks, clicked, raced>>
      PROVE  ExploreInv'
  <2>1. chip' \in ChipType /\ (chip'.request = "none" => chip'.remote = Nothing)
    BY <1>2, SearchedLemma
  <2> QED BY <1>2, <2>1
    DEF ExploreInv, ExploreTypeOK, ChipType, ClicksAreOfNode, ListsAreOfNode, MatchesAreOfText
<1>3. CASE OpenChip
  <2>1. [chip EXCEPT !.open = TRUE] \in ChipType
    BY <1>0 DEF ChipType
  <2> QED BY <1>2, <1>3, <2>1 DEF OpenChip
<1>4. ASSUME NEW q \in Query \cup {Nothing}, TypeInChip(q) \/ CloseChip(q) PROVE ExploreInv'
  <2>1. /\ [chip EXCEPT !.query = q] \in ChipType
        /\ [chip EXCEPT !.open = FALSE, !.query = q] \in ChipType
    BY <1>0 DEF ChipType
  <2> QED BY <1>2, <1>4, <2>1 DEF TypeInChip, CloseChip
<1>5. CASE ChipTimer \/ ChipAnswers \/ ChipFails
  <2>1. /\ chip' \in ChipType /\ (chip'.request = "none" => chip'.remote \in {chip'.query, Nothing})
        /\ UNCHANGED <<graph, served, fetches, domain, node, lists, clicks, clicked, raced>>
    BY <1>0, <1>5 DEF ChipTimer, ChipAnswers, ChipFails, Failed, ChipType
  <2> QED BY <2>1
    DEF ExploreInv, ExploreTypeOK, ChipType, ClicksAreOfNode, ListsAreOfNode, MatchesAreOfText
<1> QED BY <1>1, <1>3, <1>4, <1>5

LEMMA ExploreInvStep == ExploreInv /\ [ExploreNext]_exploreVars => ExploreInv'
<1> SUFFICES ASSUME ExploreInv, [ExploreNext]_exploreVars PROVE ExploreInv'
  OBVIOUS
<1>1. CASE UNCHANGED exploreVars
  BY <1>1
  DEF exploreVars, ExploreInv, ExploreTypeOK, ClicksAreOfNode, ListsAreOfNode, MatchesAreOfText
<1> QED BY <1>1, GraphLoadLemma, SelectLemma, ChipStepsLemma DEF ExploreNext

\* No member of a family floats in its view; and however clicks, searches and
\* fetches are answered, the lists are of the selected node and the matches of
\* the text in the box (GraphExplorer.tsx: familyLinks, handleNodeClick, the
\* effect of the chip).
THEOREM ExploreAlwaysHolds == ExploreSpec => []ExploreHolds
<1>1. ExploreInv => ExploreHolds
  BY NoneFloatsLemma DEF ExploreInv, ExploreHolds
<1> QED BY <1>1, ExploreStarts, ExploreInvStep, PTL DEF ExploreSpec

\* The page's state and its requests keep their types.
THEOREM ExploreTypeCorrect == ExploreSpec => []ExploreTypeOK
<1>1. ExploreInv => ExploreTypeOK
  BY DEF ExploreInv
<1> QED BY <1>1, ExploreStarts, ExploreInvStep, PTL DEF ExploreSpec

-----------------------------------------------------------------------------
(***************************************************************************)
(* The canvas.                                                             *)
(***************************************************************************)

SimType == [dots : SUBSET Dot, pinned : SUBSET Dot, hot : BOOLEAN,
            warm : BOOLEAN, ticking : BOOLEAN]
PixelType == [dots : SUBSET Dot, captions : SUBSET Required,
              mark : Dot \cup {NoDot}, lit : SUBSET Dot]

\* What glows follows the hovered object, which a rebuild leaves behind.
GlowIsOfHover ==
    /\ hovered.live => hovered.dot \in sim.dots
    /\ glow = IF hovered.live THEN Near(hovered.dot) ELSE {}

\* A pin and the heat are of the gesture that goes on.
PinsAreHeld ==
    /\ \A d \in sim.pinned : held.on = Object(d)
    /\ sim.hot => held.on.live

CanvasInv == CanvasTypeOK /\ PinsAreHeld /\ GlowIsOfHover /\ ShowsWhatIs

LEMMA CanvasImplies == CanvasInv => CanvasHolds
  BY DEF CanvasInv, PinsAreHeld, GlowIsOfHover, CanvasHolds, LetsGo

LEMMA ObjectsLemma ==
  /\ NoObject \in Objects /\ ~NoObject.live
  /\ \A d \in Dot : Object(d) \in Objects /\ Object(d).live /\ Object(d).dot = d
  /\ \A ob \in Objects : Stale(ob) \in Objects /\ ~Stale(ob).live
<1>1. ASSUME NEW ob \in Objects PROVE Stale(ob) \in Objects /\ ~Stale(ob).live
  <2>1. CASE ob = NoObject
    <3>1. NoObject \in [dot : {NoDot}, live : BOOLEAN]
      BY DEF NoObject
    <3>2. Stale(ob) \in [dot : {NoDot}, live : BOOLEAN]
          /\ Stale(ob).dot = NoDot /\ Stale(ob).live = FALSE
      BY <2>1, <3>1 DEF Stale
    <3>3. Stale(ob) = NoObject
      BY <3>1, <3>2 DEF NoObject
    <3> QED BY <3>3 DEF Objects, NoObject
  <2>2. CASE ob \in [dot : Dot, live : BOOLEAN]
    BY <2>2 DEF Objects, Stale
  <2> QED BY <2>1, <2>2 DEF Objects
<1> QED BY <1>1 DEF Objects, NoObject, Object

\* A new simulation has no pins, no glow and a timer that ticks.
LEMMA RebuildsLemma ==
  ASSUME NEW dots \in SUBSET Dot, sim' = Built(dots)
  PROVE  /\ sim' \in SimType /\ sim'.pinned = {} /\ ~sim'.hot /\ sim'.ticking
         /\ sim'.dots = dots
  BY DEF Built, Carried, SimType

\* A rebuild in the middle of whatever gesture.
LEMMA RebuiltLemma ==
  ASSUME CanvasInv, Rebuilds(given'), given' \subseteq Dot, chosen' \in Dot \cup {NoDot},
         family' \in RootDot \cup {NoDot},
         held' \in [on : Objects, touch : BOOLEAN], pointer' \in Dot \cup {NoDot, "still"},
         camera' \subseteq Dot
  PROVE  CanvasInv'
<1>1. /\ sim' \in SimType /\ sim'.pinned = {} /\ ~sim'.hot /\ sim'.ticking /\ sim'.dots = given'
  <2>1. PICK dots \in SUBSET Dot : dots = given'
    OBVIOUS
  <2>2. sim' = Built(dots)
    BY <2>1 DEF Rebuilds
  <2> QED BY <2>1, <2>2, RebuildsLemma
<1>2. dragged' \in Objects /\ hovered' \in Objects /\ ~hovered'.live
  BY ObjectsLemma DEF Rebuilds, CanvasInv, CanvasTypeOK
<1>3. frame' = FALSE /\ glow' = {} /\ pixels' = pixels
  BY DEF Rebuilds
<1>4. CanvasTypeOK'
  BY <1>1, <1>2, <1>3 DEF CanvasInv, CanvasTypeOK, SimType
<1>5. PinsAreHeld' /\ GlowIsOfHover' /\ ShowsWhatIs'
  BY <1>1, <1>2, <1>3 DEF PinsAreHeld, GlowIsOfHover, ShowsWhatIs
<1> QED BY <1>4, <1>5 DEF CanvasInv

LEMMA StaleHeldLemma ==
  ASSUME CanvasInv
  PROVE  /\ [held EXCEPT !.on = Stale(@)] \in [on : Objects, touch : BOOLEAN]
         /\ LetGo \in [on : Objects, touch : BOOLEAN]
  BY ObjectsLemma DEF CanvasInv, CanvasTypeOK, LetGo

LEMMA ChooseLemma ==
  ASSUME CanvasInv, NEW d \in Dot \cup {NoDot}, Choose(d)
  PROVE  CanvasInv'
<1>1. /\ Rebuilds(given) /\ given' = given /\ chosen' = d /\ UNCHANGED <<family, camera>>
      /\ pointer' = "still" /\ held' \in [on : Objects, touch : BOOLEAN]
  BY StaleHeldLemma DEF Choose, Rebinds
<1>2. Rebuilds(given')
  BY <1>1 DEF Rebuilds
<1> QED BY <1>1, <1>2, RebuiltLemma DEF CanvasInv, CanvasTypeOK

LEMMA GiveLemma ==
  ASSUME CanvasInv, NEW dots \in SUBSET Dot, GiveNodes(dots)
  PROVE  CanvasInv'
<1>1. /\ Rebuilds(dots) /\ given' = dots /\ UNCHANGED <<chosen, family, pointer, camera>>
      /\ held' \in [on : Objects, touch : BOOLEAN]
  BY StaleHeldLemma DEF GiveNodes
<1>2. Rebuilds(given')
  BY <1>1 DEF Rebuilds
<1> QED BY <1>1, <1>2, RebuiltLemma DEF CanvasInv, CanvasTypeOK

\* A tick is followed by a frame, and the frame that asks for no other has
\* drawn all there is.
LEMMA DrawsLemma ==
  ASSUME CanvasInv, SimTick \/ Frame
  PROVE  CanvasInv'
<1>1. CASE SimTick
  <2>1. /\ sim' \in SimType /\ UNCHANGED <<sim.dots, sim.pinned, sim.hot>> /\ frame' = TRUE
        /\ UNCHANGED <<given, chosen, held, dragged, hovered, glow, pointer, camera,
                       family, pixels>>
    BY <1>1 DEF SimTick, CanvasInv, CanvasTypeOK, SimType
  <2>2. CanvasTypeOK'
    BY <2>1 DEF CanvasInv, CanvasTypeOK, SimType
  <2>3. PinsAreHeld' /\ GlowIsOfHover' /\ ShowsWhatIs'
    BY <2>1 DEF CanvasInv, PinsAreHeld, GlowIsOfHover, ShowsWhatIs, Near
  <2> QED BY <2>2, <2>3 DEF CanvasInv
<1>2. CASE Frame
  <2>1. PICK lit \in Fading : pixels' = Drawing(lit) /\ frame' = (lit # glow \/ sim.warm)
    BY <1>2 DEF Frame
  <2>2. UNCHANGED <<given, chosen, sim, held, dragged, hovered, glow, pointer, camera, family>>
    BY <1>2 DEF Frame
  <2>3. frame' \in BOOLEAN
    BY <2>1, Zenon
  <2>4. pixels' \in PixelType
    BY <2>1 DEF Drawing, Painted, PaintedLinks, Described, Captions, PixelType, CanvasInv, CanvasTypeOK
  <2>5. ~frame' => pixels' = Drawing(glow)
    BY <2>1
  <2>6. CanvasTypeOK'
    BY <2>2, <2>3, <2>4 DEF CanvasInv, CanvasTypeOK, PixelType
  <2>7. ShowsWhatIs'
    BY <2>2, <2>5 DEF ShowsWhatIs, Drawing, Painted, Captions, PaintedLinks, Described
  <2>8. PinsAreHeld' /\ GlowIsOfHover'
    BY <2>2 DEF CanvasInv, PinsAreHeld, GlowIsOfHover, Near
  <2> QED BY <2>6, <2>7, <2>8 DEF CanvasInv
<1> QED BY <1>1, <1>2

\* A drag begins when nothing is held, so that its pin is the only one.
LEMMA DragLemma ==
  ASSUME CanvasInv, DragEnd \/ \E d \in Dot, touch \in BOOLEAN : DragStart(d, touch)
  PROVE  CanvasInv'
<1>1. ASSUME NEW d \in Dot, NEW touch \in BOOLEAN, DragStart(d, touch) PROVE CanvasInv'
  <2>1. sim.pinned = {}
    <3>1. held.on = NoObject
      BY <1>1 DEF DragStart, LetGo
    <3>2. ASSUME NEW e \in sim.pinned PROVE FALSE
      <4>1. held.on = Object(e)
        BY <3>2 DEF CanvasInv, PinsAreHeld
      <4> QED BY <3>1, <4>1 DEF Object, NoObject
    <3> QED BY <3>2
  <2>2. /\ held' = [on |-> Object(d), touch |-> touch] /\ dragged' = Object(d) /\ d \in sim.dots
        /\ sim' \in SimType /\ sim'.pinned = {d} /\ sim'.dots = sim.dots /\ sim'.ticking
        /\ UNCHANGED <<given, chosen, hovered, glow, pointer, camera, family, frame, pixels>>
    BY ZenonT(60), <1>1, <2>1 DEF DragStart, drawVars, CanvasInv, CanvasTypeOK, SimType
  <2>3. CanvasTypeOK'
    BY <2>2, ObjectsLemma DEF CanvasInv, CanvasTypeOK, SimType
  <2>4. PinsAreHeld' /\ GlowIsOfHover' /\ ShowsWhatIs'
    BY <2>2, ObjectsLemma DEF CanvasInv, PinsAreHeld, GlowIsOfHover, ShowsWhatIs, Near
  <2> QED BY <2>3, <2>4 DEF CanvasInv
<1>2. CASE DragEnd
  <2>1. /\ held' = LetGo /\ dragged' = NoObject
        /\ sim' \in SimType /\ sim'.dots = sim.dots /\ sim'.ticking = sim.ticking /\ ~sim'.hot
        /\ sim'.pinned = IF held.on.live THEN sim.pinned \ {held.on.dot} ELSE sim.pinned
        /\ UNCHANGED <<given, chosen, hovered, glow, pointer, camera, family, frame, pixels>>
    BY <1>2 DEF DragEnd, drawVars, CanvasInv, CanvasTypeOK, SimType
  <2>2. sim'.pinned = {}
    <3>1. ASSUME NEW d \in sim.pinned PROVE held.on.live /\ held.on.dot = d
      BY ObjectsLemma DEF CanvasInv, CanvasTypeOK, PinsAreHeld
    <3> QED BY <2>1, <3>1
  <2>3. CanvasTypeOK'
    BY <2>1, <2>2, ObjectsLemma DEF CanvasInv, CanvasTypeOK, SimType, LetGo
  <2>4. PinsAreHeld' /\ GlowIsOfHover'
    BY <2>1, <2>2 DEF CanvasInv, PinsAreHeld, GlowIsOfHover, Near
  <2>5. ShowsWhatIs'
    BY <2>1 DEF CanvasInv, ShowsWhatIs, Drawing, Painted, Captions, PaintedLinks, Described
  <2> QED BY <2>3, <2>4, <2>5 DEF CanvasInv
<1> QED BY <1>1, <1>2

\* A hover that finds the same object changes nothing, and any other asks for
\* a frame.
LEMMA HoverLemma ==
  ASSUME CanvasInv, Hover
  PROVE  CanvasInv'
<1>1. pointer' = "still" /\ UNCHANGED <<given, chosen, sim, held, dragged, camera, family, pixels>>
  BY DEF Hover
<1>2. CASE dragged # NoObject
  <2>1. UNCHANGED <<hovered, glow, frame>>
    BY <1>2 DEF Hover
  <2> QED BY <1>1, <2>1
    DEF CanvasInv, CanvasTypeOK, PinsAreHeld, GlowIsOfHover, ShowsWhatIs, Near,
        Drawing, Painted, Captions, PaintedLinks, Described
<1>3. CASE dragged = NoObject
  <2> DEFINE found == IF pointer \in sim.dots THEN Object(pointer) ELSE NoObject
  <2>1. /\ hovered' = found /\ frame' = (frame \/ found # hovered)
        /\ glow' = IF found.live THEN Near(pointer) ELSE {}
    BY <1>3 DEF Hover, Unlit, NodeChanged
  <2>2. /\ found \in Objects /\ (found.live <=> pointer \in sim.dots)
        /\ found.live => found.dot = pointer
    BY ObjectsLemma DEF CanvasInv, CanvasTypeOK
  <2>3. glow' \subseteq sim.dots /\ frame' \in BOOLEAN
    <3>1. frame' \in BOOLEAN
      BY <2>1, Zenon
    <3> QED BY <2>1, <2>2, <3>1 DEF Near
  <2>4. found = hovered => glow' = glow
    BY <2>1, <2>2 DEF CanvasInv, GlowIsOfHover
  <2> HIDE DEF found
  <2>5. CanvasTypeOK'
    BY <1>1, <2>1, <2>2, <2>3 DEF CanvasInv, CanvasTypeOK
  <2>6. PinsAreHeld' /\ GlowIsOfHover'
    BY <1>1, <2>1, <2>2 DEF CanvasInv, PinsAreHeld, GlowIsOfHover, Near
  <2>7. ShowsWhatIs'
    BY <1>1, <2>1, <2>4
    DEF CanvasInv, ShowsWhatIs, Drawing, Painted, Captions, PaintedLinks, Described
  <2> QED BY <2>5, <2>6, <2>7 DEF CanvasInv
<1> QED BY <1>2, <1>3

LEMMA PointLemma ==
  ASSUME CanvasInv,
         \/ \E d \in Dot \cup {NoDot} : MoveMouse(d)
         \/ \E d \in Dot : Aim(Centered(d))
  PROVE  CanvasInv'
<1>1. ASSUME NEW d \in Dot \cup {NoDot}, MoveMouse(d) PROVE CanvasInv'
  BY <1>1
  DEF MoveMouse, drawVars, CanvasInv, CanvasTypeOK, PinsAreHeld, GlowIsOfHover, ShowsWhatIs, Near,
      Drawing, Painted, Captions, PaintedLinks, Described
<1>2. ASSUME NEW d \in Dot, Aim(Centered(d)) PROVE CanvasInv'
  <2>1. camera' \subseteq Dot /\ frame' = TRUE
        /\ UNCHANGED <<given, chosen, sim, held, dragged, hovered, glow, pointer, family, pixels>>
    BY <1>2 DEF Aim, Centered, Members, CanvasInv, CanvasTypeOK
  <2> QED BY <2>1
    DEF CanvasInv, CanvasTypeOK, PinsAreHeld, GlowIsOfHover, ShowsWhatIs, Near
<1> QED BY <1>1, <1>2

LEMMA CanvasStarts == CanvasInit => CanvasInv
<1> SUFFICES ASSUME CanvasInit PROVE CanvasInv
  OBVIOUS
<1>1. /\ given \subseteq Dot /\ sim \in SimType /\ sim.pinned = {} /\ ~sim.hot /\ sim.ticking
      /\ held = LetGo /\ dragged = NoObject /\ hovered = NoObject /\ glow = {}
  BY CanvasAssumption DEF CanvasInit, NoSim, SimType
<1>2. pixels \in PixelType
  BY DEF CanvasInit, Blankness, PixelType
<1>3. CanvasTypeOK
  <2>1. chosen = NoDot /\ pointer = "still" /\ camera = {} /\ family = NoDot /\ frame = FALSE
    BY DEF CanvasInit
  <2>2. held \in [on : Objects, touch : BOOLEAN] /\ dragged \in Objects /\ hovered \in Objects
    BY <1>1, ObjectsLemma DEF LetGo
  <2>3. sim.pinned \subseteq sim.dots /\ glow \subseteq sim.dots
    BY <1>1
  <2> QED BY <1>1, <1>2, <2>1, <2>2, <2>3 DEF CanvasTypeOK, SimType, PixelType
<1> QED BY <1>1, <1>3, ObjectsLemma DEF CanvasInv, PinsAreHeld, GlowIsOfHover, ShowsWhatIs

LEMMA CanvasInvStep == CanvasInv /\ [CanvasNext]_canvasVars => CanvasInv'
<1> SUFFICES ASSUME CanvasInv, [CanvasNext]_canvasVars PROVE CanvasInv'
  OBVIOUS
<1>1. given \subseteq Dot /\ chosen \in Dot \cup {NoDot} /\ sim.dots \subseteq Dot
  BY DEF CanvasInv, CanvasTypeOK
<1>2. CASE \E dots \in Payloads : GiveNodes(dots)
  BY <1>2, GiveLemma, CanvasAssumption
<1>3. ASSUME NEW d \in given \cup {NoDot}, Choose(d) PROVE CanvasInv'
  BY <1>1, <1>3, ChooseLemma
<1>4. CASE Repaint
  <2>1. PICK d \in Dot \cup {NoDot} : d = chosen
    BY <1>1
  <2> QED BY <1>4, <2>1, ChooseLemma DEF Repaint
<1>5. ASSUME NEW d \in Dot, Click(d) PROVE CanvasInv'
  BY <1>5, ChooseLemma DEF Click
<1>6. ASSUME NEW arrow \in 0 .. 7, Walk(arrow) PROVE CanvasInv'
  <2>1. PICK e \in Neighbors(chosen, arrow) : Choose(e)
    BY <1>6 DEF Walk
  <2>2. e \in Dot
    BY <1>1, <2>1 DEF Neighbors
  <2> QED BY <2>1, <2>2, ChooseLemma
<1>7. CASE UNCHANGED canvasVars
  BY <1>7
  DEF canvasVars, drawVars, CanvasInv, CanvasTypeOK, PinsAreHeld, GlowIsOfHover, ShowsWhatIs, Near,
      Drawing, Painted, Captions, PaintedLinks, Described
<1> QED BY <1>2, <1>3, <1>4, <1>5, <1>6, <1>7, DrawsLemma, DragLemma, HoverLemma, PointLemma
  DEF CanvasNext

\* Whatever rebuilds the simulation in the middle of a gesture, no pin, heat or
\* glow outlives what caused it, and at rest the screen shows what is
\* (ForceGraph.tsx: the effects, processHover, scheduleRender).
THEOREM CanvasAlwaysHolds == CanvasSpec => []CanvasHolds
  BY CanvasImplies, CanvasStarts, CanvasInvStep, PTL DEF CanvasSpec

\* The simulation, the gesture and the drawing keep their types.
THEOREM CanvasTypeCorrect == CanvasSpec => []CanvasTypeOK
<1>1. CanvasInv => CanvasTypeOK
  BY DEF CanvasInv
<1> QED BY <1>1, CanvasStarts, CanvasInvStep, PTL DEF CanvasSpec
-----------------------------------------------------------------------------
(***************************************************************************)
(* The tour on the canvas.                                                 *)
(***************************************************************************)

\* The section that is read, its anchor and its view.
ReadsSection(layer, place, id, t) ==
    Anchored(layer) # {} =>
        /\ id = PickActiveAnchor(layer, place)
        /\ Views(layer, id) # {} => t = TargetOf(layer, id)

\* The timers are of the target there is, and run only over a canvas.
TimersOfTarget ==
    IF payload = "here" THEN timers \in {<< >>, <<target>>, <<target, target>>}
    ELSE timers = << >>

\* The canvas has the whole graph and paints the target's family.
AtTarget ==
    payload = "here" =>
        /\ given = Dot /\ sim.dots = Dot /\ family = VisibleDomain(target)
        /\ timers = << >> => camera = Framed(target)

TourInv ==
    /\ CanvasInv /\ ~hovered.live
    /\ read \in [layer : Layer, place : 0 .. Len(Story), scrolls : 0 .. MaxScrolls]
    /\ target \in Targets /\ payload \in {"waiting", "here", "failed"}
    /\ ReadsSection(read.layer, read.place, lastId, target)
    /\ TimersOfTarget /\ AtTarget

\* A set of numbers has a least member.
LEMMA LeastLemma ==
  ASSUME NEW T, T \subseteq Nat, T # {}
  PROVE  \E x \in T : \A y \in T : x <= y
<1> DEFINE R == OpToRel(<, Nat)
<1>1. IsWellFoundedOn(R, Nat)
  BY NatLessThanWellFounded
<1>2. \A x, y \in Nat : <<y, x>> \in R <=> y < x
  BY DEF OpToRel
<1> HIDE DEF R
<1>3. PICK x \in T : \A y \in T : ~(<<y, x>> \in R)
  BY <1>1, WFMin
<1>4. ASSUME NEW y \in T PROVE x <= y
  <2>1. x \in Nat /\ y \in Nat
    OBVIOUS
  <2>2. ~(y < x)
    BY <1>2, <1>3, <2>1
  <2> QED BY <2>1, <2>2
<1> QED BY <1>4

\* Among places of a story there is a first and a last one.
LEMMA PlacesLemma ==
  ASSUME NEW n \in Nat, NEW places \in SUBSET (1 .. n), places # {}
  PROVE  First(places) \in places /\ Last(places) \in places
<1>1. First(places) \in places
  <2>1. \E k \in places : \A j \in places : k <= j
    <3>1. places \subseteq Nat
      OBVIOUS
    <3> QED BY <3>1, LeastLemma
  <2> QED BY <2>1 DEF First
<1>2. Last(places) \in places
  <2> DEFINE T == {n - k : k \in places}
  <2>1. T \subseteq Nat /\ T # {}
    <3>1. \A k \in places : n - k \in Nat
      OBVIOUS
    <3> QED BY <3>1
  <2> HIDE DEF T
  <2>2. PICK x \in T : \A y \in T : x <= y
    BY <2>1, LeastLemma
  <2>3. PICK k \in places : x = n - k
    BY DEF T
  <2>4. ASSUME NEW j \in places PROVE j <= k
    <3>1. n - j \in T
      BY DEF T
    <3>2. n - k <= n - j
      BY <2>2, <2>3, <3>1
    <3>3. j \in Nat /\ k \in Nat
      OBVIOUS
    <3> QED BY <3>2, <3>3
  <2> QED BY <2>4 DEF Last
<1> QED BY <1>1, <1>2

LEMMA StoryLemma ==
  ASSUME NEW layer
  PROVE  /\ Anchored(layer) # {} => \A place : PickActiveAnchor(layer, place) # NoAnchor
         /\ \A id : Views(layer, id) # {} => TargetOf(layer, id) \in Targets
<1>1. DOMAIN Story = 1 .. Len(Story) /\ Len(Story) \in Nat
  BY TourAssumption
<1>2. \A k \in DOMAIN Story : Story[k].view \in Dot \cup {"all", "none"}
  BY TourAssumption
<1>3. Anchored(layer) \subseteq 1 .. Len(Story)
      /\ \A k \in Anchored(layer) : Story[k].anchor # NoAnchor
  BY <1>1 DEF Anchored
<1>4. ASSUME NEW place, Anchored(layer) # {} PROVE PickActiveAnchor(layer, place) # NoAnchor
  <2> DEFINE over == {k \in Anchored(layer) : k <= place}
  <2>1. (IF over # {} THEN Last(over) ELSE First(Anchored(layer))) \in Anchored(layer)
    <3>1. over \subseteq Anchored(layer) /\ over \in SUBSET (1 .. Len(Story))
      BY <1>3
    <3> HIDE DEF over
    <3>2. over # {} => Last(over) \in over
      BY <1>1, <3>1, PlacesLemma
    <3>3. First(Anchored(layer)) \in Anchored(layer)
      BY <1>1, <1>3, <1>4, PlacesLemma
    <3> QED BY <3>1, <3>2, <3>3
  <2>2. PickActiveAnchor(layer, place)
          = Story[IF over # {} THEN Last(over) ELSE First(Anchored(layer))].anchor
    BY DEF PickActiveAnchor
  <2> HIDE DEF over
  <2> QED BY <1>3, <2>1, <2>2
<1>5. ASSUME NEW id, Views(layer, id) # {} PROVE TargetOf(layer, id) \in Targets
  <2>1. Views(layer, id) \in SUBSET (1 .. Len(Story))
        /\ \A k \in Views(layer, id) : Story[k].view # "none"
    BY <1>3 DEF Views
  <2>2. Last(Views(layer, id)) \in Views(layer, id)
    BY <1>1, <1>5, <2>1, PlacesLemma
  <2> QED BY <1>1, <1>2, <2>1, <2>2 DEF TargetOf, Targets
<1> QED BY <1>4, <1>5

\* Whatever the listener remembers, unless it is the anchor of another layer.
LEMMA UpdateLemma ==
  ASSUME NEW layer, NEW place, NEW seen, NEW loaded \in BOOLEAN,
         NEW id0, NEW id1, NEW t0 \in Targets, NEW t1,
         lastId = id0, lastId' = id1, target = t0, target' = t1,
         Update(layer, place, seen, loaded),
         \/ seen = NoAnchor
         \/ (seen = id0 /\ (Anchored(layer) # {} /\ Views(layer, id0) # {}
                              => t0 = TargetOf(layer, id0)))
  PROVE  /\ ReadsSection(layer, place, id1, t1) /\ t1 \in Targets
         /\ \/ timers' = timers /\ t1 = t0
            \/ loaded /\ timers' = <<t1, t1>>
            \/ ~loaded /\ timers' = timers
<1>1. CASE Anchored(layer) = {}
  BY <1>1 DEF Update, ReadsSection
<1>2. CASE Anchored(layer) # {}
  <2> DEFINE id == PickActiveAnchor(layer, place)
  <2>1. id1 = id /\ id # NoAnchor
    BY <1>2, StoryLemma DEF Update
  <2>2. CASE id = seen \/ Views(layer, id) = {}
    <3>1. t1 = t0 /\ timers' = timers
      BY <1>2, <2>2 DEF Update
    <3> QED BY <1>2, <2>1, <2>2, <3>1 DEF ReadsSection
  <2>3. CASE ~(id = seen \/ Views(layer, id) = {})
    <3>1. t1 = TargetOf(layer, id) /\ timers' = IF loaded THEN <<t1, t1>> ELSE timers
      BY <1>2, <2>3 DEF Update, Armed
    <3>2. t1 \in Targets
      BY <2>3, <3>1, StoryLemma
    <3> QED BY <2>1, <3>1, <3>2 DEF ReadsSection
  <2> QED BY <2>2, <2>3
<1> QED BY <1>1, <1>2

LEMMA DomainLemma ==
  ASSUME NEW t \in Targets
  PROVE  VisibleDomain(t) \in RootDot \cup {NoDot}
  BY CanvasAssumption DEF VisibleDomain, Targets

\* The camera on a target is on nodes of the family that is painted.
LEMMA FramedLemma ==
  ASSUME NEW t \in Targets, sim.dots = Dot, camera \subseteq Dot
  PROVE  /\ Framed(t) = IF t = "all" THEN Dot
                        ELSE IF t \in RootDot /\ {d \in Dot \ RootDot : FamilyOf[d] = t} # {}
                             THEN {d \in Dot \ RootDot : FamilyOf[d] = t}
                             ELSE {t}
         /\ family = VisibleDomain(t) => Framed(t) \subseteq Painted
<1>1. Framed(t) = IF t = "all" THEN Dot
                  ELSE IF t \in RootDot /\ {d \in Dot \ RootDot : FamilyOf[d] = t} # {}
                       THEN {d \in Dot \ RootDot : FamilyOf[d] = t}
                       ELSE {t}
  <2>1. Members(t) = {d \in Dot \ RootDot : FamilyOf[d] = t}
    BY DEF Members
  <2>2. CASE t = "all"
    BY <2>2 DEF Framed, Fitted
  <2>3. CASE t # "all" /\ t \in RootDot /\ Members(t) # {}
    <3>1. Members(t) \cap sim.dots = Members(t)
      BY <2>1
    <3>2. Fitted(Members(t)) = Members(t)
      BY <2>3, <3>1 DEF Fitted
    <3> QED BY <2>1, <2>3, <3>2 DEF Framed
  <2>4. CASE t # "all" /\ ~(t \in RootDot /\ Members(t) # {})
    <3>1. t \in sim.dots
      BY <2>4 DEF Targets
    <3>2. Centered(t) = {t}
      BY <2>4, <3>1 DEF Centered
    <3> QED BY <2>1, <2>4, <3>2 DEF Framed
  <2> QED BY <2>2, <2>3, <2>4
<1>2. ASSUME family = VisibleDomain(t), NEW d \in Framed(t) PROVE d \in Painted
  <2>1. CASE t = "all"
    BY <1>1, <1>2, <2>1 DEF Painted, VisibleDomain
  <2>2. CASE t # "all"
    <3>1. t \in Dot /\ family = FamilyOf[t]
      BY <1>2, <2>2 DEF Targets, VisibleDomain
    <3>2. d \in Dot /\ FamilyOf[d] = FamilyOf[t]
      BY <1>1, <1>2, <2>2, <3>1, CanvasAssumption
    <3> QED BY <3>1, <3>2 DEF Painted
  <2> QED BY <2>1, <2>2
<1> QED BY <1>1, <1>2

\* The canvas paints the family of the new target.
LEMMA RepaintedLemma ==
  ASSUME CanvasInv, ~hovered.live, NEW t \in Targets, t = target', Repainted
  PROVE  /\ CanvasInv' /\ ~hovered'.live /\ given' = given /\ camera' = camera
         /\ sim.dots' = sim.dots \/ sim.dots' = given
         /\ payload = "here" => family' = VisibleDomain(t)
<1>1. CASE payload = "here" /\ VisibleDomain(t) # family
  <2>1. family' = VisibleDomain(t) /\ Rebuilds(given) /\ UNCHANGED <<given, chosen, camera>>
        /\ pointer' = "still" /\ held' \in [on : Objects, touch : BOOLEAN]
    BY <1>1, StaleHeldLemma DEF Repainted, Rebinds
  <2>2. Rebuilds(given')
    BY <2>1 DEF Rebuilds
  <2>3. CanvasInv'
    BY <2>1, <2>2, DomainLemma, RebuiltLemma DEF CanvasInv, CanvasTypeOK
  <2>4. ~hovered'.live
    BY <2>1, ObjectsLemma DEF Rebuilds, CanvasInv, CanvasTypeOK
  <2>5. sim.dots' = given
    <3>1. PICK dots \in SUBSET Dot : dots = given
      BY DEF CanvasInv, CanvasTypeOK
    <3>2. sim' = Built(dots)
      BY <2>1, <3>1 DEF Rebuilds
    <3> QED BY <3>1, <3>2, RebuildsLemma
  <2> QED BY <2>1, <2>3, <2>4, <2>5
<1>2. CASE ~(payload = "here" /\ VisibleDomain(t) # family)
  <2>1. UNCHANGED canvasVars
    BY <1>2 DEF Repainted
  <2>2. CanvasInv'
    BY <2>1, CanvasInvStep
  <2> QED BY <1>2, <2>1, <2>2 DEF canvasVars, drawVars
<1> QED BY <1>1, <1>2

\* A place that is read, on the layer it is read in.
LEMMA ReadsLemma ==
  ASSUME TourInv, NEW layer \in Layer, NEW place \in 0 .. Len(Story), NEW seen,
         read.scrolls < MaxScrolls, Repainted, UNCHANGED payload,
         read' = [layer |-> layer, place |-> place, scrolls |-> read.scrolls + 1],
         Update(layer, place, seen, payload = "here"),
         seen = NoAnchor \/ (seen = lastId /\ layer = read.layer)
  PROVE  TourInv'
<1>a. PICK t0 \in Targets : target = t0
  BY DEF TourInv
<1>b. PICK id0 : lastId = id0
  OBVIOUS
<1>c. PICK id1 : lastId' = id1
  OBVIOUS
<1>d. PICK t1 : target' = t1
  OBVIOUS
<1>1. lastId = id0 /\ lastId' = id1 /\ target = t0 /\ target' = t1
  BY <1>a, <1>b, <1>c, <1>d
<1> DEFINE loaded == payload = "here"
<1>2. loaded \in BOOLEAN /\ Update(layer, place, seen, loaded)
  BY Zenon
<1> HIDE DEF loaded
<1>3. PICK l \in Layer, p \in 0 .. Len(Story) : l = read.layer /\ p = read.place
  BY DEF TourInv
<1>4. ReadsSection(l, p, id0, t0)
  BY <1>1, <1>3 DEF TourInv, ReadsSection, PickActiveAnchor
<1>5. seen = NoAnchor
      \/ (seen = id0 /\ (Anchored(layer) # {} /\ Views(layer, id0) # {} => t0 = TargetOf(layer, id0)))
  BY <1>1, <1>3, <1>4 DEF ReadsSection
<1>6. /\ ReadsSection(layer, place, id1, t1) /\ t1 \in Targets
      /\ \/ timers' = timers /\ t1 = t0
         \/ loaded /\ timers' = <<t1, t1>>
         \/ ~loaded /\ timers' = timers
  BY <1>1, <1>2, <1>5, UpdateLemma
<1>7. /\ CanvasInv' /\ ~hovered'.live /\ given' = given /\ camera' = camera
      /\ sim.dots' = sim.dots \/ sim.dots' = given
      /\ loaded => family' = VisibleDomain(t1)
  BY <1>1, <1>6, RepaintedLemma DEF TourInv, loaded
<1>8. read' \in [layer : Layer, place : 0 .. Len(Story), scrolls : 0 .. MaxScrolls]
  <2>1. read.scrolls + 1 \in 0 .. MaxScrolls
    BY TourAssumption DEF TourInv
  <2> QED BY <2>1
<1>9. ReadsSection(read.layer, read.place, lastId, target)'
  BY <1>1, <1>6 DEF ReadsSection, PickActiveAnchor
<1>10. TimersOfTarget'
  BY <1>1, <1>6 DEF TourInv, TimersOfTarget, loaded
<1>11. AtTarget'
  <2> SUFFICES ASSUME payload = "here"
               PROVE  /\ given' = Dot /\ sim.dots' = Dot /\ family' = VisibleDomain(t1)
                      /\ timers' = << >> => camera' = Framed(target)'
    BY <1>1 DEF AtTarget, VisibleDomain
  <2>1. given = Dot /\ sim.dots = Dot
    BY DEF TourInv, AtTarget
  <2>2. timers' = << >> => timers = << >> /\ t1 = t0
    BY <1>6 DEF loaded
  <2>3. timers' = << >> => camera' = Framed(target)'
    <3> SUFFICES ASSUME timers' = << >> PROVE camera' = Framed(target)'
      OBVIOUS
    <3>1. camera = Framed(t0) /\ t1 = t0
      BY <1>1, <2>2 DEF TourInv, AtTarget
    <3>2. sim.dots' = Dot /\ camera' = camera
      BY <1>7, <2>1
    <3> QED BY <1>1, <2>1, <3>1, <3>2 DEF Framed, Fitted, Members, Centered
  <2> QED BY <1>7, <2>1, <2>3 DEF loaded
<1>12. target' \in Targets /\ payload' \in {"waiting", "here", "failed"}
  BY <1>1, <1>6 DEF TourInv
<1> QED BY <1>7, <1>8, <1>9, <1>10, <1>11, <1>12 DEF TourInv

LEMMA GraphArrivesLemma ==
  ASSUME TourInv, GraphArrives
  PROVE  TourInv'
<1>1. PICK t \in Targets : t = target
  BY DEF TourInv
<1>2. /\ given' = Dot /\ sim' = Built(Dot) /\ family' = VisibleDomain(t) /\ timers' = <<t, t>>
      /\ payload' = "here" /\ target' = t
      /\ UNCHANGED <<read, lastId, chosen, held, dragged, hovered, glow, pointer, camera,
                     frame, pixels>>
  BY <1>1 DEF GraphArrives, Loads, Armed, VisibleDomain
<1>3. /\ sim' \in SimType /\ sim'.pinned = {} /\ ~sim'.hot /\ sim'.ticking /\ sim'.dots = Dot
  BY <1>2, RebuildsLemma
<1>4. CanvasTypeOK'
  BY <1>2, <1>3, DomainLemma DEF TourInv, CanvasInv, CanvasTypeOK, SimType
<1>5. glow = {}
  BY DEF TourInv, CanvasInv, GlowIsOfHover
<1>6. PinsAreHeld' /\ GlowIsOfHover' /\ ShowsWhatIs'
  BY <1>2, <1>3, <1>5 DEF TourInv, PinsAreHeld, GlowIsOfHover, ShowsWhatIs
<1>7. ReadsSection(read.layer, read.place, lastId, target)'
  BY <1>1, <1>2 DEF TourInv, ReadsSection, PickActiveAnchor
<1>8. TimersOfTarget' /\ AtTarget'
  BY <1>2, <1>3 DEF TimersOfTarget, AtTarget, VisibleDomain
<1> QED BY <1>1, <1>2, <1>4, <1>6, <1>7, <1>8 DEF TourInv, CanvasInv

LEMMA AimTickLemma ==
  ASSUME TourInv, AimTick
  PROVE  TourInv'
<1>1. PICK t \in Targets : t = target
  BY DEF TourInv
<1>2. payload = "here" /\ (timers = <<t>> \/ timers = <<t, t>>)
  BY <1>1 DEF AimTick, TourInv, TimersOfTarget
<1>3. timers' \in {<< >>, <<t>>} /\ Head(timers) = t
  <2>1. Tail(<<t>>) = << >> /\ Tail(<<t, t>>) = <<t>> /\ Head(<<t>>) = t /\ Head(<<t, t>>) = t
    OBVIOUS
  <2>2. timers' = Tail(timers)
    BY DEF AimTick
  <2> QED BY <1>2, <2>1, <2>2
<1>4. /\ camera' = Framed(t) /\ frame' = TRUE
      /\ UNCHANGED <<read, lastId, target, payload, given, chosen, sim, held, dragged,
                     hovered, glow, pointer, family, pixels>>
  BY <1>3 DEF AimTick
<1>5. given = Dot /\ sim.dots = Dot /\ family = VisibleDomain(t) /\ camera \subseteq Dot
  BY <1>1, <1>2 DEF TourInv, AtTarget, CanvasInv, CanvasTypeOK, VisibleDomain
<1>6. camera' \subseteq Dot
  BY <1>4, <1>5, FramedLemma DEF Painted
<1>7. CanvasInv'
  BY <1>4, <1>6
  DEF TourInv, CanvasInv, CanvasTypeOK, PinsAreHeld, GlowIsOfHover, ShowsWhatIs, Near
<1>8. camera' = Framed(target)'
  <2>1. sim.dots' = Dot /\ target' = t
    BY <1>1, <1>4, <1>5
  <2> QED BY <1>4, <1>5, <1>6, <2>1, <1>1, FramedLemma DEF Framed, Fitted, Members, Centered
<1>9. TimersOfTarget' /\ AtTarget'
  BY <1>1, <1>2, <1>3, <1>4, <1>5, <1>8 DEF TimersOfTarget, AtTarget, VisibleDomain
<1>10. ReadsSection(read.layer, read.place, lastId, target)'
  BY <1>4 DEF TourInv, ReadsSection, PickActiveAnchor
<1> QED BY <1>1, <1>4, <1>7, <1>9, <1>10 DEF TourInv

\* What the canvas draws by itself moves neither its nodes nor the camera.
LEMMA TourDrawsLemma ==
  ASSUME TourInv, Draws \/ UNCHANGED tourAll \/ GraphLost
  PROVE  TourInv'
<1>1. CASE Draws
  <2>1. CanvasInv'
    BY <1>1, DrawsLemma DEF Draws, TourInv
  <2>2. /\ sim.dots' = sim.dots /\ UNCHANGED <<given, hovered, camera, family>>
        /\ UNCHANGED <<read, lastId, target, timers, payload>>
    BY <1>1 DEF Draws, tourVars, SimTick, Frame, TourInv, CanvasInv, CanvasTypeOK
  <2>3. ReadsSection(read.layer, read.place, lastId, target)'
    BY <2>2 DEF TourInv, ReadsSection, PickActiveAnchor
  <2>4. TimersOfTarget' /\ AtTarget'
    BY <2>2 DEF TourInv, TimersOfTarget, AtTarget, VisibleDomain, Framed, Fitted, Members, Centered
  <2> QED BY <2>1, <2>2, <2>3, <2>4 DEF TourInv
<1>2. CASE UNCHANGED tourAll \/ GraphLost
  <2>1. /\ UNCHANGED canvasVars /\ UNCHANGED <<read, lastId, target, timers>>
        /\ payload' \in {"waiting", "here", "failed"}
        /\ payload' = payload \/ (payload = "waiting" /\ payload' = "failed")
    BY <1>2 DEF tourAll, tourVars, GraphLost, TourInv
  <2>2. CanvasInv'
    BY <2>1, CanvasInvStep DEF TourInv
  <2>3. ReadsSection(read.layer, read.place, lastId, target)'
    BY <2>1 DEF TourInv, ReadsSection, PickActiveAnchor
  <2>4. TimersOfTarget' /\ AtTarget'
    BY <2>1
    DEF TourInv, TimersOfTarget, AtTarget, VisibleDomain, Framed, Fitted, Members, Centered,
        canvasVars, drawVars
  <2> QED BY <2>1, <2>2, <2>3, <2>4 DEF TourInv, canvasVars, drawVars
<1> QED BY <1>1, <1>2

LEMMA TourStarts == TourInit /\ NoCanvas => TourInv
<1> SUFFICES ASSUME TourInit, NoCanvas PROVE TourInv
  OBVIOUS
<1>1. PICK layer \in Layer : read = [layer |-> layer, place |-> 0, scrolls |-> 0]
  BY DEF TourInit
<1>2. PICK id : id = PickActiveAnchor(layer, 0)
  OBVIOUS
<1>3. /\ target = IF Anchored(layer) = {} THEN "all"
                  ELSE IF Views(layer, id) = {} THEN "all" ELSE TargetOf(layer, id)
      /\ Anchored(layer) # {} => lastId = id
      /\ timers = << >> /\ payload = "waiting"
  BY <1>1, <1>2 DEF TourInit, PickActiveAnchor
<1>4. target \in Targets
  BY <1>3, StoryLemma DEF Targets
<1>5. ReadsSection(read.layer, read.place, lastId, target)
  BY <1>1, <1>2, <1>3 DEF ReadsSection, PickActiveAnchor
<1>6. CanvasInv /\ ~hovered.live
  <2>1. /\ given = {} /\ sim \in SimType /\ sim.pinned = {} /\ ~sim.hot
        /\ held = LetGo /\ dragged = NoObject /\ hovered = NoObject /\ glow = {}
    BY DEF NoCanvas, NoSim, SimType
  <2>2. pixels \in PixelType
    BY DEF NoCanvas, Blankness, PixelType
  <2>3. CanvasTypeOK
    <3>1. chosen = NoDot /\ pointer = "still" /\ camera = {} /\ family = NoDot /\ frame = FALSE
      BY DEF NoCanvas
    <3>2. held \in [on : Objects, touch : BOOLEAN] /\ dragged \in Objects /\ hovered \in Objects
      BY <2>1, ObjectsLemma DEF LetGo
    <3>3. sim.pinned \subseteq sim.dots /\ glow \subseteq sim.dots
      BY <2>1
    <3> QED BY <2>1, <2>2, <3>1, <3>2, <3>3 DEF CanvasTypeOK, SimType, PixelType
  <2> QED BY <2>1, <2>3, ObjectsLemma DEF CanvasInv, PinsAreHeld, GlowIsOfHover, ShowsWhatIs
<1>7. read \in [layer : Layer, place : 0 .. Len(Story), scrolls : 0 .. MaxScrolls]
  <2>1. 0 \in 0 .. Len(Story) /\ 0 \in 0 .. MaxScrolls
    BY TourAssumption
  <2> QED BY <1>1, <2>1
<1>8. TimersOfTarget /\ AtTarget
  BY <1>3 DEF TimersOfTarget, AtTarget
<1> QED BY <1>3, <1>4, <1>5, <1>6, <1>7, <1>8 DEF TourInv

LEMMA TourInvStep == TourInv /\ [TourNext]_tourAll => TourInv'
<1> SUFFICES ASSUME TourInv, [TourNext]_tourAll PROVE TourInv'
  OBVIOUS
<1>1. PICK layer \in Layer, k \in 0 .. Len(Story), n \in 0 .. MaxScrolls :
        read = [layer |-> layer, place |-> k, scrolls |-> n]
  BY DEF TourInv
<1>2. ASSUME NEW place \in 0 .. Len(Story), Scroll(place) PROVE TourInv'
  <2>1. /\ read.scrolls < MaxScrolls /\ Repainted /\ UNCHANGED payload
        /\ read' = [layer |-> layer, place |-> place, scrolls |-> read.scrolls + 1]
    BY <1>1, <1>2 DEF Scroll
  <2>2. PICK seen : seen = lastId
    OBVIOUS
  <2>3. Update(layer, place, seen, payload = "here")
    BY <1>1, <1>2, <2>2 DEF Scroll, Update
  <2> QED BY <1>1, <2>1, <2>2, <2>3, ReadsLemma
<1>3. ASSUME NEW other \in Layer, SetLayer(other) PROVE TourInv'
  <2>1. read.scrolls < MaxScrolls /\ Repainted /\ UNCHANGED payload
    BY <1>3 DEF SetLayer
  <2>2. PICK place \in 0 .. Len(Story) :
          /\ read' = [layer |-> other, place |-> place, scrolls |-> read.scrolls + 1]
          /\ Update(other, place, NoAnchor, payload = "here")
    BY <1>3 DEF SetLayer, Seen
  <2> QED BY <2>1, <2>2, ReadsLemma
<1> QED BY <1>2, <1>3, GraphArrivesLemma, AimTickLemma, TourDrawsLemma DEF TourNext

LEMMA TourImplies == TourInv => TourShowsItsSection /\ TourTypeOK
<1> SUFFICES ASSUME TourInv PROVE TourShowsItsSection /\ TourTypeOK
  OBVIOUS
<1>1. Anchored(read.layer) # {} =>
        LET id == PickActiveAnchor(read.layer, read.place)
        IN  Views(read.layer, id) # {} => target = TargetOf(read.layer, id)
  BY DEF TourInv, ReadsSection
<1>2. payload = "here" /\ timers = << >> => camera = Framed(target)
  BY DEF TourInv, AtTarget
<1>3. payload = "here" /\ timers = << >> /\ ~sim.ticking /\ ~frame => camera \subseteq pixels.dots
  <2> SUFFICES ASSUME payload = "here", timers = << >>, ~sim.ticking, ~frame
               PROVE  camera \subseteq pixels.dots
    OBVIOUS
  <2>1. PICK t \in Targets : t = target
    BY DEF TourInv
  <2>2. /\ given = Dot /\ sim.dots = Dot /\ family = VisibleDomain(t) /\ camera = Framed(t)
        /\ camera \subseteq Dot
    BY <2>1 DEF TourInv, AtTarget, CanvasInv, CanvasTypeOK, VisibleDomain
  <2>3. CASE Dot = {}
    BY <2>2, <2>3
  <2>4. CASE Dot # {}
    <3>1. pixels.dots = Painted
      BY <2>2, <2>4 DEF TourInv, CanvasInv, ShowsWhatIs, Drawing
    <3> QED BY <2>2, <3>1, FramedLemma
  <2> QED BY <2>3, <2>4
<1>4. TourTypeOK
  <2>1. PICK t \in Targets : t = target
    BY DEF TourInv
  <2>2. /\ 1 .. 0 = {} /\ << >> \in [1 .. 0 -> Targets]
        /\ <<t>> \in [1 .. 1 -> Targets] /\ <<t, t>> \in [1 .. 2 -> Targets]
        /\ 0 \in 0 .. 2 /\ 1 \in 0 .. 2 /\ 2 \in 0 .. 2
    OBVIOUS
  <2>3. timers \in {<< >>, <<t>>, <<t, t>>}
    BY <2>1 DEF TourInv, TimersOfTarget
  <2>4. \E k \in 0 .. 2 : timers \in [1 .. k -> Targets]
    BY <2>2, <2>3, Zenon
  <2> QED BY <2>4 DEF TourInv, TourTypeOK
<1> QED BY <1>1, <1>2, <1>3, <1>4 DEF TourShowsItsSection

LEMMA TourAlwaysInv == TourSpec => []TourInv
  BY TourStarts, TourInvStep, PTL DEF TourSpec

\* The tour, the canvas under it and its timers keep their types.
THEOREM TourTypeCorrect == TourSpec => [](TourTypeOK /\ CanvasTypeOK)
<1>1. TourInv => TourTypeOK /\ CanvasTypeOK
  BY TourImplies DEF TourInv, CanvasInv
<1> QED BY <1>1, TourAlwaysInv, PTL

-----------------------------------------------------------------------------
(***************************************************************************)
(* The figures that share one request.                                     *)
(***************************************************************************)

FlightInv == FlightTypeOK /\ NobodyWaitsForNothing

Figure == [shows : {"gone", "loading", "graph", "error"}, target : Aimed \cup {NoAim},
           timers : 0 .. 2, camera : Aimed \cup {NoAim}]

\* A figure with its timers set anew is not at rest away from its target.
LEMMA RearmedLemma ==
  ASSUME NEW fig \in Figure
  PROVE  /\ Rearmed(fig) \in Figure /\ Rearmed(fig).shows = fig.shows
         /\ Rearmed(fig).target = fig.target
         /\ fig.shows = "graph" /\ fig.target # NoAim => Rearmed(fig).timers = 2
  BY DEF Rearmed, Figure

LEMMA TickedLemma ==
  ASSUME NEW old \in Figure, old.timers > 0
  PROVE  \E fig \in Figure :
           /\ fig = [old EXCEPT !.timers = old.timers - 1, !.camera = old.target]
           /\ fig.shows = old.shows /\ fig.camera = fig.target
<1> DEFINE fig == [old EXCEPT !.timers = old.timers - 1, !.camera = old.target]
<1>1. old.timers - 1 \in 0 .. 2 /\ old.target \in Aimed \cup {NoAim}
  BY DEF Figure
<1>2. fig \in Figure /\ fig.shows = old.shows /\ fig.camera = fig.target
  BY <1>1 DEF Figure
<1> QED BY <1>2

LEMMA MountedLemma ==
  ASSUME NEW shows \in {"loading", "graph"}, NEW t \in Aimed \cup {NoAim}
  PROVE  \E new \in Figure :
           new = [Gone EXCEPT !.shows = shows, !.target = t] /\ new.shows = shows
<1>1. Gone \in Figure
  BY DEF Gone, Figure
<1>2. PICK old \in Figure : old = Gone
  BY <1>1
<1> DEFINE new == [old EXCEPT !.shows = shows, !.target = t]
<1>3. new \in Figure /\ new.shows = shows
  BY DEF Figure
<1> QED BY <1>2, <1>3

LEMMA RetargetedLemma ==
  ASSUME NEW old \in Figure, NEW t \in Aimed \cup {NoAim}
  PROVE  \E new \in Figure : new = [old EXCEPT !.target = t] /\ new.shows = old.shows
<1> DEFINE new == [old EXCEPT !.target = t]
<1>1. new \in Figure /\ new.shows = old.shows
  BY DEF Figure
<1> QED BY <1>1

LEMMA FlightStarts == FlightInit => FlightInv
<1> SUFFICES ASSUME FlightInit PROVE FlightInv
  OBVIOUS
<1>1. Gone \in Figure /\ Gone.shows = "gone"
  BY DEF Gone, Figure
<1>2. 0 \in 0 .. MaxFlights
  BY FlightAssumption
<1>3. /\ flight \in [Flight -> Figure] /\ flown \in 0 .. MaxFlights /\ graphCache = FALSE
      /\ inflight \in [open : BOOLEAN, waiting : SUBSET Flight]
      /\ inflight.waiting = {} /\ ~inflight.open
      /\ \A f \in Flight : flight[f].shows = "gone"
  BY <1>1, <1>2 DEF FlightInit, NoPromise
<1>4. FlightTypeOK
  BY <1>3 DEF FlightTypeOK, Figure
<1> QED BY <1>3, <1>4 DEF FlightInv, NobodyWaitsForNothing

\* One figure changes.
LEMMA OneFigureLemma ==
  ASSUME FlightInv, NEW f \in Flight, NEW fig \in Figure,
         flight' = [flight EXCEPT ![f] = fig], graphCache' = graphCache,
         inflight' \in [open : BOOLEAN, waiting : SUBSET Flight], flown' \in 0 .. MaxFlights,
         inflight'.open => ~graphCache,
         fig.shows = "graph" /\ fig.timers = 0 /\ fig.target # NoAim => fig.camera = fig.target,
         inflight'.waiting = IF fig.shows = "loading" THEN inflight.waiting \cup {f}
                             ELSE inflight.waiting \ {f}
  PROVE  FlightInv'
<1>1. flight \in [Flight -> Figure] /\ flight' \in [Flight -> Figure]
  BY DEF FlightInv, FlightTypeOK, Figure
<1>2. \A g \in Flight : flight'[g] = IF g = f THEN fig ELSE flight[g]
  BY <1>1
<1>3. FlightTypeOK'
  BY <1>1 DEF FlightInv, FlightTypeOK, Figure
<1>4. {g \in Flight : flight'[g].shows = "loading"} = inflight'.waiting
  BY <1>2 DEF FlightInv, NobodyWaitsForNothing, FlightTypeOK
<1>5. \A g \in Flight : flight'[g].shows = "graph" /\ flight'[g].timers = 0
                          /\ flight'[g].target # NoAim => flight'[g].camera = flight'[g].target
  BY <1>2 DEF FlightInv, NobodyWaitsForNothing
<1> QED BY <1>3, <1>4, <1>5 DEF FlightInv, NobodyWaitsForNothing

\* The answer, for all that wait.
LEMMA LandedLemma ==
  ASSUME FlightInv, NEW shows \in {"graph", "error"}, flight' = Landed(shows),
         inflight' = NoPromise, graphCache' \in BOOLEAN, flown' = flown
  PROVE  FlightInv'
<1>1. flight \in [Flight -> Figure] /\ inflight.waiting \subseteq Flight
  BY DEF FlightInv, FlightTypeOK, Figure
<1>2. \A g \in Flight : flight[g] \in Figure /\ [flight[g] EXCEPT !.shows = shows] \in Figure
                        /\ [flight[g] EXCEPT !.shows = shows].shows = shows
                        /\ [flight[g] EXCEPT !.shows = shows].target = flight[g].target
  BY <1>1 DEF Figure
<1>3. flight' = [g \in Flight |-> IF g \in inflight.waiting
                                  THEN Rearmed([flight[g] EXCEPT !.shows = shows]) ELSE flight[g]]
  BY DEF Landed
<1>4. ASSUME NEW g \in Flight
      PROVE  /\ flight'[g] \in Figure /\ flight'[g].shows # "loading"
             /\ flight'[g].shows = "graph" /\ flight'[g].timers = 0
                  /\ flight'[g].target # NoAim => flight'[g].camera = flight'[g].target
  <2>1. CASE g \in inflight.waiting
    <3> DEFINE fig == [flight[g] EXCEPT !.shows = shows]
    <3>1. fig \in Figure /\ fig.shows = shows
      BY <1>2
    <3>2. flight'[g] = Rearmed(fig)
      BY <1>3, <2>1
    <3> HIDE DEF fig
    <3>3. /\ flight'[g] \in Figure /\ flight'[g].shows = shows
          /\ shows = "graph" /\ flight'[g].target # NoAim => flight'[g].timers = 2
      BY <3>1, <3>2, RearmedLemma
    <3> QED BY <3>3
  <2>2. CASE g \notin inflight.waiting
    <3>1. flight'[g] = flight[g] /\ flight[g].shows # "loading"
      BY <1>3, <2>2 DEF FlightInv, NobodyWaitsForNothing
    <3> QED BY <1>2, <3>1 DEF FlightInv, NobodyWaitsForNothing
  <2> QED BY <2>1, <2>2
<1>5. flight' \in [Flight -> Figure]
  BY <1>3, <1>4
<1>6. inflight'.waiting = {} /\ ~inflight'.open
      /\ inflight' \in [open : BOOLEAN, waiting : SUBSET Flight]
  BY DEF NoPromise
<1>7. FlightTypeOK'
  BY <1>5, <1>6 DEF FlightInv, FlightTypeOK, Figure
<1> QED BY <1>4, <1>6, <1>7 DEF FlightInv, NobodyWaitsForNothing

LEMMA FlightInvStep == FlightInv /\ [FlightNext]_flightVars => FlightInv'
<1> SUFFICES ASSUME FlightInv, [FlightNext]_flightVars PROVE FlightInv'
  OBVIOUS
<1>1. /\ flight \in [Flight -> Figure] /\ graphCache \in BOOLEAN /\ flown \in 0 .. MaxFlights
      /\ inflight \in [open : BOOLEAN, waiting : SUBSET Flight]
      /\ \A f \in Flight : f \in inflight.waiting <=> flight[f].shows = "loading"
      /\ inflight.open => ~graphCache
      /\ \A f \in Flight : flight[f].shows = "graph" /\ flight[f].timers = 0
                              /\ flight[f].target # NoAim => flight[f].camera = flight[f].target
  BY DEF FlightInv, FlightTypeOK, NobodyWaitsForNothing, Figure
<1>2. ASSUME NEW f \in Flight, UnmountFlight(f) PROVE FlightInv'
  <2>1. Gone \in Figure /\ Gone.shows = "gone"
    BY DEF Gone, Figure
  <2>2. /\ flight' = [flight EXCEPT ![f] = Gone] /\ graphCache' = graphCache
        /\ inflight' \in [open : BOOLEAN, waiting : SUBSET Flight] /\ flown' \in 0 .. MaxFlights
        /\ inflight'.open => ~graphCache
        /\ inflight'.waiting = inflight.waiting \ {f}
    BY <1>1, <1>2 DEF UnmountFlight
  <2> QED BY <2>1, <2>2, OneFigureLemma
<1>3. ASSUME NEW f \in Flight, FlightTick(f) PROVE FlightInv'
  <2>1. PICK old \in Figure : old = flight[f]
    BY <1>1
  <2>2. old.timers > 0
    BY <1>3, <2>1 DEF FlightTick
  <2>3. PICK fig \in Figure :
          /\ fig = [old EXCEPT !.timers = old.timers - 1, !.camera = old.target]
          /\ fig.shows = old.shows /\ fig.camera = fig.target
    BY <2>2, TickedLemma
  <2>4. flight' = [flight EXCEPT ![f] = fig] /\ UNCHANGED <<graphCache, inflight, flown>>
    BY <1>1, <1>3, <2>1, <2>3 DEF FlightTick, Figure
  <2>5. inflight'.waiting = IF fig.shows = "loading" THEN inflight.waiting \cup {f}
                            ELSE inflight.waiting \ {f}
    BY <1>1, <2>1, <2>3, <2>4
  <2> QED BY <1>1, <2>3, <2>4, <2>5, OneFigureLemma
<1>4. ASSUME NEW f \in Flight, NEW t \in Aimed \cup {NoAim}, MountFlight(f, t) PROVE FlightInv'
  <2>1. PICK shows \in {"loading", "graph"} : shows = IF graphCache THEN "graph" ELSE "loading"
    OBVIOUS
  <2>2. PICK new \in Figure : new = [Gone EXCEPT !.shows = shows, !.target = t]
                              /\ new.shows = shows
    BY MountedLemma
  <2>3. PICK fig \in Figure :
          /\ fig = Rearmed(new) /\ fig.shows = shows
          /\ shows = "graph" /\ fig.target # NoAim => fig.timers = 2
    BY ZenonT(60), <2>2, RearmedLemma
  <2>4. flight' = [flight EXCEPT ![f] = fig] /\ graphCache' = graphCache
    BY <1>4, <2>1, <2>2, <2>3 DEF MountFlight
  <2>5. flown' \in 0 .. MaxFlights
    BY <1>1, <1>4, FlightAssumption DEF MountFlight
  <2>6. flight[f].shows # "loading"
    BY <1>4 DEF MountFlight, Gone
  <2>7. /\ inflight' \in [open : BOOLEAN, waiting : SUBSET Flight]
        /\ inflight'.open => ~graphCache
        /\ inflight'.waiting = IF graphCache THEN inflight.waiting ELSE inflight.waiting \cup {f}
    BY <1>1, <1>4 DEF MountFlight
  <2>8. inflight'.waiting = IF fig.shows = "loading" THEN inflight.waiting \cup {f}
                            ELSE inflight.waiting \ {f}
    BY <1>1, <2>1, <2>3, <2>6, <2>7
  <2>9. fig.shows = "graph" /\ fig.timers = 0 /\ fig.target # NoAim => fig.camera = fig.target
    BY <2>3
  <2> QED BY <2>3, <2>4, <2>5, <2>7, <2>8, <2>9, OneFigureLemma
<1>5. ASSUME NEW f \in Flight, NEW t \in Aimed \cup {NoAim}, Retarget(f, t) PROVE FlightInv'
  <2>1. PICK old \in Figure : old = flight[f]
    BY <1>1
  <2>2. PICK new \in Figure : new = [old EXCEPT !.target = t] /\ new.shows = old.shows
    BY RetargetedLemma
  <2>3. PICK fig \in Figure :
          /\ fig = Rearmed(new) /\ fig.shows = new.shows
          /\ new.shows = "graph" /\ fig.target # NoAim => fig.timers = 2
    BY ZenonT(60), <2>2, RearmedLemma
  <2>4. flight' = [flight EXCEPT ![f] = fig] /\ UNCHANGED <<graphCache, inflight, flown>>
    BY <1>1, <1>5, <2>1, <2>2, <2>3 DEF Retarget
  <2>5. inflight'.waiting = IF fig.shows = "loading" THEN inflight.waiting \cup {f}
                            ELSE inflight.waiting \ {f}
    BY <1>1, <2>1, <2>2, <2>3, <2>4
  <2>6. fig.shows = "graph" /\ fig.timers = 0 /\ fig.target # NoAim => fig.camera = fig.target
    BY <2>3
  <2> QED BY <1>1, <2>3, <2>4, <2>5, <2>6, OneFigureLemma
<1>6. CASE FlightReplies
  <2>1. graphCache' \in BOOLEAN
    BY <1>1, <1>6 DEF FlightReplies, FlightsAnswered, FlightsFailed
  <2> QED BY <1>6, <2>1, LandedLemma DEF FlightReplies, FlightsAnswered, FlightsFailed, Forgot
<1>7. CASE UNCHANGED flightVars
  BY <1>7 DEF flightVars, FlightInv, FlightTypeOK, NobodyWaitsForNothing
<1> QED BY <1>2, <1>3, <1>4, <1>5, <1>6, <1>7 DEF FlightNext

\* The figures and the request they share keep their types.
THEOREM FlightTypeCorrect == FlightSpec => []FlightTypeOK
<1>1. FlightInv => FlightTypeOK
  BY DEF FlightInv
<1> QED BY <1>1, FlightStarts, FlightInvStep, PTL DEF FlightSpec

\* Whatever the scroll, the layers, the graph's answer and the timers come in,
\* a tour ends up on the section that is read, and no figure waits for an
\* answer that has come and gone (TourView.tsx: update and the effect on the
\* target; GraphFlythrough.tsx: fetchGraphCached and its effects).
THEOREM FiguresStayTrue == TourSpec /\ FlightSpec => []FiguresAimTrue
<1>1. TourInv /\ FlightInv => FiguresAimTrue
  BY TourImplies DEF FlightInv, FiguresAimTrue
<1> QED BY <1>1, TourAlwaysInv, FlightStarts, FlightInvStep, PTL DEF FlightSpec
-----------------------------------------------------------------------------
(***************************************************************************)
(* The pages together.  A visit is of one page, whose invariant holds      *)
(* throughout; the others do not move.                                     *)
(***************************************************************************)

PagesInv ==
    /\ on = "practice" => PracticeInv
    /\ on = "topic" => TopicInv
    /\ on = "editor" => EditorInv
    /\ on = "queue" => QueueInv
    /\ on = "runner" => RunnerInv
    /\ on = "explore" => ExploreInv
    /\ on \in {"search", "path"} => FindInv
    /\ on = "session" => SessionInv
    /\ on = "canvas" => CanvasInv
    /\ on = "tour" => TourInv
    /\ on = "flights" => FlightInv
    /\ on = "profile" => ProfileInv
    /\ on = "steps" => StepTypeOK

PageOn == {"practice", "topic", "editor", "queue", "runner", "explore", "search", "path",
         "session", "canvas", "tour", "flights", "profile", "steps"}

LEMMA PagesStart ==
  ASSUME DevicesAreSound, PagesInit
  PROVE  PagesInv /\ on \in PageOn
<1>1. /\ on \in PageOn /\ PracticeInit /\ TopicInit /\ EditorInit /\ QueueInit /\ RunnerInit
      /\ ExploreInit /\ FindInit /\ SessionInit /\ TourInit /\ FlightInit /\ ProfileInit
      /\ StepInit /\ (on = "canvas" => CanvasInit) /\ (on = "tour" => NoCanvas)
  BY DEF PagesInit, PageOn
<1>2. PracticeInv /\ TopicInv /\ EditorInv /\ QueueInv /\ RunnerInv /\ ExploreInv
  BY <1>1, PracticeStarts, TopicStarts, EditorStarts, QueueStarts, RunnerStarts, ExploreStarts
<1>3. FindInv /\ SessionInv /\ FlightInv /\ ProfileInv /\ StepTypeOK
  BY <1>1, FindStarts, BoxStarts, SessionStarts, FlightStarts, ProfileStarts, StepsStart
  DEF FindInv
<1>4. (on = "canvas" => CanvasInv) /\ (on = "tour" => TourInv)
  BY <1>1, CanvasStarts, TourStarts
<1>. QED
  BY <1>1, <1>2, <1>3, <1>4 DEF PagesInv

LEMMA PagesStep ==
  ASSUME DevicesAreSound, PagesInv, PagesNext
  PROVE  PagesInv'
<1>1. CASE PracticeStep
  <2>1. on = "practice" /\ on' = on /\ PracticeInv'
    BY <1>1, PracticeInvStep DEF PracticeStep, Visit, PagesInv
  <2>. QED
    BY <2>1 DEF PagesInv
<1>2. CASE TopicStep
  <2>1. on = "topic" /\ on' = on /\ TopicInv'
    BY <1>2, TopicInvStep DEF TopicStep, Visit, PagesInv
  <2>. QED
    BY <2>1 DEF PagesInv
<1>3. CASE EditorStep
  <2>1. on = "editor" /\ on' = on /\ EditorInv'
    BY <1>3, EditorInvStep DEF EditorStep, Visit, PagesInv
  <2>. QED
    BY <2>1 DEF PagesInv
<1>4. CASE QueueStep
  <2>1. on = "queue" /\ on' = on /\ QueueInv'
    BY <1>4, QueueInvStep DEF QueueStep, Visit, PagesInv
  <2>. QED
    BY <2>1 DEF PagesInv
<1>5. CASE RunnerStep
  <2>1. on = "runner" /\ on' = on /\ RunnerInv'
    BY <1>5, RunnerInvStep DEF RunnerStep, Visit, PagesInv
  <2>. QED
    BY <2>1 DEF PagesInv
<1>6. CASE ExploreStep
  <2>1. on = "explore" /\ on' = on /\ ExploreInv'
    BY <1>6, ExploreInvStep DEF ExploreStep, Visit, PagesInv
  <2>. QED
    BY <2>1 DEF PagesInv
<1>7. CASE SearchStep \/ PathStep
  <2>1. on \in {"search", "path"} /\ on' = on /\ (SearchNext \/ PathNext)
    BY <1>7 DEF SearchStep, PathStep, Visit
  <2>2. FindInv'
    BY <2>1, FindInvStep DEF PagesInv
  <2>. QED
    BY <2>1, <2>2 DEF PagesInv
<1>8. CASE SessionStep
  <2>1. on = "session" /\ on' = on /\ SessionInv'
    BY <1>8, SessionInvStep DEF SessionStep, Visit, PagesInv
  <2>. QED
    BY <2>1 DEF PagesInv
<1>9. CASE CanvasStep
  <2>1. on = "canvas" /\ on' = on /\ CanvasInv'
    BY <1>9, CanvasInvStep DEF CanvasStep, Visit, PagesInv
  <2>. QED
    BY <2>1 DEF PagesInv
<1>10. CASE TourStep
  <2>1. on = "tour" /\ on' = on /\ TourInv'
    BY <1>10, TourInvStep DEF TourStep, Visit, PagesInv
  <2>. QED
    BY <2>1 DEF PagesInv
<1>11. CASE FlightsStep
  <2>1. on = "flights" /\ on' = on /\ FlightInv'
    BY <1>11, FlightInvStep DEF FlightsStep, Visit, PagesInv
  <2>. QED
    BY <2>1 DEF PagesInv
<1>12. CASE ProfileStep
  <2>1. on = "profile" /\ on' = on /\ ProfileInv'
    BY <1>12, ProfileInvStep DEF ProfileStep, Visit, PagesInv
  <2>. QED
    BY <2>1 DEF PagesInv
<1>13. CASE StepsStep
  <2>1. on = "steps" /\ on' = on /\ StepTypeOK'
    BY <1>13, StepTypeKept DEF StepsStep, Visit, PagesInv
  <2>. QED
    BY <2>1 DEF PagesInv
<1>. QED
  BY <1>1, <1>2, <1>3, <1>4, <1>5, <1>6, <1>7, <1>8, <1>9, <1>10, <1>11, <1>12, <1>13
  DEF PagesNext

LEMMA PagesRest ==
  ASSUME DevicesAreSound, PagesInv, UNCHANGED pagesVars
  PROVE  PagesInv' /\ UNCHANGED on
<1>1. /\ UNCHANGED <<practiceVars, topicVars, editorVars, queueVars, runnerVars, exploreVars>>
      /\ UNCHANGED <<findVars, sessionVars, canvasVars, tourVars, flightVars, profileVars, stepVars, on>>
  BY DEF pagesVars
<1>2. UNCHANGED tourAll
  BY <1>1 DEF tourAll
<1>3. /\ (PracticeInv => PracticeInv') /\ (TopicInv => TopicInv') /\ (EditorInv => EditorInv')
      /\ (QueueInv => QueueInv') /\ (RunnerInv => RunnerInv') /\ (ExploreInv => ExploreInv')
  BY <1>1, PracticeInvStep, TopicInvStep, EditorInvStep, QueueInvStep, RunnerInvStep,
     ExploreInvStep
<1>4. /\ (FindInv => FindInv') /\ (SessionInv => SessionInv') /\ (CanvasInv => CanvasInv')
      /\ (TourInv => TourInv') /\ (FlightInv => FlightInv') /\ (ProfileInv => ProfileInv')
      /\ (StepTypeOK => StepTypeOK')
  BY <1>1, <1>2, FindInvStep, SessionInvStep, CanvasInvStep, TourInvStep, FlightInvStep,
     ProfileInvStep, StepTypeKept
<1>. QED
  BY <1>1, <1>3, <1>4 DEF PagesInv

LEMMA PagesStay == PagesNext => UNCHANGED on
  BY DEF PagesNext, PracticeStep, TopicStep, EditorStep, QueueStep, RunnerStep, ExploreStep,
     SearchStep, PathStep, SessionStep, CanvasStep, TourStep, FlightsStep, ProfileStep,
     StepsStep, Visit

\* The page that is visited keeps the types of its state, its requests and its
\* timers, however its reader, the server and the clock take turns.
THEOREM PagesTypeCorrect ==
  ASSUME DevicesAreSound
  PROVE  PagesSpec => []PagesTypeOK
<1>1. PagesInit => PagesInv /\ on \in PageOn
  BY PagesStart
<1>2. PagesInv /\ on \in PageOn /\ [PagesNext]_pagesVars => PagesInv' /\ (on \in PageOn)'
  <2>1. ASSUME PagesInv, [PagesNext]_pagesVars PROVE PagesInv' /\ UNCHANGED on
    BY <2>1, PagesStep, PagesStay, PagesRest
  <2>. QED
    BY <2>1
<1>3. PagesInv /\ on \in PageOn => PagesTypeOK
  <2>. SUFFICES ASSUME PagesInv, on \in PageOn PROVE PagesTypeOK
    OBVIOUS
  <2>1. /\ on = "practice" => PracticeTypeOK
        /\ on = "topic" => TopicTypeOK
        /\ on = "editor" => EditorTypeOK
        /\ on = "queue" => QueueTypeOK
        /\ on = "runner" => RunnerTypeOK
        /\ on = "explore" => ExploreTypeOK
    BY DEF PagesInv, PracticeInv, TopicInv, EditorInv, QueueInv, RunnerInv, ExploreInv
  <2>2. /\ on \in {"search", "path"} => FindTypeOK
        /\ on = "canvas" => CanvasTypeOK
        /\ on = "tour" => CanvasTypeOK /\ TourTypeOK
        /\ on = "flights" => FlightTypeOK
        /\ on = "steps" => StepTypeOK
    BY FindIsTyped, TourImplies DEF PagesInv, CanvasInv, TourInv, FlightInv
  <2>3. on = "session" => SessionTypeOK
    BY DEF PagesInv, SessionInv, SessionShape, SessionTypeOK, FormType, PanelType, Asked, AskKind
  <2>4. on = "profile" => ProfileTypeOK
    BY DEF PagesInv, ProfileInv, ProfileShape, ProfileTypeOK, SheetType, CallType
  <2>5. CASE on \in {"practice", "topic", "editor", "queue", "runner", "explore"}
    BY <2>1, <2>5 DEF PagesTypeOK
  <2>6. CASE on \in {"search", "path", "canvas", "tour", "flights", "steps"}
    BY <2>2, <2>6 DEF PagesTypeOK
  <2>7. CASE on \in {"session", "profile"}
    BY <2>3, <2>4, <2>7 DEF PagesTypeOK
  <2>. QED
    BY <2>5, <2>6, <2>7 DEF PageOn
<1>. QED
  BY <1>1, <1>2, <1>3, PTL DEF PagesSpec
=============================================================================
