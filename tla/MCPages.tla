------------------------------- MODULE MCPages -------------------------------
(***************************************************************************)
(* The pages of the site, and a reader's practice on a topic.  A behaviour *)
(* is the visit of one page (on), with all that its requests, timers and   *)
(* gestures may do in any order; the others stay in one initial state, so  *)
(* that the states of the instance are those of the pages, one page after  *)
(* the other.  The tour draws on the canvas of the graph, and its          *)
(* behaviours move both.                                                   *)
(***************************************************************************)
EXTENDS Practice, TopicPage, ForkEditorPage, ReviewQueuePage, RunnerBlock,
        ExplorePage, FindTopic, SessionPage, GraphBeside, ProfilePages,
        StepFigures

CONSTANTS x1, x2, k1, k2

VARIABLE on

pagesVars == <<practiceVars, topicVars, editorVars, queueVars, runnerVars,
               exploreVars, findVars, sessionVars, canvasVars, tourVars, flightVars,
               profileVars, stepVars, on>>

-----------------------------------------------------------------------------
(***************************************************************************)
(* Values of the constants.                                                *)
(***************************************************************************)

MCOption == {x1, x2}
MCKey == {k1, k2}
MCWrites == [o \in MCOption |-> [k \in MCKey |-> IF (o = x1) = (k = k1) THEN 1 ELSE 0]]
MCAuthor == [k \in MCKey |-> 0]
MCTarget == [k \in MCKey |-> 1]
MCGoal == {MCTarget}

\* Another device: completed, and graded until the ease is low.
MCElsewhere ==
    {[EmptySlice EXCEPT !.done = TRUE, !.pick = x2, !.stamp = 1,
        !.card = [ease |-> EaseFloor, interval |-> 1, last |-> 0, due |-> 1]]}

MCBlocks == [t \in Text \cup {Blank} |-> IF t = Blank THEN 0 ELSE 1]

\* Two families; within one, a member whose only edge leads to the other.
MCDomainOf == [n \in Node |-> IF n \in {"ra", "a1"} THEN "A" ELSE "B"]
MCGraphs == {{<<"a1", "b1">>}, {<<"ra", "a1">>, <<"b1", "a1">>}}
MCTitled == [q \in {"q1", "q2"} |-> IF q = "q1" THEN {} ELSE {"a1"}]

MCFound == [w \in {"aa", "ab"} |-> IF w = "aa" THEN 2 ELSE 0]
MCPopular == {<<"p1", "p2">>}

MCFamilyOf == [d \in Dot |-> IF d = "s" THEN "s" ELSE "r"]
MCLinks == {<<"r", "p">>, <<"p", "s">>}
MCRequired == {<<"r", "p">>}
MCBearing == [l \in MCLinks |-> IF l[1] = "r" THEN 1 ELSE 6]

\* Sections with a view in one layer and another in the other, with a view in
\* one layer only, with none, and with the whole graph.
Told(layer, anchor, seen) == [layer |-> layer, anchor |-> anchor, view |-> seen]
MCStory == <<Told("both", "none", "none"), Told("intuition", "a", "r"),
             Told("rigorous", "a", "p"), Told("both", "b", "none"),
             Told("rigorous", "c", "s"), Told("both", "d", "all")>>

-----------------------------------------------------------------------------
(***************************************************************************)
(* One page after the other.                                               *)
(***************************************************************************)

\* The initial states of each page, narrowed to one while another is visited.
PagesInit ==
    /\ on \in {"practice", "topic", "editor", "queue", "runner", "explore", "search", "path",
               "session", "canvas", "tour", "flights", "profile", "steps"}
    /\ PracticeInit
    /\ on # "practice" => slice.started
    /\ TopicInit
    /\ on # "topic" => token = NoOne /\ forks = {} /\ url = CHOOSE s \in Slug : TRUE
    /\ EditorInit
    /\ on # "editor" => ~ed.token /\ stored = CHOOSE t \in Text : TRUE
    /\ QueueInit
    /\ on # "queue" => ~reviewer /\ selected = NoRow
    /\ RunnerInit
    /\ on # "runner" => signed = "no" /\ ~block.auto /\ ~block.expected /\ ~block.editable
    /\ ExploreInit
    /\ on # "explore" => served = {<<"a1", "b1">>} /\ domain = Nothing
    /\ FindInit
    /\ on # "path" => way.from = NoPlace /\ way.to = NoPlace
    /\ SessionInit
    /\ on # "session" => key = Anyone /\ view = CHOOSE v \in View : TRUE
    /\ IF on = "canvas" THEN CanvasInit ELSE NoCanvas
    /\ on = "canvas" => given = {"r", "p"}
    /\ TourInit
    /\ on # "tour" => read.layer = "both"
    /\ FlightInit
    /\ ProfileInit
    /\ on # "profile" => viewer = NoPerson /\ kept = [p \in Person |-> {}]
    /\ StepInit
    /\ on # "steps" => figure = "fill" /\ motion.reduced

\* The pages that are not visited stay as they are.
Visit(one) ==
    /\ on = one /\ UNCHANGED on
    /\ IF one = "practice" THEN TRUE ELSE UNCHANGED practiceVars
    /\ IF one = "topic" THEN TRUE ELSE UNCHANGED topicVars
    /\ IF one = "editor" THEN TRUE ELSE UNCHANGED editorVars
    /\ IF one = "queue" THEN TRUE ELSE UNCHANGED queueVars
    /\ IF one = "runner" THEN TRUE ELSE UNCHANGED runnerVars
    /\ IF one = "explore" THEN TRUE ELSE UNCHANGED exploreVars
    /\ IF one \in {"search", "path"} THEN TRUE ELSE UNCHANGED findVars
    /\ IF one = "session" THEN TRUE ELSE UNCHANGED sessionVars
    /\ IF one \in {"canvas", "tour"} THEN TRUE ELSE UNCHANGED canvasVars
    /\ IF one = "tour" THEN TRUE ELSE UNCHANGED tourVars
    /\ IF one = "flights" THEN TRUE ELSE UNCHANGED flightVars
    /\ IF one = "profile" THEN TRUE ELSE UNCHANGED profileVars
    /\ IF one = "steps" THEN TRUE ELSE UNCHANGED stepVars

PracticeStep == Visit("practice") /\ PracticeNext
TopicStep == Visit("topic") /\ TopicNext
EditorStep == Visit("editor") /\ EditorNext
QueueStep == Visit("queue") /\ QueueNext
RunnerStep == Visit("runner") /\ RunnerNext
ExploreStep == Visit("explore") /\ ExploreNext
SearchStep == Visit("search") /\ SearchNext
PathStep == Visit("path") /\ PathNext
SessionStep == Visit("session") /\ SessionNext
CanvasStep == Visit("canvas") /\ CanvasNext
TourStep == Visit("tour") /\ TourNext
FlightsStep == Visit("flights") /\ FlightNext
ProfileStep == Visit("profile") /\ ProfileNext
StepsStep == Visit("steps") /\ StepNext

PagesNext ==
    \/ PracticeStep \/ TopicStep \/ EditorStep \/ QueueStep \/ RunnerStep
    \/ ExploreStep \/ SearchStep \/ PathStep \/ SessionStep
    \/ CanvasStep \/ TourStep \/ FlightsStep \/ ProfileStep \/ StepsStep

\* What a page waits for comes: answers, if only by a network error, and the
\* ticks of timers.  It is the fairness of TopicSpec, EditorSpec, ..., each for
\* the behaviours of its own page.
Fair ==
    /\ WF_topicVars(on = "topic" /\ Answers)
    /\ WF_editorVars(on = "editor" /\ EditorAnswers)
    /\ WF_queueVars(on = "queue" /\ TaskReplies)
    /\ WF_runnerVars(on = "runner" /\ RunReplies)
    /\ WF_exploreVars(on = "explore" /\ GraphReplies)
    /\ WF_wayVars(on = "path" /\ PathReplies)
    /\ WF_sessionVars(on = "session" /\ SessionReplies)
    /\ WF_flightVars(on = "flights" /\ FlightReplies)
    /\ WF_profileVars(on = "profile" /\ ProfileReplies)
    /\ WF_stepVars(on = "steps" /\ ChainTicks)

PagesSpec == PagesInit /\ [][PagesNext]_pagesVars /\ Fair

-----------------------------------------------------------------------------
\* The page that is visited keeps its types.
PagesTypeOK ==
    CASE on = "practice" -> PracticeTypeOK [] on = "topic" -> TopicTypeOK
      [] on = "editor" -> EditorTypeOK
      [] on = "queue" -> QueueTypeOK [] on = "runner" -> RunnerTypeOK
      [] on = "explore" -> ExploreTypeOK [] on \in {"search", "path"} -> FindTypeOK
      [] on = "session" -> SessionTypeOK [] on = "canvas" -> CanvasTypeOK
      [] on = "tour" -> CanvasTypeOK /\ TourTypeOK [] on = "flights" -> FlightTypeOK
      [] on = "profile" -> ProfileTypeOK [] on = "steps" -> StepTypeOK

\* What the visited page shows as under way: a skeleton, a disabled button,
\* "Running", "Working...", a list of steps that is not complete.
Waiting ==
    CASE on = "topic" -> TopicWaits [] on = "editor" -> ed.loading \/ save # NoSave
      [] on = "queue" -> deciding [] on = "runner" -> run.running
      [] on = "explore" -> graph.loading [] on = "path" -> way.loading
      [] on = "session" -> FormWaits
      [] on = "flights" -> FlightWaits [] on = "profile" -> ProfileWaits
      [] on = "steps" -> StepsWait [] OTHER -> FALSE

\* Nothing stays under way: what a page waits for comes, or it stops waiting,
\* however its reader has clicked, left or signed out meanwhile.
PagesSettle == Waiting ~> ~Waiting
=============================================================================
