------------------------------ MODULE ExplorePage ------------------------------
(***************************************************************************)
(* The graph page (GraphExplorer.tsx over graphStore.ts): the graph that   *)
(* is fetched on every mount, the domain view and its family links, the    *)
(* selected node and the lists of its sidebar, and the search chip, which  *)
(* asks the server when no title matches.                                  *)
(*                                                                         *)
(* The URL's ?domain= follows the filter, which never follows it; so the   *)
(* filter stands for both.                                                 *)
(***************************************************************************)
EXTENDS Naturals, FiniteSets

CONSTANTS
    Node, Root,      \* nodes, and those of depth 0
    DomainOf,        \* DomainOf[n]
    Graphs,          \* edge sets the server may have, <<source, target>>
    Query,           \* texts of the chip that are long enough to search for
    Titled,          \* Titled[q]: the nodes whose title or slug has the text
    Nothing,
    MaxClicks, MaxFetches   \* bounds

ASSUME ExploreAssumption ==
    /\ Root \subseteq Node
    /\ Graphs \subseteq SUBSET (Node \X Node)
    /\ Titled \in [Query -> SUBSET (Node \ Root)]
    /\ Nothing \notin Node \cup Query
    /\ MaxClicks \in Nat
    /\ MaxFetches \in Nat \ {0}   \* the page opens with one

VARIABLES
    graph,     \* graphStore: edges, whether loaded, loading, error
    served,    \* the edges of the server
    fetches,   \* fetchGraph calls not answered, and those made
    domain,    \* activeDomain
    node,      \* selectedNode: it outlives the page
    lists,     \* the node whose prerequisites and uses the sidebar has
    clicks,    \* getPrerequisites and getLeadsTo of a click, not answered
    clicked,   \* clicks made
    chip,      \* open, query, remoteResults, and the request of the effect
    raced      \* history: a click or a root overtook the lists of another node

exploreVars == <<graph, served, fetches, domain, node, lists, clicks, clicked, chip, raced>>

Domain == {DomainOf[n] : n \in Node}
Closed == [open |-> FALSE, query |-> Nothing, remote |-> Nothing, request |-> "none"]

ExploreTypeOK ==
    /\ graph \in [edges : Graphs \cup {{}}, loaded : BOOLEAN, loading : BOOLEAN, error : BOOLEAN]
    /\ served \in Graphs
    /\ fetches \in [open : 0 .. MaxFetches, made : 0 .. MaxFetches]
    /\ domain \in Domain \cup {Nothing}
    /\ node \in Node \cup {Nothing}
    /\ lists \in Node \cup {Nothing}
    /\ clicks \subseteq [n : 1 .. MaxClicks, node : Node]
    /\ clicked \in 0 .. MaxClicks
    /\ chip \in [open : BOOLEAN, query : Query \cup {Nothing},
                 remote : Query \cup {Nothing}, request : {"none", "timer", "sent"}]
    /\ raced \in BOOLEAN

ExploreInit ==
    /\ served \in Graphs
    /\ graph = [edges |-> {}, loaded |-> FALSE, loading |-> TRUE, error |-> FALSE]
    /\ fetches = [open |-> 1, made |-> 1]
    /\ domain \in Domain \cup {Nothing}
    /\ node = Nothing /\ lists = Nothing /\ clicks = {} /\ clicked = 0
    /\ chip = Closed
    /\ raced = FALSE

-----------------------------------------------------------------------------
Nodes == IF graph.loaded THEN Node ELSE {}

Local(q) == IF q = Nothing THEN Nodes \ Root ELSE Titled[q] \cap Nodes

\* The effect on the query, open and the local results; the request before
\* is cancelled.
Searched(c) ==
    IF ~c.open \/ c.query = Nothing \/ Local(c.query) # {}
    THEN [c EXCEPT !.remote = Nothing, !.request = "none"]
    ELSE [c EXCEPT !.request = "timer"]

-----------------------------------------------------------------------------
(***************************************************************************)
(* graphStore.                                                             *)
(***************************************************************************)

\* The page mounts again, or Retry: the selection is kept, the lists are not.
FetchGraph ==
    /\ fetches.made < MaxFetches
    /\ fetches' = [open |-> fetches.open + 1, made |-> fetches.made + 1]
    /\ graph' = [graph EXCEPT !.loading = TRUE, !.error = FALSE]

Mount ==
    /\ FetchGraph
    /\ lists' = Nothing /\ clicks' = {} /\ chip' = Closed /\ raced' = FALSE
    /\ UNCHANGED <<served, domain, node, clicked>>

Retry ==
    /\ graph.error
    /\ FetchGraph
    /\ UNCHANGED <<served, domain, node, lists, clicks, clicked, chip, raced>>

\* Mutant of Answered: a fetch that failed leaves the page loading.
AnsweredOnly == graph.loading

Answered == FALSE

\* New nodes run the chip's effect again; the error page takes the chip away.
GraphAnswers ==
    /\ fetches.open > 0
    /\ fetches' = [fetches EXCEPT !.open = @ - 1]
    /\ graph' = [graph EXCEPT !.edges = served, !.loaded = TRUE, !.loading = FALSE]
    /\ chip' = Searched(chip)
    /\ UNCHANGED <<served, domain, node, lists, clicks, clicked, raced>>

GraphFails ==
    /\ fetches.open > 0
    /\ fetches' = [fetches EXCEPT !.open = @ - 1]
    /\ graph' = [graph EXCEPT !.loading = Answered, !.error = TRUE]
    /\ chip' = Closed
    /\ UNCHANGED <<served, domain, node, lists, clicks, clicked, raced>>

-----------------------------------------------------------------------------
(***************************************************************************)
(* The domain view.                                                        *)
(***************************************************************************)

OnPage == (graph.loaded \/ ~graph.loading) /\ ~graph.error
ActiveRoot == {n \in Nodes \cap Root : DomainOf[n] = domain}
FilteredNodes == IF domain = Nothing THEN Nodes ELSE {n \in Nodes : DomainOf[n] = domain}
FilteredEdges == IF domain = Nothing THEN graph.edges
                 ELSE graph.edges \cap (FilteredNodes \X FilteredNodes)

Ends(edges) == {e[1] : e \in edges} \cup {e[2] : e \in edges}

\* Mutant of Connected: an edge to another family counts.
ConnectedAnywhere == Ends(graph.edges)

Connected == Ends(FilteredEdges)

\* The dashed links, to the family's root.
FamilyLinks == ActiveRoot \X (FilteredNodes \ (Root \cup Connected))
DrawnEdges == FilteredEdges \cup FamilyLinks

\* The buttons and the keys 1 to 5 toggle; All clears.
SetDomain(d) ==
    /\ OnPage
    /\ domain' = IF d = domain THEN Nothing ELSE d
    /\ domain' # domain
    /\ UNCHANGED <<graph, served, fetches, node, lists, clicks, clicked, chip, raced>>

-----------------------------------------------------------------------------
(***************************************************************************)
(* The selected node.                                                      *)
(***************************************************************************)

\* handleNodeClick: a root asks for nothing, and keeps the lists.
Clicked(n) ==
    /\ node' = n
    /\ raced' = (raced \/ clicks # {} \/ n \in Root)
    /\ IF n \in Root THEN UNCHANGED <<clicks, clicked>>
       ELSE /\ clicked < MaxClicks
            /\ clicked' = clicked + 1
            /\ clicks' = clicks \cup {[n |-> clicked + 1, node |-> n]}

\* By the pointer, or from the selected node with an arrow.
ClickNode(n) ==
    /\ OnPage /\ n \in FilteredNodes \ {node}
    /\ Clicked(n)
    /\ UNCHANGED <<graph, served, fetches, domain, lists, chip>>

\* Any click's answer fills the sidebar.
ClickAnswers(c) ==
    /\ c \in clicks
    /\ clicks' = clicks \ {c}
    /\ lists' = c.node
    /\ UNCHANGED <<graph, served, fetches, domain, node, clicked, chip, raced>>

\* Mutant of Emptied: the lists of the node before stay.
ListsKept == lists

Emptied == Nothing

ClickFails(c) ==
    /\ c \in clicks
    /\ clicks' = clicks \ {c}
    /\ lists' = Emptied
    /\ UNCHANGED <<graph, served, fetches, domain, node, clicked, chip, raced>>

\* Escape
Deselect ==
    /\ OnPage /\ node # Nothing
    /\ node' = Nothing
    /\ UNCHANGED <<graph, served, fetches, domain, lists, clicks, clicked, chip, raced>>

-----------------------------------------------------------------------------
(***************************************************************************)
(* The search chip.                                                        *)
(***************************************************************************)

OpenChip ==
    /\ OnPage /\ ~chip.open
    /\ chip' = Searched([chip EXCEPT !.open = TRUE])
    /\ UNCHANGED <<graph, served, fetches, domain, node, lists, clicks, clicked, raced>>

TypeInChip(q) ==
    /\ chip.open /\ q # chip.query
    /\ chip' = Searched([chip EXCEPT !.query = q])
    /\ UNCHANGED <<graph, served, fetches, domain, node, lists, clicks, clicked, raced>>

\* A blur keeps the text, Escape drops it.
CloseChip(q) ==
    /\ chip.open /\ q \in {chip.query, Nothing}
    /\ chip' = Searched([chip EXCEPT !.open = FALSE, !.query = q])
    /\ UNCHANGED <<graph, served, fetches, domain, node, lists, clicks, clicked, raced>>

ChipTimer ==
    /\ chip.request = "timer"
    /\ chip' = [chip EXCEPT !.request = "sent"]
    /\ UNCHANGED <<graph, served, fetches, domain, node, lists, clicks, clicked, raced>>

\* Mutant of Failed: the matches of an earlier text stay.
FailedKept == chip.remote

Failed == Nothing

ChipAnswers ==
    /\ chip.request = "sent"
    /\ chip' = [chip EXCEPT !.request = "none", !.remote = chip.query]
    /\ UNCHANGED <<graph, served, fetches, domain, node, lists, clicks, clicked, raced>>

ChipFails ==
    /\ chip.request = "sent"
    /\ chip' = [chip EXCEPT !.request = "none", !.remote = Failed]
    /\ UNCHANGED <<graph, served, fetches, domain, node, lists, clicks, clicked, raced>>

\* handleSearchSelect: a member of another family clears the filter.
ChooseInChip(n) ==
    /\ chip.open
    /\ n \in Local(chip.query) \cup (IF chip.remote = Nothing THEN {} ELSE Nodes)
    /\ domain' = IF domain # Nothing /\ DomainOf[n] # domain /\ n \notin Root
                 THEN Nothing ELSE domain
    /\ Clicked(n)
    /\ chip' = Closed
    /\ UNCHANGED <<graph, served, fetches, lists>>

GraphReplies == GraphAnswers \/ GraphFails

ExploreNext ==
    \/ Mount \/ Retry
    \/ \E d \in Domain \cup {Nothing} : SetDomain(d)
    \/ \E n \in Node : ClickNode(n) \/ ChooseInChip(n)
    \/ Deselect
    \/ OpenChip \/ ChipTimer
    \/ \E q \in Query \cup {Nothing} : TypeInChip(q) \/ CloseChip(q)
    \/ \E c \in clicks : ClickAnswers(c) \/ ClickFails(c)
    \/ ChipAnswers \/ ChipFails
    \/ GraphReplies

ExploreSpec == ExploreInit /\ [][ExploreNext]_exploreVars /\ WF_exploreVars(GraphReplies)

-----------------------------------------------------------------------------
(***************************************************************************)
(* What the page promises.                                                 *)
(***************************************************************************)

\* In the view of a family that has its root, every member is drawn with an
\* edge, also one whose edges all lead to other families
\* (GraphExplorer.tsx:72 "doesn't float alone inside its domain view").
NoneFloats ==
    ActiveRoot # {} => FilteredNodes \ Root \subseteq Ends(DrawnEdges)

\* The sidebar's lists are of the node that is selected, or empty, once no
\* click is unanswered; only clicks faster than the answers leave others.
ListsAreOfNode ==
    node # Nothing /\ clicks = {} /\ ~raced => lists \in {node, Nothing}

\* "Content matches" are of the text in the box once its search is over.
MatchesAreOfText == chip.request = "none" => chip.remote \in {chip.query, Nothing}

\* What the graph page draws and lists is of what is selected.
ExploreHolds == NoneFloats /\ ListsAreOfNode /\ MatchesAreOfText
=============================================================================
