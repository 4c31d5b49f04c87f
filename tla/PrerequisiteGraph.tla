--------------------------- MODULE PrerequisiteGraph ---------------------------
(***************************************************************************)
(* The prerequisite edges between topics: what the seed has imported,      *)
(* which nothing checks for cycles, the edges that editors add to it       *)
(* (api/graph.py create_edge), each validated before it is inserted        *)
(* (graph_engine.py validate_edge), and what is read from it: the chain of *)
(* prerequisites in topological order, readiness, the shortest path        *)
(* between two topics and the neighbourhood of one.                        *)
(***************************************************************************)
EXTENDS Naturals, SequencesExt

CONSTANTS
    Topic,
    Seeded,      \* edges that the seed may have imported
    Editor,      \* requests that may be under way at once
    EdgeOverlap  \* requests may overlap

ASSUME GraphAssumption ==
    /\ IsFiniteSet(Topic) /\ EdgeOverlap \in BOOLEAN
    /\ Seeded \subseteq {e \in Topic \X Topic : e[1] # e[2]}

VARIABLES
    given,   \* the edges the seed imported
    edges,   \* TopicEdge rows of type prerequisite: <<source, target>>
    adding   \* the edge each request has validated and not committed

edgeVars == <<given, edges, adding>>

Edge == {e \in Topic \X Topic : e[1] # e[2]}
NoEdge == <<>>

PrerequisiteTypeOK ==
    /\ given \subseteq Edge
    /\ edges \subseteq Edge
    /\ adding \in [Editor -> Edge \cup {NoEdge}]

PrerequisiteInit ==
    /\ given \in SUBSET Seeded
    /\ edges = given
    /\ adding = [c \in Editor |-> NoEdge]

-----------------------------------------------------------------------------
(***************************************************************************)
(* validate_edge: breadth first along incoming edges, from the source.     *)
(***************************************************************************)

Sources(E, T) == {e[1] : e \in {d \in E : d[2] \in T}}

\* The loop: what it has visited and its frontier after n rounds.
Walk(E, s) ==
    LET walk[n \in 0 .. Cardinality(Topic)] ==
            IF n = 0 THEN [visited |-> {s}, frontier |-> {s}, met |-> {}]
            ELSE LET w == walk[n - 1]
                     found == Sources(E, w.frontier)
                 IN [visited |-> w.visited \cup found, frontier |-> found \ w.visited,
                     met |-> w.met \cup found]
    IN walk[Cardinality(Topic)]

\* Mutant of Safe: the direct prerequisites only.
SafeDirect(E, s, t) == s # t /\ t \notin Sources(E, {s})

Safe(E, s, t) == s # t /\ t \notin Walk(E, s).met

CreateEdge(c, s, t) ==
    /\ adding[c] = NoEdge
    /\ EdgeOverlap \/ \A d \in Editor : adding[d] = NoEdge
    /\ Safe(edges, s, t)
    /\ adding' = [adding EXCEPT ![c] = <<s, t>>]
    /\ UNCHANGED <<given, edges>>

\* An edge that is there already is refused by the table's constraint.
InsertEdge(c) ==
    /\ adding[c] # NoEdge
    /\ adding' = [adding EXCEPT ![c] = NoEdge]
    /\ edges' = edges \cup {adding[c]}
    /\ UNCHANGED given

PrerequisiteNext ==
    \E c \in Editor :
        \/ \E s, t \in Topic : CreateEdge(c, s, t)
        \/ InsertEdge(c)

PrerequisiteSpec == PrerequisiteInit /\ [][PrerequisiteNext]_edgeVars

-----------------------------------------------------------------------------
(***************************************************************************)
(* get_prerequisite_chain and _topological_sort.                           *)
(***************************************************************************)

\* The recursive query: everything that leads to t, t too when it is on a
\* cycle.  (It stops 20 edges away.)
Prerequisites(E, t) == Walk(E, t).met

InDegree(E, T, x) == Cardinality({e \in E : e[2] = x /\ e[1] \in T})

\* Mutant of Released: the degree is tested before it is lowered.
ReleasedLate(degree, x) == degree[x] = 0

\* The edge just taken away was the last into x.
Released(degree, x) == degree[x] - 1 = 0

\* Kahn's algorithm over the topics T, whose order in the queue, that of a
\* set at first, is any.
Kahn(E, T) ==
    LET inner == {e \in E : e[1] \in T /\ e[2] \in T}
        kahn[n \in 0 .. Cardinality(T)] ==
            IF n = 0
            THEN LET degree == [x \in T |-> InDegree(inner, T, x)]
                 IN [degree |-> degree, result |-> <<>>,
                     queue |-> SetToSeq({x \in T : degree[x] = 0})]
            ELSE LET k == kahn[n - 1]
                     x == Head(k.queue)
                     next == {y \in T : <<x, y>> \in inner}
                 IN IF k.queue = <<>> THEN k
                    ELSE [degree |-> [y \in T |-> IF y \in next THEN k.degree[y] - 1
                                                                ELSE k.degree[y]],
                          result |-> Append(k.result, x),
                          queue |-> Tail(k.queue)
                                    \o SetToSeq({y \in next : Released(k.degree, y)})]
    IN kahn[Cardinality(T)].result

Chain(E, t) == Kahn(E, Prerequisites(E, t))

\* get_readiness: what the chain names and the reader has not completed.
Missing(E, done, t) == ToSet(Chain(E, t)) \ done
Ready(E, done, t) == Missing(E, done, t) = {}

-----------------------------------------------------------------------------
(***************************************************************************)
(* get_learning_path: breadth first along outgoing edges, and back by the  *)
(* parents; get_subgraph: breadth first along both, to a depth.            *)
(***************************************************************************)

\* Mutant of Fresh: a topic that was met before is entered again.
FreshOrMet(E, parent, x) == {y \in Topic : <<x, y>> \in E}

Fresh(E, parent, x) == {y \in Topic : <<x, y>> \in E} \ DOMAIN parent

\* Whence the search from a for b came to each topic it met.
Parents(E, a, b) ==
    LET bfs[n \in 0 .. Cardinality(Topic)] ==
            IF n = 0 THEN [queue |-> <<a>>, parent |-> [x \in {a} |-> a]]
            ELSE LET k == bfs[n - 1]
                     x == Head(k.queue)
                     new == Fresh(E, k.parent, x)
                 IN IF k.queue = <<>> \/ x = b THEN k
                    ELSE [queue |-> Tail(k.queue) \o SetToSeq(new),
                          parent |-> [y \in new \cup DOMAIN k.parent |->
                                        IF y \in new THEN x ELSE k.parent[y]]]
    IN bfs[Cardinality(Topic)].parent

\* The steps of the path, none when there is no path (the 404).
LearningPath(E, a, b) ==
    LET parent == Parents(E, a, b)
        back[n \in 0 .. Cardinality(Topic)] ==
            IF n = 0 THEN <<b>>
            ELSE IF back[n - 1][1] = a THEN back[n - 1]
            ELSE <<parent[back[n - 1][1]]>> \o back[n - 1]
    IN IF b \in DOMAIN parent THEN back[Cardinality(Topic)] ELSE <<>>

\* The topics visited from a root in so many rounds, the frontier, and the
\* edges that were fetched on the way.
Subgraph(E, root, depth) ==
    LET walk[n \in 0 .. depth] ==
            IF n = 0 THEN [visited |-> {root}, frontier |-> {root}, edges |-> {}]
            ELSE LET w == walk[n - 1]
                     at == {e \in E : e[1] \in w.frontier \/ e[2] \in w.frontier}
                     new == {x \in Topic : \E e \in at : x \in {e[1], e[2]}} \ w.visited
                 IN [visited |-> w.visited \cup new, frontier |-> new,
                     edges |-> w.edges \cup at]
    IN walk[depth]

-----------------------------------------------------------------------------
(***************************************************************************)
(* What the graph promises.                                                *)
(***************************************************************************)

\* No set of topics each of which waits for another one of them.
Stuck(E, S) == S # {} /\ \A x \in S : \E y \in S : <<y, x>> \in E
Acyclic(E) == \A S \in SUBSET Topic : ~ Stuck(E, S)

\* Editors never close a cycle that the seed did not bring (while requests do
\* not overlap): "Validate no cycle for prerequisite edges" (api/graph.py:122).
EditorsCloseNoCycle == Acyclic(given) => Acyclic(edges)

\* The chain names each prerequisite once and after its own prerequisites; all
\* that it leaves out are those on a cycle, and those that come after one.
ChainIsComplete ==
    \A t \in Topic :
        LET all == Prerequisites(edges, t)
            chain == Chain(edges, t)
            kept == {x \in all : \A S \in SUBSET all : Stuck(edges, S) => x \notin S}
        IN /\ {chain[i] : i \in DOMAIN chain} = kept
           /\ Len(chain) = Cardinality(kept)
           /\ \A i, j \in DOMAIN chain : <<chain[i], chain[j]>> \in edges => i < j

\* Without cycles a reader is ready when nothing the topic needs is missing:
\* "if a user is ready for a topic based on their completed prerequisites"
\* (graph_engine.py:441).
ReadyIsReady ==
    Acyclic(edges) => \A t \in Topic, done \in SUBSET Topic :
                          Ready(edges, done, t) <=> Prerequisites(edges, t) \subseteq done

\* What is reached from a topic along so many edges.
Within(E, a, n) ==
    LET within[k \in 0 .. n] ==
            IF k = 0 THEN {a}
            ELSE within[k - 1] \cup {e[2] : e \in {d \in E : d[1] \in within[k - 1]}}
    IN within[n]

\* The path runs from one topic to the other along edges, it is found if there
\* is one, and none is shorter (graph_engine.py:283).
PathIsShortest ==
    \A a, b \in Topic :
        LET path == LearningPath(edges, a, b)
        IN /\ path = <<>> <=> b \notin Within(edges, a, Cardinality(Topic))
           /\ path # <<>> =>
                 /\ path[1] = a /\ path[Len(path)] = b
                 /\ \A i \in 1 .. Len(path) - 1 : <<path[i], path[i + 1]>> \in edges
                 /\ Len(path) > 1 => b \notin Within(edges, a, Len(path) - 2)

\* A neighbourhood is drawn whole: no edge hangs in the air, and the edges it
\* leaves out are between two topics of the outermost ring.
NeighbourhoodIsWhole ==
    \A root \in Topic, depth \in 1 .. 2 :
        LET drawn == Subgraph(edges, root, depth)
        IN /\ \A e \in drawn.edges : {e[1], e[2]} \subseteq drawn.visited
           /\ \A e \in edges \ drawn.edges :
                 {e[1], e[2]} \subseteq drawn.visited => {e[1], e[2]} \subseteq drawn.frontier
           /\ Within(edges \cup {<<e[2], e[1]>> : e \in edges}, root, depth) = drawn.visited

\* Editors close no cycle; a chain leaves out what is on one or after it; and
\* who is ready, the shortest path and a neighbourhood are as the edges say.
\* (What is asked of a graph is asked when no edge waits to be added to it,
\* and every graph there is has such a state.)
EdgesHold ==
    /\ EditorsCloseNoCycle
    /\ (\A c \in Editor : adding[c] = NoEdge)
       => ChainIsComplete /\ ReadyIsReady /\ PathIsShortest /\ NeighbourhoodIsWhole

=============================================================================
