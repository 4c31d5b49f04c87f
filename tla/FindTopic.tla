------------------------------- MODULE FindTopic -------------------------------
(***************************************************************************)
(* Finding a topic and a way to it: the search box of the home page and of *)
(* the Ctrl-K modal (SearchDropdown.tsx), and the learning-path page       *)
(* (LearningPath.tsx) with its two topic boxes.                            *)
(***************************************************************************)
EXTENDS Integers, FiniteSets

CONSTANTS
    Word,      \* texts that are long enough to be searched for
    Found,     \* Found[w]: how many topics the server finds
    Place,     \* topics that a path starts at or leads to
    Popular,   \* POPULAR_PATHS: pairs of topics
    NoWord, NoPlace,
    MaxSearches, MaxPaths   \* bounds on requests

ASSUME FindAssumption ==
    /\ Found \in [Word -> Nat]
    /\ Popular \subseteq Place \X Place
    /\ NoWord \notin Word /\ NoPlace \notin Place
    /\ MaxSearches \in Nat /\ MaxPaths \in Nat \ {0}

VARIABLES
    box,       \* the search box: query, results and their text, selectedIdx
    debounce,  \* the timer is set, for the query of the box
    searches,  \* searches not answered
    sought,    \* searches sent
    way,       \* the path page: from, to, loading, path
    boxes,    \* which topic box is open, and which show nothing
    wayfinds,  \* getLearningPath calls not answered
    wayAsked,  \* the pair that was asked for last
    wayCount   \* calls made

boxVars == <<box, debounce, searches, sought>>
wayVars == <<way, boxes, wayfinds, wayAsked, wayCount>>
findVars == <<boxVars, wayVars>>

Pair == Place \X Place
NoPair == <<NoPlace, NoPlace>>
Side == {"from", "to"}

FindTypeOK ==
    /\ box \in [query : Word \cup {NoWord}, shown : Word \cup {NoWord},
                at : Int, failed : BOOLEAN]
    /\ debounce \in BOOLEAN
    /\ searches \subseteq [n : 1 .. MaxSearches, word : Word]
    /\ sought \in 0 .. MaxSearches
    /\ way \in [from : Place \cup {NoPlace}, to : Place \cup {NoPlace},
                loading : BOOLEAN, failed : BOOLEAN, path : Pair \cup {NoPair}]
    /\ boxes \in [open : Side \cup {"none"}, blank : SUBSET Side]
    /\ wayfinds \subseteq [n : 1 .. MaxPaths, pair : Pair]
    /\ wayAsked \in Pair \cup {NoPair}
    /\ wayCount \in 0 .. MaxPaths

-----------------------------------------------------------------------------
(***************************************************************************)
(* The search box.                                                         *)
(***************************************************************************)

Hits == IF box.shown = NoWord THEN 0 ELSE Found[box.shown]

\* search: a short text empties the box at once, and cancels the timer, not
\* what was sent.
TypeWord(w) ==
    /\ w # box.query
    /\ box' = [box EXCEPT !.query = w, !.at = 0,
                          !.shown = IF w = NoWord THEN NoWord ELSE @,
                          !.failed = IF w = NoWord THEN FALSE ELSE @]
    /\ debounce' = (w # NoWord)
    /\ UNCHANGED <<searches, sought, wayVars>>

SearchSent ==
    /\ debounce /\ sought < MaxSearches
    /\ debounce' = FALSE
    /\ sought' = sought + 1
    /\ searches' = searches \cup {[n |-> sought + 1, word |-> box.query]}
    /\ UNCHANGED <<box, wayVars>>

\* Any search's answer is shown, whatever is in the box by then.
SearchAnswers(s) ==
    /\ s \in searches
    /\ searches' = searches \ {s}
    /\ box' = [box EXCEPT !.shown = s.word, !.failed = FALSE]
    /\ UNCHANGED <<debounce, sought, wayVars>>

SearchFails(s) ==
    /\ s \in searches
    /\ searches' = searches \ {s}
    /\ box' = [box EXCEPT !.shown = NoWord, !.failed = TRUE]
    /\ UNCHANGED <<debounce, sought, wayVars>>

\* The arrow keys: down stops at the last result, which is -1 of none.
Arrow(step) ==
    /\ LET next == box.at + step
       IN  box' = [box EXCEPT !.at = IF step > 0
                                     THEN IF next > Hits - 1 THEN Hits - 1 ELSE next
                                     ELSE IF next < 0 THEN 0 ELSE next]
    /\ box' # box
    /\ UNCHANGED <<debounce, searches, sought, wayVars>>

-----------------------------------------------------------------------------
(***************************************************************************)
(* The path page.                                                          *)
(***************************************************************************)

\* findPath
FindPath(f, t) ==
    /\ wayCount < MaxPaths
    /\ wayCount' = wayCount + 1
    /\ wayfinds' = wayfinds \cup {[n |-> wayCount + 1, pair |-> <<f, t>>]}
    /\ wayAsked' = <<f, t>>
    /\ way' = [way EXCEPT !.from = f, !.to = t, !.loading = TRUE, !.failed = FALSE]

\* The page opens with ?from= and ?to=, and asks at once when both are there.
FindInit ==
    \E f, t \in Place \cup {NoPlace} :
    LET both == f # NoPlace /\ t # NoPlace
    IN  /\ way = [from |-> f, to |-> t, loading |-> both, failed |-> FALSE, path |-> NoPair]
        /\ boxes = [open |-> "none", blank |-> {}]
        /\ wayfinds = IF both THEN {[n |-> 1, pair |-> <<f, t>>]} ELSE {}
        /\ wayAsked = IF both THEN <<f, t>> ELSE NoPair
        /\ wayCount = IF both THEN 1 ELSE 0
        /\ box = [query |-> NoWord, shown |-> NoWord, at |-> 0, failed |-> FALSE]
        /\ debounce = FALSE /\ searches = {} /\ sought = 0

\* TopicSearchInput: focus opens the list, typing blanks what the closed box
\* displays, a choice and the clear button set the value.
OpenSide(s) ==
    /\ boxes.open = "none"
    /\ boxes' = [boxes EXCEPT !.open = s]
    /\ UNCHANGED <<boxVars, way, wayfinds, wayAsked, wayCount>>

TypeInSide ==
    /\ boxes.open # "none" /\ boxes.open \notin boxes.blank
    /\ boxes' = [boxes EXCEPT !.blank = @ \cup {boxes.open}]
    /\ UNCHANGED <<boxVars, way, wayfinds, wayAsked, wayCount>>

LeaveSide ==
    /\ boxes.open # "none"
    /\ boxes' = [boxes EXCEPT !.open = "none"]
    /\ UNCHANGED <<boxVars, way, wayfinds, wayAsked, wayCount>>

ChooseSide(p) ==
    /\ boxes.open # "none"
    /\ way' = IF boxes.open = "from" THEN [way EXCEPT !.from = p] ELSE [way EXCEPT !.to = p]
    /\ boxes' = [open |-> "none", blank |-> boxes.blank \ {boxes.open}]
    /\ UNCHANGED <<boxVars, wayfinds, wayAsked, wayCount>>

ClearSide(s) ==
    /\ way[s] # NoPlace
    /\ way' = IF s = "from" THEN [way EXCEPT !.from = NoPlace] ELSE [way EXCEPT !.to = NoPlace]
    /\ boxes' = [open |-> s, blank |-> boxes.blank \ {s}]
    /\ UNCHANGED <<boxVars, wayfinds, wayAsked, wayCount>>

\* Mutant of Ready: the button does not wait for the answer.
ReadyAtOnce == way.from # NoPlace /\ way.to # NoPlace

Ready == ~way.loading /\ way.from # NoPlace /\ way.to # NoPlace

ClickFind ==
    /\ Ready
    /\ FindPath(way.from, way.to)
    /\ UNCHANGED <<boxVars, boxes>>

\* The popular paths are there while no path is.
ClickPopular(p) ==
    /\ way.path = NoPair /\ ~way.loading
    /\ FindPath(p[1], p[2])
    /\ boxes' = [boxes EXCEPT !.blank = {s \in @ : way'[s] = way[s]}]
    /\ UNCHANGED boxVars

PathAnswers(f) ==
    /\ f \in wayfinds
    /\ wayfinds' = wayfinds \ {f}
    /\ way' = [way EXCEPT !.path = f.pair, !.loading = FALSE]
    /\ UNCHANGED <<boxVars, boxes, wayAsked, wayCount>>

\* Mutant of NoPath: the path of an earlier search stays under the error.
PathKept == way.path

NoPath == NoPair

PathFails(f) ==
    /\ f \in wayfinds
    /\ wayfinds' = wayfinds \ {f}
    /\ way' = [way EXCEPT !.path = NoPath, !.failed = TRUE, !.loading = FALSE]
    /\ UNCHANGED <<boxVars, boxes, wayAsked, wayCount>>

SearchNext ==
    \/ \E w \in Word \cup {NoWord} : TypeWord(w)
    \/ SearchSent
    \/ \E s \in searches : SearchAnswers(s) \/ SearchFails(s)
    \/ \E step \in {-1, 1} : Arrow(step)

PathReplies == \E f \in wayfinds : PathAnswers(f) \/ PathFails(f)

PathNext ==
    \/ \E s \in Side : OpenSide(s) \/ ClearSide(s)
    \/ TypeInSide \/ LeaveSide
    \/ \E p \in Place : ChooseSide(p)
    \/ ClickFind
    \/ \E p \in Popular : ClickPopular(p)
    \/ PathReplies

FindSpec ==
    FindInit /\ [][SearchNext \/ PathNext]_findVars /\ WF_wayVars(PathReplies)

-----------------------------------------------------------------------------
(***************************************************************************)
(* What the path page promises.                                            *)
(***************************************************************************)

\* A path that is shown is the answer to the last question, although no
\* request is ever cancelled: the page never has two under way.
PathIsTheAsked ==
    /\ Cardinality(wayfinds) <= 1
    /\ ~way.loading /\ way.path # NoPair => way.path = wayAsked
=============================================================================
