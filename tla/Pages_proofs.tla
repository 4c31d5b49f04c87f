----------------------------- MODULE Pages_proofs -----------------------------
(***************************************************************************)
(* Theorems about the pages that keep requests under way, and about the    *)
(* practice on a topic: one section a page, each about the page's own      *)
(* specification and for any of the sets and bounds it is declared with.   *)
(***************************************************************************)
EXTENDS Practice, TopicPage, SessionPage, ForkEditorPage, ReviewQueuePage, ProfilePages,
        RunnerBlock, FindTopic, StepFigures, FiniteSetTheorems, TLAPS

-----------------------------------------------------------------------------
(***************************************************************************)
(* The code runner.                                                        *)
(***************************************************************************)

\* A start by sight is remembered by the block that it started.
StartsRemembered == autos = 0 \/ (autos = 1 /\ run.autoRan)

RunnerInv == RunnerTypeOK /\ StartsRemembered /\ RunningIsTrue

-----------------------------------------------------------------------------
(***************************************************************************)
(* run: whether it sends a request or shows the card, it keeps the record  *)
(* of a start by sight, and "Running" has a request of this mount.         *)
(***************************************************************************)

RunState == [code : Code, result : Code \cup {"none", "error"}, running : BOOLEAN,
          shown : BOOLEAN, card : BOOLEAN, autoRan : BOOLEAN, pending : BOOLEAN]

RunRequest == [n : 1 .. MaxRuns, code : Code, by : {"yes", "expired"}, mount : 1 .. MaxMounts]

LEMMA RunFromLemma ==
  ASSUME RunnerInv, NEW r \in RunState, r.running = run.running,
         NEW t \in {"no", "yes", "expired"}, RunFrom(r, t), mounts' = mounts
  PROVE  /\ run' \in RunState /\ runs' \subseteq RunRequest /\ asked' \in 0 .. MaxRuns
         /\ run'.autoRan = r.autoRan
         /\ RunningIsTrue'
<1>1. CASE t = "no"
  BY ZenonT(60), <1>1 DEF RunnerInv, RunnerTypeOK, RunFrom, RunState, RunRequest, RunningIsTrue
<1>2. CASE t # "no"
  <2> DEFINE f == [n |-> asked + 1, code |-> r.code, by |-> t, mount |-> mounts]
  <2>1. /\ runs' = runs \cup {f} /\ asked < MaxRuns /\ asked' = asked + 1
        /\ run' = [r EXCEPT !.card = FALSE, !.running = TRUE, !.result = "none"]
    BY <1>2 DEF RunFrom
  <2>2. asked' \in 1 .. MaxRuns
    BY <2>1, RunnerAssumption DEF RunnerInv, RunnerTypeOK
  <2>3. f \in RunRequest
    BY <1>2, <2>1, <2>2 DEF RunnerInv, RunnerTypeOK, RunRequest, RunState
  <2>4. run' \in RunState /\ run'.autoRan = r.autoRan
    BY <2>1 DEF RunState
  <2>5. f \in runs' /\ f.mount = mounts'
    BY <2>1
  <2>6. RunningIsTrue'
    BY <2>5 DEF RunningIsTrue
  <2> QED BY <2>1, <2>2, <2>3, <2>4, <2>6 DEF RunnerInv, RunnerTypeOK, RunRequest
<1> QED BY <1>1, <1>2

-----------------------------------------------------------------------------
(***************************************************************************)
(* Answers.                                                                *)
(***************************************************************************)

LEMMA RunAnswersLemma ==
  ASSUME RunnerInv, NEW f \in runs, RunAnswers(f) \/ RunFails(f)
  PROVE  RunnerInv'
<1>1. /\ runs' = runs \ {f} /\ UNCHANGED <<signed, block, asked, mounts, autos>>
      /\ f \in RunRequest /\ run \in RunState
  BY DEF RunAnswers, RunFails, RunnerInv, RunnerTypeOK, RunRequest, RunState
<1>2. /\ run' \in RunState /\ run'.autoRan = run.autoRan
      /\ IF f.mount = mounts THEN ~run'.running ELSE run' = run
  BY ZenonT(60), <1>1 DEF RunAnswers, RunFails, NotRunning, RunState, RunRequest, Code
<1>3. RunnerTypeOK'
  BY <1>1, <1>2 DEF RunnerInv, RunnerTypeOK, RunState
<1>4. StartsRemembered'
  BY <1>1, <1>2 DEF RunnerInv, StartsRemembered
\* An answer of another mount is not the request that this one awaits.
<1>5. RunningIsTrue'
  BY <1>1, <1>2 DEF RunnerInv, RunningIsTrue
<1> QED BY <1>3, <1>4, <1>5 DEF RunnerInv

-----------------------------------------------------------------------------
LEMMA RunnerStarts == RunnerInit => RunnerInv
  BY RunnerAssumption
  DEF RunnerInit, Mounted, Code, RunnerInv, RunnerTypeOK, StartsRemembered, RunningIsTrue

LEMMA RunnerInvStep == RunnerInv /\ [RunnerNext]_runnerVars => RunnerInv'
<1> SUFFICES ASSUME RunnerInv, [RunnerNext]_runnerVars PROVE RunnerInv'
  OBVIOUS
<1>t. run \in RunState /\ signed \in {"no", "yes", "expired"}
  BY DEF RunnerInv, RunnerTypeOK, RunState
<1>1. CASE ClickRun
  BY <1>1, <1>t, RunFromLemma
  DEF ClickRun, RunnerInv, RunnerTypeOK, RunState, RunRequest, StartsRemembered
<1>2. CASE ScrollIntoView
  <2> DEFINE r == [run EXCEPT !.autoRan = TRUE]
  <2>1. r \in RunState /\ r.running = run.running /\ r.autoRan
    BY <1>t DEF RunState
  <2>2. autos = 0
    BY <1>2 DEF ScrollIntoView, FirstSight, RunnerInv, StartsRemembered
  <2>3. RunFrom(r, signed) /\ autos' = 1 /\ UNCHANGED <<signed, block, mounts>>
    BY <1>2, <2>2 DEF ScrollIntoView
  <2> HIDE DEF r
  <2>4. /\ run' \in RunState /\ runs' \subseteq RunRequest /\ asked' \in 0 .. MaxRuns
        /\ run'.autoRan /\ RunningIsTrue'
    BY <2>1, <2>3, <1>t, RunFromLemma
  <2> QED BY <2>3, <2>4 DEF RunnerInv, RunnerTypeOK, RunState, RunRequest, StartsRemembered
<1>3. CASE \E f \in runs : RunAnswers(f) \/ RunFails(f)
  BY <1>3, RunAnswersLemma
<1>4. CASE RunnerSignedIn
  <2> DEFINE r == [run EXCEPT !.pending = FALSE, !.card = FALSE]
  <2>1. r \in RunState /\ r.running = run.running /\ r.autoRan = run.autoRan
    BY <1>t DEF RunState
  <2>2. signed' = "yes" /\ UNCHANGED <<block, mounts, autos>>
    BY <1>4 DEF RunnerSignedIn
  <2>3. CASE run.pending
    <3>1. RunFrom(r, "yes")
      BY <1>4, <2>3 DEF RunnerSignedIn
    <3> HIDE DEF r
    <3>2. /\ run' \in RunState /\ runs' \subseteq RunRequest /\ asked' \in 0 .. MaxRuns
          /\ run'.autoRan = run.autoRan /\ RunningIsTrue'
      BY <2>1, <2>2, <3>1, RunFromLemma
    <3> QED BY <2>2, <3>2 DEF RunnerInv, RunnerTypeOK, RunState, RunRequest, StartsRemembered
  <2>4. CASE ~run.pending
    BY <1>4, <2>2, <2>4
    DEF RunnerSignedIn, RunnerInv, RunnerTypeOK, StartsRemembered, RunningIsTrue
  <2> QED BY <2>3, <2>4
<1>5. CASE SignInToRun
  BY <1>5 DEF SignInToRun, RunnerInv, RunnerTypeOK, StartsRemembered, RunningIsTrue
<1>6. CASE \E to \in {"no", "expired"} : TokenGoes(to)
  BY <1>6 DEF TokenGoes, RunnerInv, RunnerTypeOK, StartsRemembered, RunningIsTrue
<1>7. CASE Edit
  BY <1>7 DEF Edit, Code, RunnerInv, RunnerTypeOK, StartsRemembered, RunningIsTrue
<1>8. CASE ResetCode
  BY <1>8 DEF ResetCode, Code, RunnerInv, RunnerTypeOK, StartsRemembered, RunningIsTrue
<1>9. CASE FlipLanguage
  BY <1>9, RunnerAssumption
  DEF FlipLanguage, Mounted, Code, RunnerInv, RunnerTypeOK, StartsRemembered, RunningIsTrue
<1>10. CASE UNCHANGED runnerVars
  BY <1>10 DEF runnerVars, RunnerInv, RunnerTypeOK, StartsRemembered, RunningIsTrue
<1> QED BY <1>1, <1>2, <1>3, <1>4, <1>5, <1>6, <1>7, <1>8, <1>9, <1>10 DEF RunnerNext

\* A simulation starts by itself once, and "Running" has a request of the same
\* mount behind it, in every behaviour of the block (CodeRunner.tsx: run, the
\* effects of auto_run and of the token).
THEOREM RunnerIsTrue == RunnerSpec => []RunnerHolds
<1>1. RunnerInv => RunnerHolds
  BY DEF RunnerInv, StartsRemembered, RunnerHolds, AutoRunsOnce
<1> QED BY <1>1, RunnerStarts, RunnerInvStep, PTL DEF RunnerSpec

\* The state of the block and its requests keep their types.
THEOREM RunnerTypeCorrect == RunnerSpec => []RunnerTypeOK
<1>1. RunnerInv => RunnerTypeOK
  BY DEF RunnerInv
<1> QED BY <1>1, RunnerStarts, RunnerInvStep, PTL DEF RunnerSpec

-----------------------------------------------------------------------------
(***************************************************************************)
(* The search and path pages.                                              *)
(***************************************************************************)

\* What is under way is one request, of the pair that was asked for last, and
\* only while the page loads.
OneAsked ==
    /\ ~way.loading => wayfinds = {}
    /\ \A f, g \in wayfinds : f = g
    /\ \A f \in wayfinds : f.pair = wayAsked

WayShown == ~way.loading /\ way.path # NoPair => way.path = wayAsked

\* The path page's own part of FindTypeOK, as far as it is needed.
WayType ==
    /\ way \in [from : Place \cup {NoPlace}, to : Place \cup {NoPlace},
                loading : BOOLEAN, failed : BOOLEAN, path : Pair \cup {NoPair}]
    /\ wayfinds \subseteq [n : 1 .. MaxPaths, pair : Pair]
    /\ wayCount \in 0 .. MaxPaths

WayInv == WayType /\ OneAsked /\ WayShown

-----------------------------------------------------------------------------
LEMMA FindStarts == FindInit => WayInv
<1> SUFFICES ASSUME FindInit PROVE WayInv
  OBVIOUS
<1>1. PICK f, t \in Place \cup {NoPlace} :
        LET both == f # NoPlace /\ t # NoPlace
        IN  /\ way = [from |-> f, to |-> t, loading |-> both, failed |-> FALSE,
                      path |-> NoPair]
            /\ wayfinds = IF both THEN {[n |-> 1, pair |-> <<f, t>>]} ELSE {}
            /\ wayAsked = IF both THEN <<f, t>> ELSE NoPair
            /\ wayCount = IF both THEN 1 ELSE 0
  BY Zenon DEF FindInit
<1>2. CASE f # NoPlace /\ t # NoPlace
  <2>1. f \in Place /\ t \in Place /\ 1 \in 1 .. MaxPaths
    BY <1>2, FindAssumption
  <2>2. /\ wayfinds = {[n |-> 1, pair |-> <<f, t>>]} /\ wayAsked = <<f, t>>
        /\ wayCount = 1
    BY <1>1, <1>2
  <2>3. way.loading = (f # NoPlace /\ t # NoPlace)
    BY <1>1
  <2>4. way.loading
    BY <1>2, <2>3
  <2>5. /\ OneAsked /\ WayShown
        /\ wayfinds \subseteq [n : 1 .. MaxPaths, pair : Pair]
    BY <2>1, <2>2, <2>4 DEF OneAsked, WayShown, Pair
  <2> QED BY <1>1, <2>1, <2>2, <2>5 DEF WayInv, WayType
<1>3. CASE ~(f # NoPlace /\ t # NoPlace)
  <2>1. wayfinds = {} /\ way.path = NoPair /\ wayCount = 0
    BY <1>1, <1>3
  <2> QED BY <1>1, <2>1, FindAssumption DEF WayInv, WayType, OneAsked, WayShown
<1> QED BY <1>2, <1>3

\* The form and the popular paths ask only while nothing is under way.
LEMMA FindPathLemma ==
  ASSUME WayInv, ~way.loading, NEW f \in Place, NEW t \in Place, FindPath(f, t)
  PROVE  WayInv'
<1> DEFINE q == [n |-> wayCount + 1, pair |-> <<f, t>>]
<1>1. wayfinds' = {q} /\ wayAsked' = <<f, t>> /\ way'.loading
  BY DEF FindPath, WayInv, WayType, OneAsked
<1>2. wayCount' \in 1 .. MaxPaths /\ wayCount' = wayCount + 1
  BY FindAssumption DEF FindPath, WayInv, WayType
<1>3. q \in [n : 1 .. MaxPaths, pair : Pair]
  BY <1>2 DEF Pair
<1>4. way' \in [from : Place \cup {NoPlace}, to : Place \cup {NoPlace},
                loading : BOOLEAN, failed : BOOLEAN, path : Pair \cup {NoPair}]
  BY DEF FindPath, WayInv, WayType
<1>5. WayType'
  BY <1>1, <1>2, <1>3, <1>4 DEF WayType
<1> QED BY <1>1, <1>5 DEF WayInv, OneAsked, WayShown

LEMMA PathReplyLemma ==
  ASSUME WayInv, NEW f \in wayfinds, PathAnswers(f) \/ PathFails(f)
  PROVE  WayInv'
<1>1. wayfinds' = {} /\ UNCHANGED <<wayAsked, wayCount>>
  BY DEF PathAnswers, PathFails, WayInv, OneAsked
<1>2. f.pair \in Pair /\ f.pair = wayAsked
  BY DEF WayInv, WayType, OneAsked
<1>3. /\ ~way'.loading /\ way'.path \in {f.pair, NoPair}
      /\ way' \in [from : Place \cup {NoPlace}, to : Place \cup {NoPlace},
                   loading : BOOLEAN, failed : BOOLEAN, path : Pair \cup {NoPair}]
  BY <1>2 DEF PathAnswers, PathFails, NoPath, WayInv, WayType
<1> QED BY <1>1, <1>2, <1>3 DEF WayInv, WayType, OneAsked, WayShown

\* Choosing and clearing the ends leaves the path and the request alone.
LEMMA SideLemma ==
  ASSUME WayInv, NEW p \in Place \cup {NoPlace}, NEW s \in Side,
         way' = IF s = "from" THEN [way EXCEPT !.from = p] ELSE [way EXCEPT !.to = p],
         UNCHANGED <<wayfinds, wayAsked, wayCount>>
  PROVE  WayInv'
  BY DEF WayInv, WayType, OneAsked, WayShown

LEMMA WayInvStep == WayInv /\ [SearchNext \/ PathNext]_findVars => WayInv'
<1> SUFFICES ASSUME WayInv, [SearchNext \/ PathNext]_findVars PROVE WayInv'
  OBVIOUS
<1>1. CASE UNCHANGED <<way, wayfinds, wayAsked, wayCount>>
  BY <1>1 DEF WayInv, WayType, OneAsked, WayShown
<1>2. CASE SearchNext
  BY <1>1, <1>2
  DEF SearchNext, TypeWord, SearchSent, SearchAnswers, SearchFails, Arrow, wayVars
<1>3. ASSUME NEW s \in Side, OpenSide(s) \/ ClearSide(s) PROVE WayInv'
  <2>1. CASE OpenSide(s)
    BY <1>1, <2>1 DEF OpenSide
  <2>2. CASE ClearSide(s)
    BY <2>2, SideLemma DEF ClearSide
  <2> QED BY <1>3, <2>1, <2>2
<1>4. CASE TypeInSide \/ LeaveSide
  BY <1>1, <1>4 DEF TypeInSide, LeaveSide
<1>5. ASSUME NEW p \in Place, ChooseSide(p) PROVE WayInv'
  <2>1. PICK s \in Side : s = "from" <=> boxes.open = "from"
    BY DEF Side
  <2>2. /\ way' = IF s = "from" THEN [way EXCEPT !.from = p] ELSE [way EXCEPT !.to = p]
        /\ UNCHANGED <<wayfinds, wayAsked, wayCount>>
    BY <1>5, <2>1 DEF ChooseSide
  <2> QED BY <2>2, SideLemma
<1>6. CASE ClickFind
  <2>1. /\ way.from \in Place /\ way.to \in Place /\ ~way.loading
        /\ FindPath(way.from, way.to)
    BY <1>6 DEF ClickFind, Ready, WayInv, WayType
  <2> QED BY <2>1, FindPathLemma
<1>7. ASSUME NEW p \in Popular, ClickPopular(p) PROVE WayInv'
  <2>1. p[1] \in Place /\ p[2] \in Place /\ ~way.loading /\ FindPath(p[1], p[2])
    BY <1>7, FindAssumption DEF ClickPopular
  <2> QED BY <2>1, FindPathLemma
<1>8. CASE PathReplies
  BY <1>8, PathReplyLemma DEF PathReplies
<1>9. CASE UNCHANGED findVars
  BY <1>1, <1>9 DEF findVars, wayVars
<1> QED BY <1>2, <1>3, <1>4, <1>5, <1>6, <1>7, <1>8, <1>9 DEF PathNext

\* A path that is shown is the answer to the last question, and the page has
\* never two requests under way (LearningPath.tsx: findPath, the disabled
\* button, and the popular paths that are hidden while it loads).
THEOREM PathIsAlwaysTheAsked == FindSpec => []PathIsTheAsked
<1>1. ASSUME WayInv PROVE PathIsTheAsked
  <2>1. ASSUME wayfinds = {} PROVE Cardinality(wayfinds) <= 1
    BY <2>1, FS_EmptySet
  <2>2. ASSUME wayfinds # {} PROVE Cardinality(wayfinds) <= 1
    <3>1. PICK f : wayfinds = {f}
      BY <1>1, <2>2 DEF WayInv, OneAsked
    <3>2. Cardinality({f}) = 1
      BY FS_Singleton
    <3> QED BY <3>1, <3>2
  <2>3. Cardinality(wayfinds) <= 1
    BY <2>1, <2>2
  <2> QED BY <1>1, <2>3 DEF PathIsTheAsked, WayInv, WayShown
<1> QED BY <1>1, FindStarts, WayInvStep, PTL DEF FindSpec

-----------------------------------------------------------------------------
\* The rest of FindTypeOK: the timer is set for a text that can be searched.
BoxInv ==
    /\ box \in [query : Word \cup {NoWord}, shown : Word \cup {NoWord},
                at : Int, failed : BOOLEAN]
    /\ debounce \in BOOLEAN
    /\ debounce => box.query \in Word
    /\ searches \subseteq [n : 1 .. MaxSearches, word : Word]
    /\ sought \in 0 .. MaxSearches
    /\ boxes \in [open : Side \cup {"none"}, blank : SUBSET Side]
    /\ wayAsked \in Pair \cup {NoPair}

FindInv == WayInv /\ BoxInv

LEMMA BoxStarts == FindInit => BoxInv
<1>. SUFFICES ASSUME FindInit PROVE BoxInv
  OBVIOUS
<1>1. PICK f, t \in Place \cup {NoPlace} :
        /\ boxes = [open |-> "none", blank |-> {}]
        /\ wayAsked = IF f # NoPlace /\ t # NoPlace THEN <<f, t>> ELSE NoPair
        /\ box = [query |-> NoWord, shown |-> NoWord, at |-> 0, failed |-> FALSE]
        /\ debounce = FALSE /\ searches = {} /\ sought = 0
  BY Zenon DEF FindInit
<1>2. wayAsked \in Pair \cup {NoPair}
  BY <1>1 DEF Pair
<1>3. sought \in 0 .. MaxSearches
  BY <1>1, FindAssumption
<1>4. /\ box \in [query : Word \cup {NoWord}, shown : Word \cup {NoWord},
                 at : Int, failed : BOOLEAN]
      /\ boxes \in [open : Side \cup {"none"}, blank : SUBSET Side]
  BY <1>1
<1>5. debounce \in BOOLEAN /\ (debounce => box.query \in Word) /\ searches = {}
  BY <1>1
<1>. QED
  BY <1>2, <1>3, <1>4, <1>5 DEF BoxInv

LEMMA SearchBoxStep ==
  ASSUME BoxInv, SearchNext
  PROVE  BoxInv'
<1>1. UNCHANGED <<boxes, wayAsked>>
  BY DEF SearchNext, TypeWord, SearchSent, SearchAnswers, SearchFails, Arrow, wayVars
<1>2. ASSUME NEW w \in Word \cup {NoWord}, TypeWord(w) PROVE BoxInv'
  <2>1. box' \in [query : Word \cup {NoWord}, shown : Word \cup {NoWord},
                  at : Int, failed : BOOLEAN] /\ box'.query = w
    <3>1. PICK v \in Word \cup {NoWord}, b \in BOOLEAN :
            box' = [box EXCEPT !.query = w, !.at = 0, !.shown = v, !.failed = b]
      <4>1. CASE w = NoWord
        BY <1>2, <4>1 DEF TypeWord, BoxInv
      <4>2. CASE w # NoWord
        BY <1>2, <4>2 DEF TypeWord, BoxInv
      <4>. QED
        BY <4>1, <4>2
    <3>2. box \in [query : Word \cup {NoWord}, shown : Word \cup {NoWord},
                   at : Int, failed : BOOLEAN] /\ 0 \in Int
      BY DEF BoxInv
    <3>3. box' = [query |-> w, shown |-> v, at |-> 0, failed |-> b]
      BY <3>1, <3>2
    <3>. QED
      BY <3>2, <3>3
  <2>2. debounce' = (w # NoWord) /\ UNCHANGED <<searches, sought>>
    BY <1>2 DEF TypeWord
  <2>3. debounce' \in BOOLEAN /\ (debounce' => w \in Word)
    BY <2>2
  <2>. QED
    BY <1>1, <2>1, <2>2, <2>3 DEF BoxInv
<1>3. CASE SearchSent
  <2>1. sought + 1 \in 1 .. MaxSearches /\ box.query \in Word
    BY <1>3, FindAssumption DEF SearchSent, BoxInv
  <2>2. [n |-> sought + 1, word |-> box.query] \in [n : 1 .. MaxSearches, word : Word]
    BY <2>1
  <2>3. /\ UNCHANGED box /\ debounce' = FALSE /\ sought' = sought + 1
        /\ searches' = searches \cup {[n |-> sought + 1, word |-> box.query]}
    BY <1>3 DEF SearchSent
  <2>4. searches' \subseteq [n : 1 .. MaxSearches, word : Word] /\ sought' \in 0 .. MaxSearches
    BY <2>1, <2>2, <2>3, FindAssumption DEF BoxInv
  <2>. QED
    BY <1>1, <2>3, <2>4 DEF BoxInv
<1>4. ASSUME NEW s \in searches, SearchAnswers(s) \/ SearchFails(s) PROVE BoxInv'
  <2>1. s.word \in Word
    BY DEF BoxInv
  <2>2. /\ box' \in [query : Word \cup {NoWord}, shown : Word \cup {NoWord},
                     at : Int, failed : BOOLEAN]
        /\ box'.query = box.query
    BY <1>4, <2>1 DEF SearchAnswers, SearchFails, BoxInv
  <2>. QED
    BY <1>1, <1>4, <2>2 DEF SearchAnswers, SearchFails, BoxInv
<1>5. ASSUME NEW step \in {-1, 1}, Arrow(step) PROVE BoxInv'
  <2>1. Hits \in Nat /\ box.at \in Int
    BY FindAssumption DEF Hits, BoxInv
  <2>2. PICK n \in Int : box' = [box EXCEPT !.at = n]
    <3>. DEFINE to == IF step > 0 THEN IF box.at + step > Hits - 1 THEN Hits - 1 ELSE box.at + step
                      ELSE IF box.at + step < 0 THEN 0 ELSE box.at + step
    <3>1. box' = [box EXCEPT !.at = to]
      BY <1>5 DEF Arrow
    <3>2. to \in Int
      BY <2>1
    <3>. QED
      BY <3>1, <3>2
  <2>3. /\ box' \in [query : Word \cup {NoWord}, shown : Word \cup {NoWord},
                     at : Int, failed : BOOLEAN]
        /\ box'.query = box.query
    BY <2>2 DEF BoxInv
  <2>. QED
    BY <1>1, <1>5, <2>3 DEF Arrow, BoxInv
<1>. QED
  BY <1>2, <1>3, <1>4, <1>5 DEF SearchNext

LEMMA AskedLemma ==
  ASSUME BoxInv, NEW f \in Place, NEW t \in Place, FindPath(f, t), UNCHANGED boxVars,
         boxes' \in [open : Side \cup {"none"}, blank : SUBSET Side]
  PROVE  BoxInv'
  BY DEF BoxInv, FindPath, boxVars, Pair

LEMMA PathBoxStep ==
  ASSUME WayInv, BoxInv, PathNext
  PROVE  BoxInv'
<1>1. CASE /\ UNCHANGED <<boxVars, wayAsked>>
           /\ boxes' \in [open : Side \cup {"none"}, blank : SUBSET Side]
  BY <1>1 DEF BoxInv, boxVars
<1>2. boxes.open \in Side \cup {"none"} /\ boxes.blank \in SUBSET Side
      /\ boxes \in [open : Side \cup {"none"}, blank : SUBSET Side]
  BY DEF BoxInv
<1>3. CASE \E s \in Side : OpenSide(s) \/ ClearSide(s)
  BY <1>1, <1>2, <1>3 DEF OpenSide, ClearSide
<1>4. CASE TypeInSide \/ LeaveSide
  BY <1>1, <1>2, <1>4 DEF TypeInSide, LeaveSide
<1>5. CASE \E p \in Place : ChooseSide(p)
  BY <1>1, <1>2, <1>5 DEF ChooseSide
<1>6. CASE ClickFind
  <2>1. way.from \in Place /\ way.to \in Place
    BY <1>6 DEF ClickFind, Ready, WayInv, WayType
  <2>. QED
    BY <1>2, <1>6, <2>1, AskedLemma DEF ClickFind
<1>7. ASSUME NEW p \in Popular, ClickPopular(p) PROVE BoxInv'
  <2>1. p[1] \in Place /\ p[2] \in Place
    BY FindAssumption
  <2>2. boxes' \in [open : Side \cup {"none"}, blank : SUBSET Side]
    BY <1>2, <1>7 DEF ClickPopular
  <2>. QED
    BY <1>7, <2>1, <2>2, AskedLemma DEF ClickPopular
<1>8. CASE PathReplies
  BY <1>1, <1>2, <1>8 DEF PathReplies, PathAnswers, PathFails
<1>. QED
  BY <1>3, <1>4, <1>5, <1>6, <1>7, <1>8 DEF PathNext

LEMMA FindInvStep == FindInv /\ [SearchNext \/ PathNext]_findVars => FindInv'
<1>1. ASSUME BoxInv, UNCHANGED findVars PROVE BoxInv'
  BY <1>1 DEF BoxInv, findVars, boxVars, wayVars
<1>. QED
  BY <1>1, WayInvStep, SearchBoxStep, PathBoxStep DEF FindInv

LEMMA FindIsTyped == FindInv => FindTypeOK
  BY DEF FindInv, WayInv, WayType, BoxInv, FindTypeOK

\* The search box, the path page and their requests keep their types: the
\* timer is set only for a text that can be searched (SearchDropdown.tsx).
THEOREM FindTypeCorrect == FindSpec => []FindTypeOK
<1>1. FindInv => FindTypeOK
  BY FindIsTyped
<1>2. FindInit => FindInv
  BY FindStarts, BoxStarts DEF FindInv
<1>. QED
  BY <1>1, <1>2, FindInvStep, PTL DEF FindSpec

-----------------------------------------------------------------------------
(***************************************************************************)
(* The steps of a derivation.                                              *)
(***************************************************************************)

LEMMA StepsStart == StepInit => StepTypeOK
  BY StepAssumption DEF StepInit, StepTypeOK

LEMMA StepTypeKept == StepTypeOK /\ [StepNext]_stepVars => StepTypeOK'
<1>. SUFFICES ASSUME StepTypeOK, [StepNext]_stepVars PROVE StepTypeOK'
  OBVIOUS
<1>. USE StepAssumption
<1>1. motion \in [reduced : BOOLEAN, flips : 0 .. MaxFlips]
      /\ motion.flips \in 0 .. MaxFlips /\ motion.reduced \in BOOLEAN
  BY DEF StepTypeOK
<1>2. CASE Intersect
  <2>1. visible' \in 0 .. StepCount
    BY <1>2 DEF Intersect
  <2>2. chains' \in [0 .. MaxFlips -> 0 .. StepCount]
    <3>1. 1 \in 0 .. StepCount
      OBVIOUS
    <3>. QED
      BY <1>2, <3>1 DEF Intersect, StepTypeOK
  <2>. QED
    BY <1>2, <2>1, <2>2 DEF Intersect, StepTypeOK
<1>3. CASE FlipMotion
  <2>1. motion' \in [reduced : BOOLEAN, flips : 0 .. MaxFlips]
    BY <1>1, <1>3 DEF FlipMotion
  <2>. QED
    BY <1>1, <1>3, <2>1 DEF FlipMotion, StepTypeOK
<1>4. ASSUME NEW c \in DOMAIN chains, ChainTick(c) PROVE StepTypeOK'
  <2>1. chains[c] \in 0 .. StepCount /\ chains[c] + 1 \in 0 .. StepCount
    BY <1>4 DEF ChainTick, Running, StepTypeOK
  <2>. QED
    BY <1>4, <2>1 DEF ChainTick, StepTypeOK
<1>5. ASSUME NEW i \in 1 .. StepCount, Reveal(i) PROVE StepTypeOK'
  BY <1>5 DEF Reveal, StepTypeOK
<1>6. CASE UNCHANGED stepVars
  BY <1>6 DEF stepVars, StepTypeOK
<1>. QED
  BY <1>2, <1>3, <1>4, <1>5, <1>6 DEF StepNext

\* However many chains of timers run at a time, no more steps are shown than
\* there are (StepThrough.tsx: tick).
THEOREM StepTypeCorrect == StepSpec => []StepTypeOK
  BY StepsStart, StepTypeKept, PTL DEF StepSpec
-----------------------------------------------------------------------------
(***************************************************************************)
(* The topic page.                                                         *)
(***************************************************************************)

\* The chip's listing was of the page and the user of now: a new page and a
\* new user begin without one.
ChipWasListed == hasFork => Mine(url)

TopicInv == TopicTypeOK /\ BegunWasRead /\ ChipWasListed

LEMMA TopicStarts == TopicInit => TopicInv
<1> SUFFICES ASSUME TopicInit PROVE TopicInv
  OBVIOUS
<1>1. /\ visits \in 0 .. MaxVisits /\ flights \subseteq [n : 1 .. MaxVisits, slug : Slug]
      /\ seed \in [Slug -> Topic] /\ views \in [Slug -> Nat]
  BY TopicPageAssumption DEF TopicInit, Topic
<1>2. listing \in BOOLEAN
  BY Zenon DEF TopicInit
<1> QED BY <1>1, <1>2
  DEF TopicInit, TopicInv, TopicTypeOK, Topic, BegunWasRead, ChipWasListed

\* Seeding and the beacon touch one topic's entry.
LEMMA SeededLemma ==
  ASSUME TopicTypeOK, NEW s \in Slug, NEW t \in Topic
  PROVE  Seeded(s, t) \in [Slug -> Topic] /\ Beacon(s, t) \in [Slug -> Nat]
  BY DEF TopicTypeOK, Seeded, Beacon

LEMMA GoLemma ==
  ASSUME TopicInv, NEW s \in Slug, Go(s)
  PROVE  TopicInv'
<1>1. visits' \in 1 .. MaxVisits /\ visits' = visits + 1
  BY TopicPageAssumption DEF Go, TopicInv, TopicTypeOK
<1>2. seed' \in [Slug -> Topic] /\ views' \in [Slug -> Nat]
  BY SeededLemma DEF Go, TopicInv, TopicTypeOK
<1>3. flights' \subseteq [n : 1 .. MaxVisits, slug : Slug]
  BY <1>1 DEF Go, TopicInv, TopicTypeOK
<1>4. listing' \in BOOLEAN /\ hasFork' = FALSE
  BY Zenon DEF Go, Listing
<1>5. /\ url' = s /\ loading' = TRUE /\ failed' = FALSE
      /\ UNCHANGED <<shown, mode, begun, answered, token, forks, wanted, forking, opened, away>>
  BY DEF Go
<1>7. TopicTypeOK'
  <2>1. /\ url' \in Slug /\ shown' \in Topic /\ loading' \in BOOLEAN /\ failed' \in BOOLEAN
        /\ mode' \in {"scroll", "slides"} /\ visits' \in 0 .. MaxVisits
        /\ begun' \subseteq Slug /\ answered' \subseteq Slug /\ hasFork' \in BOOLEAN
    <3>1. visits' \in 0 .. MaxVisits
      BY <1>1
    <3> QED BY <3>1, <1>4, <1>5 DEF TopicInv, TopicTypeOK
  <2>2. /\ token' \in Reader \cup {NoOne} /\ forks' \subseteq Reader \X Slug
        /\ wanted' \in Topic /\ forking' \in (Reader \X Slug) \cup {NoTopic}
        /\ opened' \subseteq Slug \X Slug /\ away' \in BOOLEAN
    BY <1>5 DEF TopicInv, TopicTypeOK
  <2> QED BY <1>2, <1>3, <1>4, <2>1, <2>2 DEF TopicTypeOK
<1>6. BegunWasRead' /\ ChipWasListed'
  BY DEF Go, Listing, TopicInv, BegunWasRead, ChipWasListed
<1> QED BY <1>6, <1>7 DEF TopicInv

\* A load that is answered late begins the topic that it was of.
LEMMA LoadLemma ==
  ASSUME TopicInv, NEW f \in flights, Loaded(f) \/ LoadFails(f)
  PROVE  TopicInv'
<1>1. f.slug \in Slug /\ f.slug \in Topic
  BY DEF TopicInv, TopicTypeOK, Topic
<1>2. CASE Loaded(f)
  <2>1. seed' \in [Slug -> Topic] /\ views' \in [Slug -> Nat]
    <3>1. url \in Slug /\ TopicTypeOK
      BY DEF TopicInv, TopicTypeOK
    <3>2. /\ Seeded(url, f.slug) \in [Slug -> Topic] /\ seed \in [Slug -> Topic]
          /\ Beacon(url, f.slug) \in [Slug -> Nat] /\ views \in [Slug -> Nat]
      BY <1>1, <3>1, SeededLemma DEF TopicTypeOK
    <3> QED BY <1>2, <3>2 DEF Loaded
  <2>2. TopicTypeOK'
    BY <1>1, <1>2, <2>1 DEF Loaded, Started, forkVars, TopicInv, TopicTypeOK
  <2>3. BegunWasRead'
    BY <1>2 DEF Loaded, Started, TopicInv, BegunWasRead
  <2>4. ChipWasListed'
    BY <1>2 DEF Loaded, forkVars, TopicInv, ChipWasListed, Mine
  <2> QED BY <2>2, <2>3, <2>4 DEF TopicInv
<1>3. CASE LoadFails(f)
  BY <1>3
  DEF LoadFails, Settled, forkVars, TopicInv, TopicTypeOK, BegunWasRead, ChipWasListed, Mine
<1> QED BY <1>2, <1>3

LEMMA ModeLemma ==
  ASSUME TopicInv, NEW m \in {"scroll", "slides"}, SetViewMode(m)
  PROVE  TopicInv'
<1>1. seed' \in [Slug -> Topic]
  BY SeededLemma DEF SetViewMode, TopicInv, TopicTypeOK
<1> QED BY <1>1
  DEF SetViewMode, forkVars, TopicInv, TopicTypeOK, BegunWasRead, ChipWasListed, Mine

LEMMA CreateLemma ==
  ASSUME TopicInv, NEW who \in Reader, NEW on \in Slug, CreateFork(who, on)
  PROVE  forking' \in (Reader \X Slug) \cup {NoTopic} /\ opened' \subseteq Slug \X Slug
  BY DEF CreateFork, TopicInv, TopicTypeOK

LEMMA ChipLemma ==
  ASSUME TopicInv, Listed \/ ListingFails \/ ClickFork \/ ForkOpens \/ ForkFails
  PROVE  TopicInv'
<1>1. CASE Listed \/ ListingFails
  <2>1. listing' \in BOOLEAN /\ hasFork' \in BOOLEAN
    <3>1. CASE Listed
      <4>1. hasFork' = TRUE \/ hasFork' = FALSE
        BY <3>1, SMT DEF Listed, Mine
      <4> QED BY <3>1, <4>1 DEF Listed
    <3>2. CASE ListingFails
      BY <3>2 DEF ListingFails, TopicInv, TopicTypeOK
    <3> QED BY <1>1, <3>1, <3>2
  <2>2. /\ hasFork' => Mine(url)
        /\ UNCHANGED <<pageVars, token, forks, wanted, forking, opened, away>>
    BY <1>1 DEF Listed, ListingFails, TopicInv, ChipWasListed
  <2> QED BY <2>1, <2>2
    DEF pageVars, TopicInv, TopicTypeOK, BegunWasRead, ChipWasListed, Mine
<1>2. CASE ClickFork
  <2>1. /\ forking' \in (Reader \X Slug) \cup {NoTopic} /\ opened' \subseteq Slug \X Slug
        /\ wanted' \in Topic /\ away' \in BOOLEAN
    BY <1>2, CreateLemma DEF ClickFork, TopicInv, TopicTypeOK, Topic
  <2> QED BY <1>2, <2>1
    DEF ClickFork, pageVars, TopicInv, TopicTypeOK, BegunWasRead, ChipWasListed, Mine
\* A fork that is created never takes one away.
<1>3. CASE ForkOpens \/ ForkFails
  <2>1. /\ forks \subseteq forks' /\ forks' \subseteq Reader \X Slug
        /\ forking' = NoTopic /\ away' \in BOOLEAN
        /\ UNCHANGED <<pageVars, token, hasFork, listing, wanted, opened>>
    BY <1>3 DEF ForkOpens, ForkFails, TopicInv, TopicTypeOK
  <2> QED BY <2>1
    DEF pageVars, TopicInv, TopicTypeOK, BegunWasRead, ChipWasListed, Mine
<1> QED BY <1>1, <1>2, <1>3

LEMMA TokenLemma ==
  ASSUME TopicInv, SignOut \/ \E u \in Reader : SignIn(u)
  PROVE  TopicInv'
<1>1. CASE SignOut
  BY <1>1
  DEF SignOut, Listing, pageVars, TopicInv, TopicTypeOK, BegunWasRead, ChipWasListed
<1>2. ASSUME NEW u \in Reader, SignIn(u) PROVE TopicInv'
  <2>1. /\ forking' \in (Reader \X Slug) \cup {NoTopic} /\ opened' \subseteq Slug \X Slug
        /\ wanted' \in Topic
    BY <1>2, CreateLemma DEF SignIn, TopicInv, TopicTypeOK, Topic
  <2> QED BY <1>2, <2>1
    DEF SignIn, Listing, pageVars, TopicInv, TopicTypeOK, BegunWasRead, ChipWasListed
<1> QED BY <1>1, <1>2

LEMMA TopicInvStep == TopicInv /\ [TopicNext]_topicVars => TopicInv'
<1> SUFFICES ASSUME TopicInv, [TopicNext]_topicVars PROVE TopicInv'
  OBVIOUS
<1>1. CASE UNCHANGED topicVars
  BY <1>1
  DEF topicVars, pageVars, forkVars, TopicInv, TopicTypeOK, BegunWasRead, ChipWasListed, Mine
<1> QED BY <1>1, GoLemma, LoadLemma, ModeLemma, ChipLemma, TokenLemma DEF TopicNext

\* However loads and listings are answered while the reader moves on and signs
\* in and out, a topic is begun by its own load and the chip offers a fork of
\* the topic shown that belongs to who is signed in (TopicView.tsx: the load
\* effect, the listing effect and its cleanup, handleForkClick).
THEOREM TopicStaysItsOwn == TopicSpec => []TopicIsItsOwn
<1>1. TopicInv => TopicIsItsOwn
  BY DEF TopicInv, TopicIsItsOwn, ChipIsTrue, ForkChip, ChipWasListed
<1> QED BY <1>1, TopicStarts, TopicInvStep, PTL DEF TopicSpec

\* The page's state and its requests keep their types.
THEOREM TopicTypeCorrect == TopicSpec => []TopicTypeOK
<1>1. TopicInv => TopicTypeOK
  BY DEF TopicInv
<1> QED BY <1>1, TopicStarts, TopicInvStep, PTL DEF TopicSpec
-----------------------------------------------------------------------------
(***************************************************************************)
(* The session of a tab.                                                   *)
(***************************************************************************)

AskKind == {"auth", "me", "boot", "profile", "password", "code",
            "users", "role", "active", "reports", "act", "flag"}
Asked == [n : 0 .. MaxAsks, kind : AskKind, as : Who,
          form : 0 .. MaxForms, filter : Cut]

PanelType == [profile : Note, password : Note, code : BOOLEAN, copied : BOOLEAN,
              busy : BOOLEAN, ok : BOOLEAN, err : BOOLEAN,
              filter : Cut, listed : Cut \cup {"nothing"}, noted : BOOLEAN]
FormType == [n : 0 .. MaxForms, mode : {"login", "register", "recover"},
             filled : BOOLEAN, busy : BOOLEAN, err : BOOLEAN]

\* SessionTypeOK, with names for the types of its records.
SessionShape ==
    /\ key \in Who
    /\ sess \in [token : Who, user : Who, open : BOOLEAN]
    /\ form \in FormType /\ panel \in PanelType /\ asks \subseteq Asked
    /\ popover \in BOOLEAN /\ view \in View
    /\ sent \in 0 .. MaxAsks /\ crossed \in BOOLEAN

\* The store's token is never without a user, and has no form behind it: a form
\* is asked for by who is signed out, and an answer that signs in closes it.
WholeToken == sess.token # Anyone => sess.user # Anyone /\ ~ sess.open

SessionInv == SessionShape /\ WholeToken /\ OneIdentity

LEMMA SessionStarts == SessionInit => SessionInv
<1> SUFFICES ASSUME SessionInit PROVE SessionInv
  OBVIOUS
<1>1. key \in Who /\ sess = [token |-> key, user |-> key, open |-> FALSE] /\ crossed = FALSE
  BY DEF SessionInit
<1>2. asks \subseteq Asked
  BY <1>1, SessionAssumption DEF SessionInit, Asked, AskKind, View, Cut
<1>3. (view = "users" /\ IsAdmin) \in BOOLEAN
  BY Zenon DEF IsAdmin
<1>4. panel.busy \in BOOLEAN /\ panel = [FreshPanel EXCEPT !.busy = panel.busy]
  BY <1>3 DEF SessionInit, FreshPanel
<1>5. panel \in PanelType
  BY <1>4 DEF PanelType, FreshPanel, Note, Cut
<1>6. form \in FormType /\ 0 \in 0 .. MaxAsks
  BY SessionAssumption DEF SessionInit, NewForm, FormType
<1>7. sess \in [token : Who, user : Who, open : BOOLEAN] /\ crossed \in BOOLEAN
  BY <1>1
<1>8. view \in View /\ popover = FALSE /\ sent = 0
  BY Zenon DEF SessionInit
<1>9. SessionShape
  BY <1>1, <1>2, <1>5, <1>6, <1>7, <1>8 DEF SessionShape
<1> QED BY <1>1, <1>9 DEF SessionInv, WholeToken, OneIdentity, Who

-----------------------------------------------------------------------------
(***************************************************************************)
(* Requests: one that is sent counts, and one that follows another takes   *)
(* its number.                                                             *)
(***************************************************************************)

LEMMA RequestLemma ==
  ASSUME SessionShape, NEW a \in Who, NEW k \in AskKind
  PROVE  /\ sent < MaxAsks => Request(k, a) \in Asked /\ sent + 1 \in 0 .. MaxAsks
         /\ \A n \in 0 .. MaxAsks : [Request(k, a) EXCEPT !.n = n] \in Asked
<1>1. sent \in Nat /\ form.n \in 0 .. MaxForms /\ panel.filter \in Cut
  BY SessionAssumption DEF SessionShape, FormType, PanelType
<1>2. ASSUME sent < MaxAsks PROVE sent + 1 \in 0 .. MaxAsks
  BY <1>1, <1>2, SessionAssumption
<1> QED BY <1>1, <1>2 DEF Request, Asked, AskKind

LEMMA FilteredLemma ==
  ASSUME NEW f \in Cut, NEW r
  PROVE  /\ r \in Asked => [r EXCEPT !.filter = f] \in Asked
         /\ \A n \in 0 .. MaxAsks :
              [r EXCEPT !.n = n] \in Asked => [[r EXCEPT !.filter = f] EXCEPT !.n = n] \in Asked
  BY DEF Asked

\* The page of a list may begin it again, and shows nothing else anew.
LEMMA FollowedLemma ==
  ASSUME SessionShape
  PROVE  /\ Followed(panel) = [panel EXCEPT !.busy = Followed(panel).busy]
         /\ Followed(panel).busy \in BOOLEAN
<1>1. (view = "users" /\ ~ IsAdmin) \in BOOLEAN
  BY Zenon DEF IsAdmin
<1> QED BY <1>1 DEF Followed, SessionShape, PanelType

LEMMA AuthLemma ==
  ASSUME SessionInv, AuthAnswers
  PROVE  SessionInv'
<1>1. PICK r \in asks :
        /\ r.kind = "auth"
        /\ \/ /\ SignedInAs(r.as)
              /\ panel' = Followed(panel)
              /\ form' = [form EXCEPT !.busy = IF r.form = form.n THEN FALSE ELSE @]
              /\ IF Lists THEN Then(r, Request(view, r.as)) ELSE Over(r)
           \/ /\ form' = IF r.form = form.n
                         THEN FormFails(form) ELSE form
              /\ Over(r)
              /\ UNCHANGED <<key, sess, panel>>
        /\ UNCHANGED <<popover, view, crossed>>
  BY Zenon DEF AuthAnswers
<1>2. r \in Asked
  BY DEF SessionInv, SessionShape
<1>3. form' \in FormType
  BY <1>1 DEF FormType, FormFails, SessionInv, SessionShape
<1>4. asks' \subseteq Asked /\ sent' = sent
  <2>1. CASE Over(r)
    BY <2>1 DEF Over, SessionInv, SessionShape
  <2>2. CASE Lists /\ Then(r, Request(view, r.as))
    <3>1. [Request(view, r.as) EXCEPT !.n = r.n] \in Asked
      BY <1>2, <2>2, RequestLemma DEF Lists, Asked, AskKind, SessionInv
    <3> QED BY <2>2, <3>1 DEF Then, SessionInv, SessionShape
  <2> QED BY <1>1, <2>1, <2>2
<1>5. CASE SignedInAs(r.as) /\ panel' = Followed(panel)
  <2>1. key' \in Who /\ sess' = [token |-> key', user |-> key', open |-> FALSE]
    BY <1>2, <1>5 DEF SignedInAs, Asked
  <2>2. panel' \in PanelType
    BY <1>5, FollowedLemma DEF PanelType, SessionInv, SessionShape
  <2> QED BY <1>1, <1>3, <1>4, <2>1, <2>2
    DEF SessionInv, SessionShape, WholeToken, OneIdentity
<1>6. CASE UNCHANGED <<key, sess, panel>>
  BY <1>1, <1>3, <1>4, <1>6
  DEF SessionInv, SessionShape, WholeToken, OneIdentity, Asked
<1> QED BY <1>1, <1>5, <1>6

LEMMA OutLemma ==
  ASSUME SessionInv, SignedOut
  PROVE  /\ key' \in Who /\ sess' \in [token : Who, user : Who, open : BOOLEAN]
         /\ WholeToken' /\ OneIdentity'
  BY DEF SignedOut, SessionInv, SessionShape, WholeToken, OneIdentity, Who

LEMMA RefreshLemma ==
  ASSUME SessionInv, RefreshAnswers
  PROVE  SessionInv'
<1>1. PICK r \in asks, ok \in BOOLEAN :
        /\ r.kind \in {"boot", "me"}
        /\ ok => r.as # Anyone
        /\ Refreshed(r, ok)
        /\ LET p == Followed(panel)
           IN panel' = IF r.kind = "me" THEN [p EXCEPT !.profile = "ok"] ELSE p
        /\ IF Lists THEN Then(r, Request(view, key)) ELSE Over(r)
        /\ UNCHANGED <<form, popover, view>>
  BY Zenon DEF RefreshAnswers
<1>2. r \in Asked
  BY DEF SessionInv, SessionShape
<1>3. panel' \in PanelType
  BY <1>1, FollowedLemma DEF PanelType, SessionInv, SessionShape, Note
<1>4. asks' \subseteq Asked /\ sent' = sent
  <2>1. CASE Over(r)
    BY <2>1 DEF Over, SessionInv, SessionShape
  <2>2. CASE Lists /\ Then(r, Request(view, key))
    <3>1. [Request(view, key) EXCEPT !.n = r.n] \in Asked
      BY <1>2, <2>2, RequestLemma DEF Lists, Asked, AskKind, SessionInv, SessionShape
    <3> QED BY <2>2, <3>1 DEF Then, SessionInv, SessionShape
  <2> QED BY <1>1, <2>1, <2>2
\* A refresh of a session that was left makes two of the identities.
<1>5. /\ key' \in Who /\ sess' \in [token : Who, user : Who, open : BOOLEAN]
      /\ crossed' \in BOOLEAN /\ WholeToken' /\ OneIdentity'
  <2>0. crossed' \in BOOLEAN
    BY <1>1, Zenon DEF Refreshed
  <2>1. CASE ok
    <3>1. /\ sess' = [sess EXCEPT !.user = r.as] /\ key' = key
          /\ crossed' = (crossed \/ r.as # sess.token) /\ r.as # Anyone
      BY <1>1, <2>1 DEF Refreshed
    <3> QED BY <1>2, <2>0, <3>1
      DEF Asked, SessionInv, SessionShape, WholeToken, OneIdentity
  <2>2. CASE ~ ok
    BY <1>1, <2>0, <2>2, OutLemma DEF Refreshed
  <2> QED BY <2>1, <2>2
<1> QED BY <1>1, <1>3, <1>4, <1>5
  DEF SessionInv, SessionShape

\* What the forms and panels do leaves the identity and the modal alone.
LEMMA SessionAsideLemma ==
  ASSUME SessionInv, UNCHANGED <<key, sess, crossed, view>>,
         form' \in FormType, panel' \in PanelType, asks' \subseteq Asked,
         popover' \in BOOLEAN, sent' \in 0 .. MaxAsks
  PROVE  SessionInv'
  BY DEF SessionInv, SessionShape, WholeToken, OneIdentity

LEMMA AskLemma ==
  ASSUME SessionInv, NEW k \in AskKind, Ask(k)
  PROVE  asks' \subseteq Asked /\ sent' \in 0 .. MaxAsks
<1>1. Request(k, key) \in Asked /\ sent + 1 \in 0 .. MaxAsks
  BY RequestLemma DEF Ask, SessionInv, SessionShape
<1> QED BY <1>1 DEF Ask, SessionInv, SessionShape

LEMMA AnsweredLemma ==
  ASSUME SessionInv, NEW r \in asks, NEW q,
         Over(r) \/ (Then(r, q) /\ [q EXCEPT !.n = r.n] \in Asked)
  PROVE  asks' \subseteq Asked /\ sent' \in 0 .. MaxAsks
  BY DEF Over, Then, SessionInv, SessionShape

LEMMA FormStepsLemma ==
  ASSUME SessionInv,
         RequestSignIn \/ DismissSignIn \/ FillForm \/ SwitchForm \/ SubmitForm \/ Popover
  PROVE  SessionInv'
<1>1. CASE RequestSignIn
  <2>1. form' \in FormType
    BY <1>1, SessionAssumption
    DEF RequestSignIn, NewForm, FormType, SessionInv, SessionShape
  <2> QED BY <1>1, <2>1
    DEF RequestSignIn, Signed, SessionInv, SessionShape, WholeToken, OneIdentity
<1>2. CASE DismissSignIn
  BY <1>2 DEF DismissSignIn, Signed, SessionInv, SessionShape, WholeToken, OneIdentity
<1>3. CASE FillForm \/ SwitchForm \/ Popover
  <2>1. form' \in FormType /\ popover' \in BOOLEAN
    BY <1>3 DEF FillForm, SwitchForm, Popover, FormType, SessionInv, SessionShape
  <2>2. UNCHANGED <<key, sess, view, panel, asks, sent, crossed>>
    BY <1>3 DEF FillForm, SwitchForm, Popover
  <2> QED BY <2>1, <2>2, SessionAsideLemma DEF SessionInv, SessionShape
<1>4. CASE SubmitForm
  <2>1. PICK u \in User : /\ sent < MaxAsks /\ sent' = sent + 1
                          /\ asks' = asks \cup {Request("auth", u)}
    BY <1>4 DEF SubmitForm
  <2>2. Request("auth", u) \in Asked /\ sent + 1 \in 0 .. MaxAsks
    BY <2>1, RequestLemma DEF AskKind, Who, SessionInv
  <2>3. form' \in FormType /\ UNCHANGED <<key, sess, popover, view, panel, crossed>>
    BY <1>4 DEF SubmitForm, FormType, SessionInv, SessionShape
  <2> QED BY <2>1, <2>2, <2>3, SessionAsideLemma DEF SessionInv, SessionShape
<1> QED BY <1>1, <1>2, <1>3, <1>4

LEMMA OutsideLemma ==
  ASSUME SessionInv, Logout \/ OtherTab
  PROVE  SessionInv'
<1>1. CASE Logout
  <2>1. /\ key' \in Who /\ sess' \in [token : Who, user : Who, open : BOOLEAN]
        /\ WholeToken' /\ OneIdentity'
    BY <1>1, OutLemma DEF Logout
  <2>2. panel' \in PanelType
    BY <1>1, FollowedLemma DEF Logout, PanelType, SessionInv, SessionShape
  <2>3. popover' = FALSE /\ UNCHANGED <<form, view, asks, sent, crossed>>
    BY <1>1 DEF Logout
  <2> QED BY <2>1, <2>2, <2>3 DEF SessionInv, SessionShape
\* Only this moves the key from under the store, and it is remembered.
<1>2. CASE OtherTab
  BY <1>2 DEF OtherTab, SessionInv, SessionShape, WholeToken, OneIdentity
<1> QED BY <1>1, <1>2

LEMMA SettingsLemma ==
  ASSUME SessionInv, SaveSettings \/ NewRecoveryCode \/ CopyCode \/ SettingsAnswer
  PROVE  SessionInv'
<1>1. CASE SaveSettings
  <2>1. PICK k \in {"profile", "password"} : Ask(k) /\ panel' = [panel EXCEPT ![k] = "none"]
    BY <1>1 DEF SaveSettings
  <2>2. asks' \subseteq Asked /\ sent' \in 0 .. MaxAsks
    BY <2>1, AskLemma DEF AskKind
  <2>3. panel' \in PanelType /\ UNCHANGED <<key, sess, form, popover, view, crossed>>
    BY <1>1, <2>1 DEF SaveSettings, PanelType, Note, SessionInv, SessionShape
  <2> QED BY <2>2, <2>3, SessionAsideLemma DEF SessionInv, SessionShape
<1>2. CASE NewRecoveryCode
  <2>1. asks' \subseteq Asked /\ sent' \in 0 .. MaxAsks
    BY <1>2, AskLemma DEF AskKind, NewRecoveryCode
  <2> QED BY <1>2, <2>1, SessionAsideLemma DEF NewRecoveryCode, SessionInv, SessionShape
<1>3. CASE CopyCode
  <2>1. panel' \in PanelType
    BY <1>3 DEF CopyCode, PanelType, SessionInv, SessionShape
  <2> QED BY <1>3, <2>1, SessionAsideLemma DEF CopyCode, SessionInv, SessionShape
<1>4. CASE SettingsAnswer
  <2>1. PICK r \in asks, ok \in BOOLEAN :
        /\ r.kind \in {"profile", "password", "code"}
        /\ IF ok /\ r.kind = "profile" /\ sess.token # Anyone
           THEN Then(r, Request("me", key)) /\ UNCHANGED panel
           ELSE /\ Over(r)
                /\ panel' = CASE ok /\ r.kind = "code" ->
                                    [panel EXCEPT !.code = TRUE, !.copied = FALSE]
                              [] ~ ok /\ r.kind = "code" -> [panel EXCEPT !.password = "err"]
                              [] OTHER -> [panel EXCEPT ![r.kind] = IF ok THEN "ok" ELSE "err"]
        /\ UNCHANGED <<key, sess, form, popover, view, crossed>>
    BY <1>4, Zenon DEF SettingsAnswer
  <2>2. [Request("me", key) EXCEPT !.n = r.n] \in Asked
    BY RequestLemma DEF Asked, AskKind, SessionInv, SessionShape
  <2>3. asks' \subseteq Asked /\ sent' \in 0 .. MaxAsks
    BY <2>1, <2>2, AnsweredLemma
  <2>4. panel' \in PanelType
    <3>1. panel \in PanelType
      BY DEF SessionInv, SessionShape
    <3>2. \/ panel' = panel
          \/ panel' = [panel EXCEPT !.code = TRUE, !.copied = FALSE]
          \/ \E k \in {"profile", "password"}, w \in {"ok", "err"} : panel' = [panel EXCEPT ![k] = w]
      BY <2>1
    <3>3. CASE panel' = panel
      BY <3>1, <3>3
    <3>4. CASE panel' = [panel EXCEPT !.code = TRUE, !.copied = FALSE]
      BY <3>1, <3>4 DEF PanelType
    <3>5. ASSUME NEW k \in {"profile", "password"}, NEW w \in {"ok", "err"},
                 panel' = [panel EXCEPT ![k] = w]
          PROVE  panel' \in PanelType
      BY <3>1, <3>5 DEF PanelType, Note
    <3> QED BY <3>2, <3>3, <3>4, <3>5
  <2> QED BY <2>1, <2>3, <2>4, SessionAsideLemma DEF SessionInv, SessionShape
<1> QED BY <1>1, <1>2, <1>3, <1>4

LEMMA UsersLemma ==
  ASSUME SessionInv, ChangeUser \/ UsersAnswer
  PROVE  SessionInv'
<1>1. CASE ChangeUser
  <2>1. PICK k \in {"role", "active"} :
          /\ Ask(k)
          /\ panel' = [panel EXCEPT !.ok = FALSE, !.err = IF k = "active" THEN FALSE ELSE @]
    BY <1>1 DEF ChangeUser
  <2>2. asks' \subseteq Asked /\ sent' \in 0 .. MaxAsks
    BY <2>1, AskLemma DEF AskKind
  <2>3. panel' \in PanelType /\ UNCHANGED <<key, sess, form, popover, view, crossed>>
    BY <1>1, <2>1 DEF ChangeUser, PanelType, SessionInv, SessionShape
  <2> QED BY <2>2, <2>3, SessionAsideLemma DEF SessionInv, SessionShape
<1>2. CASE UsersAnswer
  <2>1. PICK r \in asks, ok \in BOOLEAN :
        /\ IF ok /\ r.kind # "users"
           THEN /\ panel' = [panel EXCEPT !.ok = TRUE, !.busy = TRUE, !.err = FALSE]
                /\ Then(r, Request("users", key))
           ELSE /\ panel' = [panel EXCEPT !.err = IF ok THEN @ ELSE TRUE,
                                          !.busy = IF r.kind = "users" THEN FALSE ELSE @]
                /\ Over(r)
        /\ UNCHANGED <<key, sess, form, popover, view, crossed>>
    BY <1>2, Zenon DEF UsersAnswer
  <2>2. [Request("users", key) EXCEPT !.n = r.n] \in Asked
    BY RequestLemma DEF Asked, AskKind, SessionInv, SessionShape
  <2>3. asks' \subseteq Asked /\ sent' \in 0 .. MaxAsks
    BY <2>1, <2>2, AnsweredLemma
  <2>4. panel' \in PanelType
    <3>1. panel \in PanelType /\ panel.err \in BOOLEAN /\ panel.busy \in BOOLEAN
      BY DEF PanelType, SessionInv, SessionShape
    <3>2. CASE ok /\ r.kind # "users"
      BY <2>1, <3>1, <3>2 DEF PanelType
    <3>3. CASE ~ (ok /\ r.kind # "users")
      <4> DEFINE e == IF ok THEN panel.err ELSE TRUE
                 b == IF r.kind = "users" THEN FALSE ELSE panel.busy
      <4>1. e \in BOOLEAN /\ b \in BOOLEAN
        BY <3>1
      <4>2. panel' = [panel EXCEPT !.err = e, !.busy = b]
        BY <2>1, <3>1, <3>3 DEF PanelType
      <4> HIDE DEF e, b
      <4> QED BY <3>1, <4>1, <4>2 DEF PanelType
    <3> QED BY <3>2, <3>3
  <2> QED BY <2>1, <2>3, <2>4, SessionAsideLemma DEF SessionInv, SessionShape
<1> QED BY <1>1, <1>2

LEMMA ReportsLemma ==
  ASSUME SessionInv, PickFilter \/ OpenNote \/ Resolve \/ Dismiss \/ ReportsAnswer
  PROVE  SessionInv'
<1>1. CASE PickFilter
  <2>1. PICK f \in Cut \ {panel.filter} :
          /\ panel' = [panel EXCEPT !.filter = f, !.err = FALSE]
          /\ sent < MaxAsks /\ sent' = sent + 1
          /\ asks' = asks \cup {[Request("reports", key) EXCEPT !.filter = f]}
    BY <1>1 DEF PickFilter
  <2>2. Request("reports", key) \in Asked /\ sent + 1 \in 0 .. MaxAsks
    BY <2>1, RequestLemma DEF AskKind, SessionInv, SessionShape
  <2>3. [Request("reports", key) EXCEPT !.filter = f] \in Asked
    BY <2>2, FilteredLemma
  <2>4. panel' \in PanelType /\ UNCHANGED <<key, sess, form, popover, view, crossed>>
    BY <1>1, <2>1 DEF PickFilter, PanelType, SessionInv, SessionShape
  <2> QED BY <2>1, <2>2, <2>3, <2>4, SessionAsideLemma DEF SessionInv, SessionShape
<1>2. CASE OpenNote
  <2>1. panel' \in PanelType
    BY <1>2 DEF OpenNote, PanelType, SessionInv, SessionShape
  <2> QED BY <1>2, <2>1, SessionAsideLemma DEF OpenNote, SessionInv, SessionShape
<1>3. CASE Resolve \/ Dismiss
  <2>1. asks' \subseteq Asked /\ sent' \in 0 .. MaxAsks
    BY <1>3, AskLemma DEF AskKind, Resolve, Dismiss
  <2>2. panel' \in PanelType /\ UNCHANGED <<key, sess, form, popover, view, crossed>>
    BY <1>3 DEF Resolve, Dismiss, PanelType, SessionInv, SessionShape
  <2> QED BY <2>1, <2>2, SessionAsideLemma DEF SessionInv, SessionShape
<1>4. CASE ReportsAnswer
  <2>1. PICK r \in asks, ok \in BOOLEAN :
        /\ IF ok /\ r.kind = "act"
           THEN /\ panel' = [panel EXCEPT !.noted = FALSE, !.err = FALSE]
                /\ Then(r, [Request("reports", key) EXCEPT !.filter = r.filter])
           ELSE /\ panel' = IF ok THEN [panel EXCEPT !.listed = r.filter]
                                  ELSE [panel EXCEPT !.err = TRUE]
                /\ Over(r)
        /\ UNCHANGED <<key, sess, form, popover, view, crossed>>
    BY <1>4, Zenon DEF ReportsAnswer
  <2>2. r \in Asked /\ r.n \in 0 .. MaxAsks /\ r.filter \in Cut
    BY DEF Asked, SessionInv, SessionShape
  <2>3. [[Request("reports", key) EXCEPT !.filter = r.filter] EXCEPT !.n = r.n] \in Asked
    <3>1. [Request("reports", key) EXCEPT !.n = r.n] \in Asked
      BY <2>2, RequestLemma DEF AskKind, SessionInv, SessionShape
    <3> QED BY <2>2, <3>1, FilteredLemma
  <2>4. asks' \subseteq Asked /\ sent' \in 0 .. MaxAsks
    BY <2>1, <2>3, AnsweredLemma
  <2>5. panel' \in PanelType
    BY ZenonT(60), <2>1, <2>2 DEF PanelType, SessionInv, SessionShape
  <2> QED BY <2>1, <2>4, <2>5, SessionAsideLemma DEF SessionInv, SessionShape
<1> QED BY <1>1, <1>2, <1>3, <1>4

LEMMA FlagLemma ==
  ASSUME SessionInv, SendFlag \/ FlagAnswers
  PROVE  SessionInv'
<1>1. CASE SendFlag
  <2>1. asks' \subseteq Asked /\ sent' \in 0 .. MaxAsks
    BY <1>1, AskLemma DEF AskKind, SendFlag
  <2>2. panel' \in PanelType
    BY <1>1 DEF SendFlag, PanelType, SessionInv, SessionShape
  <2> QED BY <1>1, <2>1, <2>2, SessionAsideLemma DEF SendFlag, SessionInv, SessionShape
<1>2. CASE FlagAnswers
  <2>1. PICK r \in asks, ok \in BOOLEAN :
        /\ Over(r)
        /\ panel' = [panel EXCEPT !.busy = FALSE, !.ok = ok, !.err = ~ ok]
        /\ UNCHANGED <<key, sess, form, popover, view, crossed>>
    BY <1>2, Zenon DEF FlagAnswers
  <2>2. asks' \subseteq Asked /\ sent' \in 0 .. MaxAsks
    BY <2>1 DEF Over, SessionInv, SessionShape
  <2>3. panel' \in PanelType
    BY <2>1 DEF PanelType, SessionInv, SessionShape
  <2> QED BY <2>1, <2>2, <2>3, SessionAsideLemma DEF SessionInv, SessionShape
<1> QED BY <1>1, <1>2

LEMMA SessionInvStep == SessionInv /\ [SessionNext]_sessionVars => SessionInv'
<1> SUFFICES ASSUME SessionInv, [SessionNext]_sessionVars PROVE SessionInv'
  OBVIOUS
<1>1. CASE UNCHANGED sessionVars
  BY <1>1 DEF sessionVars, SessionInv, SessionShape, WholeToken, OneIdentity
<1> QED BY <1>1, FormStepsLemma, OutsideLemma, SettingsLemma, UsersLemma, ReportsLemma,
           FlagLemma, AuthLemma, RefreshLemma
  DEF SessionNext, SessionReplies

\* However the answers, the tab's gestures and another tab's sign-ins meet, the
\* token, the user and the key are one identity unless another tab or a
\* refresh that outlived its session parted them, and who is signed in has no
\* form waiting (authStore.ts: setToken, logout, refreshUser; AuthMenu.tsx).
THEOREM SessionStaysWhole == SessionSpec => []SessionIsWhole
<1>1. SessionInv => SessionIsWhole
  BY DEF SessionInv, SessionIsWhole, NoFormBehind, Signed, WholeToken
<1> QED BY <1>1, SessionStarts, SessionInvStep, PTL DEF SessionSpec

\* The session, the panels and their requests keep their types.
THEOREM SessionTypeCorrect == SessionSpec => []SessionTypeOK
<1>1. SessionInv => SessionTypeOK
  BY DEF SessionInv, SessionShape, SessionTypeOK, FormType, PanelType, Asked, AskKind
<1> QED BY <1>1, SessionStarts, SessionInvStep, PTL DEF SessionSpec
-----------------------------------------------------------------------------
(***************************************************************************)
(* The fork editor.                                                        *)
(***************************************************************************)

\* A save that the server took is what it keeps, since saves are sent one at a
\* time.
StoredIsSaved == save.stored => stored = save.text /\ save # NoSave

\* What the page believes is saved is what the server keeps, whatever is being
\* typed.
SavedIsStored == Editable /\ save = NoSave /\ ~late => ed.saved = stored

EditorInv == EditorTypeOK /\ StoredIsSaved /\ SavedIsStored

EdType == [source : Source, saved : Source, drawn : Source, warned : BOOLEAN,
           loading : BOOLEAN, failed : BOOLEAN, token : BOOLEAN]

LEMMA EditorStarts == EditorInit => EditorInv
<1> SUFFICES ASSUME NEW signedIn \in BOOLEAN,
      /\ ed = [source |-> Blank, saved |-> Blank, drawn |-> Blank, warned |-> FALSE,
               loading |-> signedIn, failed |-> FALSE, token |-> signedIn]
      /\ timer = ~signedIn
      /\ loads = IF signedIn THEN {[n |-> 1, read |-> NoText]} ELSE {}
      /\ requests = [load |-> IF signedIn THEN 1 ELSE 0, preview |-> 0, save |-> 0]
      /\ previews = {} /\ save = NoSave /\ suggest = FALSE
      /\ stored \in Text
      /\ late = FALSE /\ proposed = NoText
    PROVE EditorInv
  BY Zenon DEF EditorInit
<1>1. /\ ed \in EdType /\ timer \in BOOLEAN
      /\ requests \in [load : 0 .. MaxLoads, preview : 0 .. MaxPreviews, save : 0 .. MaxSaves]
      /\ loads \subseteq [n : 1 .. MaxLoads, read : Source \cup {NoText}]
  BY EditorAssumption DEF EdType, Source
<1> QED BY <1>1
  DEF EditorInv, EditorTypeOK, EdType, NoSave, Source, StoredIsSaved, SavedIsStored, Editable

\* The preview effect touches the timer only.
LEMMA RenderLemma ==
  ASSUME EditorTypeOK, NEW e \in EdType, Render(e)
  PROVE  ed' = e /\ ed' \in EdType /\ timer' \in BOOLEAN
<1>1. WantsPreview(e) \in BOOLEAN
  BY Zenon DEF WantsPreview
<1> QED BY <1>1 DEF Render, EditorTypeOK

\* What leaves the save and what is stored alone, and shows the page as saved
\* only where it was.
LEMMA EditorAsideLemma ==
  ASSUME EditorInv, NEW e \in EdType, Render(e), UNCHANGED <<save, stored, late>>,
         e.token /\ ~e.loading /\ ~e.failed => Editable /\ e.saved = ed.saved,
         loads' \subseteq [n : 1 .. MaxLoads, read : Source \cup {NoText}],
         previews' \subseteq [n : 1 .. MaxPreviews, text : Source],
         requests' \in [load : 0 .. MaxLoads, preview : 0 .. MaxPreviews, save : 0 .. MaxSaves],
         suggest' \in BOOLEAN, proposed' \in Source \cup {NoText}
  PROVE  EditorInv'
<1>1. ed' = e /\ ed' \in EdType /\ timer' \in BOOLEAN
  BY RenderLemma DEF EditorInv
<1> QED BY <1>1
  DEF EditorInv, EditorTypeOK, EdType, StoredIsSaved, SavedIsStored, Editable

LEMMA PreviewLemma ==
  ASSUME EditorInv,
         TimerFires \/ \E p \in previews : PreviewAnswers(p) \/ PreviewFails(p)
  PROVE  EditorInv'
<1>1. CASE TimerFires
  <2>1. requests.preview + 1 \in 1 .. MaxPreviews
    BY <1>1, EditorAssumption DEF TimerFires, EditorInv, EditorTypeOK
  <2>2. /\ requests' \in [load : 0 .. MaxLoads, preview : 0 .. MaxPreviews, save : 0 .. MaxSaves]
        /\ previews' \subseteq [n : 1 .. MaxPreviews, text : Source]
    BY <1>1, <2>1, EditorAssumption DEF TimerFires, EditorInv, EditorTypeOK
  <2> QED BY <1>1, <2>2
    DEF TimerFires, EditorInv, EditorTypeOK, StoredIsSaved, SavedIsStored, Editable
<1>2. ASSUME NEW p \in previews, PreviewAnswers(p) PROVE EditorInv'
  <2> DEFINE e == [ed EXCEPT !.drawn = p.text, !.warned = p.text \in Warns]
  <2>1. p.text \in Source /\ (p.text \in Warns) \in BOOLEAN
    BY DEF EditorInv, EditorTypeOK
  <2>2. /\ e \in EdType /\ e.saved = ed.saved /\ e.token = ed.token
        /\ e.loading = ed.loading /\ e.failed = ed.failed
    BY <2>1 DEF EdType, EditorInv, EditorTypeOK
  <2>3. Render(e) /\ UNCHANGED <<loads, save, suggest, stored, requests, late, proposed>>
        /\ previews' = previews \ {p}
    BY <1>2 DEF PreviewAnswers
  <2> HIDE DEF e
  <2> QED BY <2>2, <2>3, EditorAsideLemma DEF Editable, EditorInv, EditorTypeOK
<1>3. ASSUME NEW p \in previews, PreviewFails(p) PROVE EditorInv'
  BY <1>3 DEF PreviewFails, EditorInv, EditorTypeOK, StoredIsSaved, SavedIsStored, Editable
<1> QED BY <1>1, <1>2, <1>3

\* A load puts the page behind its skeleton.
LEMMA StartLoadLemma ==
  ASSUME EditorInv, NEW t \in BOOLEAN, StartLoad([ed EXCEPT !.token = t])
  PROVE  EditorInv'
<1> DEFINE e == [[ed EXCEPT !.token = t] EXCEPT !.loading = TRUE, !.failed = FALSE]
<1>1. e \in EdType /\ e.loading
  BY DEF EdType, EditorInv, EditorTypeOK
<1>2. requests.load + 1 \in 1 .. MaxLoads
  BY EditorAssumption DEF StartLoad, EditorInv, EditorTypeOK
<1>3. /\ requests' \in [load : 0 .. MaxLoads, preview : 0 .. MaxPreviews, save : 0 .. MaxSaves]
      /\ loads' \subseteq [n : 1 .. MaxLoads, read : Source \cup {NoText}]
  BY <1>2, EditorAssumption DEF StartLoad, EditorInv, EditorTypeOK
<1>4. Render(e) /\ UNCHANGED <<previews, save, suggest, stored, late, proposed>>
  BY DEF StartLoad
<1> HIDE DEF e
<1> QED BY <1>1, <1>3, <1>4, EditorAsideLemma DEF EditorInv, EditorTypeOK

\* What a load answers is what is saved, unless a save has overtaken it.
LEMMA SourceLemma ==
  ASSUME EditorInv, NEW l \in loads, SourceRead(l) \/ SourceAnswers(l) \/ SourceFails(l)
  PROVE  EditorInv'
<1>1. l.read \in Source \cup {NoText}
  BY DEF EditorInv, EditorTypeOK
<1>2. CASE SourceRead(l)
  BY <1>2 DEF SourceRead, EditorInv, EditorTypeOK, StoredIsSaved, SavedIsStored, Editable
<1>3. CASE SourceAnswers(l)
  <2> DEFINE e == [ed EXCEPT !.source = l.read, !.saved = l.read, !.drawn = l.read,
                            !.loading = FALSE]
  <2>1. e \in EdType /\ e.saved = l.read
    BY <1>1, <1>3 DEF SourceAnswers, EdType, EditorInv, EditorTypeOK
  <2>2. /\ Render(e) /\ loads' = loads \ {l} /\ late' = (late \/ l.read # stored \/ save # NoSave)
        /\ UNCHANGED <<previews, save, suggest, stored, requests, proposed>>
    BY <1>3 DEF SourceAnswers
  <2>3. late' \in BOOLEAN
    BY <2>2, Zenon
  <2> HIDE DEF e
  <2>4. ed' = e /\ ed' \in EdType /\ timer' \in BOOLEAN
    BY <2>1, <2>2, RenderLemma DEF EditorInv
  <2> QED BY <2>1, <2>2, <2>3, <2>4
    DEF EditorInv, EditorTypeOK, EdType, StoredIsSaved, SavedIsStored, Editable
<1>4. CASE SourceFails(l)
  <2> DEFINE e == [ed EXCEPT !.failed = TRUE, !.loading = FALSE]
  <2>1. e \in EdType /\ e.failed
    BY DEF EdType, EditorInv, EditorTypeOK
  <2>2. /\ Render(e) /\ loads' = loads \ {l}
        /\ UNCHANGED <<previews, save, suggest, stored, requests, late, proposed>>
    BY <1>4 DEF SourceFails
  <2> HIDE DEF e
  <2> QED BY <2>1, <2>2, EditorAsideLemma DEF EditorInv, EditorTypeOK
<1> QED BY <1>2, <1>3, <1>4

\* The answer of a save sets what is saved to what it sent.
LEMMA SaveLemma ==
  ASSUME EditorInv, Save \/ SaveStored \/ SaveAnswers \/ SaveFails
  PROVE  EditorInv'
<1>0. save.text \in Source \cup {NoText} /\ ed.source \in Source /\ NoText \notin Source
  BY EditorAssumption DEF EditorInv, EditorTypeOK, Source
<1>1. CASE Save
  <2>1. /\ requests' \in [load : 0 .. MaxLoads, preview : 0 .. MaxPreviews, save : 0 .. MaxSaves]
    BY <1>1, EditorAssumption DEF Save, EditorInv, EditorTypeOK
  <2>2. save' # NoSave /\ ~save'.stored /\ save' \in [text : Source \cup {NoText}, stored : BOOLEAN]
    BY <1>0, <1>1 DEF Save, NoSave
  <2> QED BY <1>1, <2>1, <2>2
    DEF Save, EditorInv, EditorTypeOK, StoredIsSaved, SavedIsStored
<1>2. CASE SaveStored
  <2>1. save.text \in Source
    BY <1>0, <1>2 DEF SaveStored, NoSave, EditorInv, EditorTypeOK
  <2>2. /\ save' = [text |-> save.text, stored |-> TRUE] /\ stored' = save.text
        /\ UNCHANGED <<ed, timer, loads, previews, suggest, requests, late, proposed>>
    BY <1>2 DEF SaveStored, EditorInv, EditorTypeOK
  <2> QED BY <2>1, <2>2 DEF NoSave, EditorInv, EditorTypeOK, StoredIsSaved, SavedIsStored
<1>3. CASE SaveAnswers
  <2> DEFINE e == [ed EXCEPT !.saved = SavedText, !.drawn = save.text]
  <2>1. save.text = stored /\ stored \in Source
    BY <1>3 DEF SaveAnswers, EditorInv, EditorTypeOK, StoredIsSaved
  <2>2. e \in EdType /\ e.saved = stored
    BY <2>1 DEF SavedText, EdType, EditorInv, EditorTypeOK
  <2>3. /\ Render(e) /\ save' = NoSave
        /\ UNCHANGED <<loads, previews, suggest, stored, requests, late, proposed>>
    BY <1>3 DEF SaveAnswers
  <2> HIDE DEF e
  <2>4. ed' = e /\ ed' \in EdType /\ timer' \in BOOLEAN
    BY <2>2, <2>3, RenderLemma DEF EditorInv
  <2> QED BY <2>2, <2>3, <2>4
    DEF NoSave, EditorInv, EditorTypeOK, EdType, StoredIsSaved, SavedIsStored
<1>4. CASE SaveFails
  <2> DEFINE e == [ed EXCEPT !.failed = TRUE]
  <2>1. e \in EdType /\ e.failed
    BY DEF EdType, EditorInv, EditorTypeOK
  <2>2. /\ Render(e) /\ save' = NoSave
        /\ UNCHANGED <<loads, previews, suggest, stored, requests, late, proposed>>
    BY <1>4 DEF SaveFails
  <2> HIDE DEF e
  <2>3. ed' = e /\ ed' \in EdType /\ timer' \in BOOLEAN
    BY <2>1, <2>2, RenderLemma DEF EditorInv
  <2> QED BY <2>1, <2>2, <2>3
    DEF NoSave, EditorInv, EditorTypeOK, EdType, StoredIsSaved, SavedIsStored, Editable
<1> QED BY <1>1, <1>2, <1>3, <1>4

LEMMA WritingLemma ==
  ASSUME EditorInv,
         Suggest \/ SuggestAnswers \/ SuggestFails \/ \E t \in Text : Type(t)
  PROVE  EditorInv'
<1>1. CASE Suggest \/ SuggestAnswers
  BY <1>1 DEF Suggest, SuggestAnswers, EditorInv, EditorTypeOK, StoredIsSaved, SavedIsStored, Editable
<1>2. CASE SuggestFails
  <2> DEFINE e == [ed EXCEPT !.failed = TRUE]
  <2>1. e \in EdType /\ e.failed
    BY DEF EdType, EditorInv, EditorTypeOK
  <2>2. /\ Render(e) /\ suggest' = FALSE
        /\ UNCHANGED <<loads, previews, save, stored, requests, late, proposed>>
    BY <1>2 DEF SuggestFails
  <2> HIDE DEF e
  <2> QED BY <2>1, <2>2, EditorAsideLemma DEF EditorInv, EditorTypeOK
<1>3. ASSUME NEW t \in Text, Type(t) PROVE EditorInv'
  <2> DEFINE e == [ed EXCEPT !.source = t]
  <2>1. e \in EdType /\ e.saved = ed.saved
    BY DEF EdType, EditorInv, EditorTypeOK, Source
  <2>2. /\ Render(e) /\ Editable
        /\ UNCHANGED <<loads, previews, save, suggest, stored, requests, late, proposed>>
    BY <1>3 DEF Type
  <2> HIDE DEF e
  <2> QED BY <2>1, <2>2, EditorAsideLemma DEF EditorInv, EditorTypeOK
<1> QED BY <1>1, <1>2, <1>3

LEMMA EditorInvStep == EditorInv /\ [EditorNext]_editorVars => EditorInv'
<1> SUFFICES ASSUME EditorInv, [EditorNext]_editorVars PROVE EditorInv'
  OBVIOUS
<1>1. CASE TokenLands \/ UserReplaced
  <2>1. ed = [ed EXCEPT !.token = ed.token] /\ ed.token \in BOOLEAN
    BY DEF EditorInv, EditorTypeOK
  <2>2. PICK t \in BOOLEAN : StartLoad([ed EXCEPT !.token = t])
    BY <1>1, <2>1 DEF TokenLands, UserReplaced
  <2> QED BY <2>2, StartLoadLemma
<1>2. CASE UNCHANGED editorVars
  BY <1>2 DEF editorVars, EditorInv, EditorTypeOK, StoredIsSaved, SavedIsStored, Editable
<1> QED BY <1>1, <1>2, PreviewLemma, SourceLemma, SaveLemma, WritingLemma
  DEF EditorNext, EditorAnswers

\* However loads, previews, saves and suggestions are answered while the author
\* types, a page that says nothing is unsaved shows what the server keeps
\* (ForkEditor.tsx: handleSave's closure, the load effect, the preview effect).
THEOREM CleanStaysStored == EditorSpec => []CleanIsStored
<1>1. EditorInv => CleanIsStored
  BY DEF EditorInv, CleanIsStored, SavedIsStored, Dirty
<1> QED BY <1>1, EditorStarts, EditorInvStep, PTL DEF EditorSpec

\* The editor's state and its requests keep their types.
THEOREM EditorTypeCorrect == EditorSpec => []EditorTypeOK
<1>1. EditorInv => EditorTypeOK
  BY DEF EditorInv
<1> QED BY <1>1, EditorStarts, EditorInvStep, PTL DEF EditorSpec
-----------------------------------------------------------------------------
(***************************************************************************)
(* The review queue.                                                       *)
(***************************************************************************)

\* The one load of the detail that can still draw is of the selected row.
WantedIsSelected == wantedRow # NoRow => wantedRow = selected

\* What accept and reject do is about a row that was drawn.
TaskIsOfRow == deciding => task.row \in Row /\ (task.stage = "detail" => task.sel \in Row)

QueueInv == QueueTypeOK /\ TaskIsOfRow /\ WantedIsSelected /\ PaneIsSelection

LEMMA QueueStarts == QueueInit => QueueInv
<1> SUFFICES ASSUME QueueInit PROVE QueueInv
  OBVIOUS
<1>1. QueueTypeOK
  <2>1. wantedRow \in Row \cup {NoRow}
    BY DEF QueueInit
  <2>2. /\ verdicts \in [Row -> Verdict] /\ listed \in [Row -> Verdict \cup {"unknown"}]
        /\ pane \in [row : Row \cup {NoRow}, status : Verdict]
        /\ task \in [stage : {"idle", "resolve", "list", "detail"},
                    row : Row \cup {NoRow}, sel : Row \cup {NoRow}, verdict : Verdict]
    BY DEF QueueInit, Verdict, NoPane, Idle
  <2>3. reviewer \in BOOLEAN /\ relisting \in BOOLEAN /\ selects \in 0 .. MaxSelects
    BY QueueAssumption DEF QueueInit
  <2> QED BY <2>1, <2>2, <2>3 DEF QueueInit, QueueTypeOK
<1>2. wantedRow = NoRow /\ reviewer => selected = NoRow
  BY DEF QueueInit
<1> QED BY <1>1, <1>2
  DEF QueueInit, QueueInv, TaskIsOfRow, deciding, WantedIsSelected, PaneIsSelection, NoPane

\* A selection and a change of role ask for the row that is selected then.
LEMMA AskDetailLemma ==
  ASSUME QueueInv, RoleChanges \/ \E r \in Row : SelectRow(r)
  PROVE  QueueInv'
<1>1. CASE RoleChanges
  <2>1. /\ reviewer' = ~reviewer /\ relisting' = reviewer'
        /\ wantedRow' = IF reviewer' THEN selected ELSE NoRow
        /\ pane' = IF reviewer' /\ selected # NoRow THEN pane ELSE NoPane
        /\ missed' = FALSE
        /\ UNCHANGED <<verdicts, listed, cut, selected, task, note, selects, overtaken>>
    BY <1>1 DEF RoleChanges, AskDetail
  <2>2. reviewer' \in BOOLEAN
    BY <2>1, Zenon
  <2>3. QueueTypeOK'
    BY ZenonT(60), <2>1, <2>2 DEF QueueInv, QueueTypeOK, NoPane, Verdict
  <2> QED BY <2>1, <2>3
    DEF QueueInv, TaskIsOfRow, deciding, WantedIsSelected, PaneIsSelection, NoPane
<1>2. ASSUME NEW r \in Row, SelectRow(r) PROVE QueueInv'
  <2>1. /\ selected' = r /\ wantedRow' = r /\ pane' = pane /\ missed' = FALSE
        /\ selects' = selects + 1 /\ selects < MaxSelects
        /\ UNCHANGED <<reviewer, verdicts, listed, cut, relisting, task, note, overtaken>>
    BY <1>2, QueueAssumption DEF SelectRow, AskDetail
  <2>2. selects' \in 0 .. MaxSelects
    BY <2>1, QueueAssumption DEF QueueInv, QueueTypeOK
  <2>3. QueueTypeOK'
    BY ZenonT(60), <2>1, <2>2 DEF QueueInv, QueueTypeOK
  <2> QED BY <2>1, <2>3, QueueAssumption
    DEF QueueInv, TaskIsOfRow, deciding, WantedIsSelected, PaneIsSelection
<1> QED BY <1>1, <1>2

LEMMA DetailLemma ==
  ASSUME QueueInv, DetailAnswers \/ DetailFails
  PROVE  QueueInv'
<1>1. wantedRow \in Row /\ wantedRow = selected /\ verdicts[wantedRow] \in Verdict
  BY DEF DetailAnswers, DetailFails, QueueInv, QueueTypeOK, WantedIsSelected
<1>2. CASE DetailAnswers
  BY <1>1, <1>2
  DEF DetailAnswers, QueueInv, QueueTypeOK, TaskIsOfRow, deciding, WantedIsSelected, PaneIsSelection
<1>3. CASE DetailFails
  BY <1>3
  DEF DetailFails, QueueInv, QueueTypeOK, TaskIsOfRow, deciding, WantedIsSelected, PaneIsSelection
<1> QED BY <1>2, <1>3

\* The refresh draws the row it was asked for, and remembers that a click has
\* gone elsewhere.
LEMMA TaskLemma ==
  ASSUME QueueInv,
         ResolveAnswers \/ RefreshLists \/ RefreshDraws \/ TaskFails
           \/ \E v \in {"accepted", "rejected"} : Decide(v)
  PROVE  QueueInv'
<1>1. CASE ResolveAnswers
  <2>1. deciding /\ task.row \in Row /\ task.verdict \in Verdict
    BY <1>1 DEF ResolveAnswers, deciding, Idle, QueueInv, TaskIsOfRow, QueueTypeOK
  <2> QED BY <1>1, <2>1
    DEF ResolveAnswers, QueueInv, QueueTypeOK, TaskIsOfRow, deciding, WantedIsSelected,
        PaneIsSelection, Idle
<1>2. CASE RefreshLists
  <2>1. deciding /\ task.row \in Row
    BY <1>2 DEF RefreshLists, deciding, Idle, QueueInv, TaskIsOfRow
  <2>2. listed' \in [Row -> Verdict \cup {"unknown"}]
    BY <1>2 DEF RefreshLists, QueueInv, QueueTypeOK
  <2>3. /\ task' \in [stage : {"idle", "resolve", "list", "detail"},
                     row : Row \cup {NoRow}, sel : Row \cup {NoRow}, verdict : Verdict]
        /\ TaskIsOfRow'
    BY <1>2, <2>1
    DEF RefreshLists, QueueInv, QueueTypeOK, TaskIsOfRow, deciding, Idle, Verdict
  <2> QED BY <1>2, <2>2, <2>3
    DEF RefreshLists, QueueInv, QueueTypeOK, WantedIsSelected, PaneIsSelection
<1>3. CASE RefreshDraws
  <2>1. task.sel \in Row /\ verdicts[task.sel] \in Verdict
    BY <1>3 DEF RefreshDraws, deciding, Idle, QueueInv, TaskIsOfRow, QueueTypeOK
  <2>2. overtaken' \in BOOLEAN
    BY <1>3, Zenon DEF RefreshDraws
  <2>3. QueueTypeOK' /\ TaskIsOfRow'
    BY <1>3, <2>1, <2>2 DEF RefreshDraws, QueueInv, QueueTypeOK, TaskIsOfRow, deciding, Idle, Verdict
  <2> QED BY <1>3, <2>1, <2>3
    DEF RefreshDraws, QueueInv, QueueTypeOK, WantedIsSelected, PaneIsSelection
<1>4. CASE TaskFails
  <2>1. /\ task' = Idle
        /\ UNCHANGED <<reviewer, listed, cut, selected, pane, wantedRow, relisting, note,
                       selects, overtaken, missed>>
    BY <1>4 DEF TaskFails, TaskOver
  <2>2. verdicts' \in [Row -> Verdict]
    BY <1>4 DEF TaskFails, QueueInv, QueueTypeOK, TaskIsOfRow, deciding
  <2> QED BY <2>1, <2>2
    DEF QueueInv, QueueTypeOK, TaskIsOfRow, deciding, Idle, Verdict, WantedIsSelected, PaneIsSelection
<1>5. ASSUME NEW v \in {"accepted", "rejected"}, Decide(v) PROVE QueueInv'
  <2>1. pane.row \in Row
    BY <1>5 DEF Decide, Offered, QueueInv, QueueTypeOK
  <2> QED BY <1>5, <2>1
    DEF Decide, QueueInv, QueueTypeOK, TaskIsOfRow, deciding, Verdict, WantedIsSelected, PaneIsSelection
<1> QED BY <1>1, <1>2, <1>3, <1>4, <1>5

LEMMA ListLemma ==
  ASSUME QueueInv,
         QueueListed \/ QueueListFails \/ TypeNote
           \/ (\E c \in {"all", "pending", "resolved"} : SetFilter(c))
           \/ (\E r \in Row : ResolvedElsewhere(r))
  PROVE  QueueInv'
<1>1. /\ UNCHANGED <<reviewer, selected, pane, wantedRow, task, selects, overtaken, missed>>
      /\ QueueTypeOK'
  <2>1. CASE QueueListed \/ QueueListFails
    BY <2>1 DEF QueueListed, QueueListFails, QueueInv, QueueTypeOK
  <2>2. CASE TypeNote
    BY <2>2 DEF TypeNote, QueueInv, QueueTypeOK
  <2>3. CASE \E c \in {"all", "pending", "resolved"} : SetFilter(c)
    BY <2>3 DEF SetFilter, QueueInv, QueueTypeOK
  <2>4. CASE \E r \in Row : ResolvedElsewhere(r)
    BY <2>4 DEF ResolvedElsewhere, QueueInv, QueueTypeOK, Verdict
  <2> QED BY <2>1, <2>2, <2>3, <2>4
<1> QED BY <1>1 DEF QueueInv, TaskIsOfRow, deciding, WantedIsSelected, PaneIsSelection

LEMMA QueueInvStep == QueueInv /\ [QueueNext]_queueVars => QueueInv'
<1> SUFFICES ASSUME QueueInv, [QueueNext]_queueVars PROVE QueueInv'
  OBVIOUS
<1>1. CASE UNCHANGED queueVars
  BY <1>1
  DEF queueVars, QueueInv, QueueTypeOK, TaskIsOfRow, deciding, WantedIsSelected, PaneIsSelection
<1> QED BY <1>1, AskDetailLemma, DetailLemma, TaskLemma, ListLemma
  DEF QueueNext, QueueReplies

\* Whatever loads, refreshes and clicks do between a selection and its answer,
\* the pane is of the selected row once that row has answered, but for the two
\* cases the page has no answer to (ReviewQueue.tsx: the detail effect and its
\* cleanup, refresh).
THEOREM PaneStaysSelection == QueueSpec => []PaneIsSelection
<1>1. QueueInv => PaneIsSelection
  BY DEF QueueInv
<1> QED BY <1>1, QueueStarts, QueueInvStep, PTL DEF QueueSpec

\* The queue's state and what accept or reject is doing keep their types.
THEOREM QueueTypeCorrect == QueueSpec => []QueueTypeOK
<1>1. QueueInv => QueueTypeOK
  BY DEF QueueInv
<1> QED BY <1>1, QueueStarts, QueueInvStep, PTL DEF QueueSpec
-----------------------------------------------------------------------------
(***************************************************************************)
(* The pages of one person.                                                *)
(***************************************************************************)

SheetType == [of : Names \cup {NoPerson}, items : SUBSET Title,
              loading : BOOLEAN, error : BOOLEAN]
CallType == [n : 1 .. MaxTurns, kind : Kinds, of : Names,
             title : Title \cup {NoPerson}, live : BOOLEAN]

\* ProfileTypeOK, with names for the types of its records; lists and deletions
\* are asked of a person, never of the alias.
ProfileShape ==
    /\ at \in {"fork", "list", "graph", "left"}
    /\ addr \in Names /\ viewer \in Person \cup {NoPerson}
    /\ sheet \in SheetType /\ calls \subseteq CallType
    /\ kept \in [Person -> SUBSET Title] /\ turns \in 0 .. MaxTurns
    /\ \A c \in calls : c.kind \in {"list", "delete"} => c.of \in Person

\* What the snapshot page hears are snapshots, the live ones of its address.
LiveAreOfAddress ==
    at = "graph" => \A c \in calls : c.kind = "graph" /\ (c.live => c.of = addr)

ProfileInv == ProfileShape /\ LiveAreOfAddress /\ SnapshotIsOfAddress

LEMMA ProfileStarts == ProfileInit => ProfileInv
  BY ProfileAssumption
  DEF ProfileInit, ProfileInv, ProfileShape, SheetType, NoView, Names,
      LiveAreOfAddress, SnapshotIsOfAddress

\* The effect of a page on its address, from what the page shows and awaits.
LEMMA OpensLemma ==
  ASSUME ProfileShape, turns < MaxTurns, turns' = turns + 1,
         NEW goes \in {"fork", "list", "graph"}, NEW a \in Names,
         NEW before \in SheetType, NEW open \in SUBSET CallType,
         \A c \in open : c.kind \in {"list", "delete"} => c.of \in Person,
         goes = "fork" => Effective(a) # NoPerson,
         goes = "graph" => (\A c \in open : c.kind = "graph"),
         at' = goes, addr' = a, Opens(goes, a, before, open),
         UNCHANGED <<viewer, kept>>
  PROVE  ProfileInv'
<1>1. turns + 1 \in 1 .. MaxTurns /\ turns' \in 0 .. MaxTurns
  BY ProfileAssumption DEF ProfileShape
<1>2. Effective(a) # NoPerson => Effective(a) \in Person
  BY DEF Effective, Names, ProfileShape
<1>3. CASE goes = "fork"
  <2> DEFINE c == Call("fork", a, NoPerson)
  <2>1. /\ sheet' = [before EXCEPT !.loading = TRUE, !.error = FALSE]
        /\ calls' = open \cup {c}
    BY <1>3 DEF Opens, OpenFork
  <2>2. c \in CallType /\ c.kind = "fork"
    BY <1>1 DEF Call, CallType, Kinds
  <2> HIDE DEF c
  <2> QED BY <1>1, <1>3, <2>1, <2>2
    DEF SheetType, ProfileInv, ProfileShape, LiveAreOfAddress, SnapshotIsOfAddress
<1>4. CASE goes = "list"
  <2>1. /\ Opens(goes, a, before, open) = OpenList(a, before, open)
    BY <1>4 DEF Opens
  <2>2. CASE Effective(a) = NoPerson
    <3>1. sheet' = [before EXCEPT !.loading = FALSE, !.error = TRUE] /\ calls' = open
      BY <2>1, <2>2 DEF OpenList
    <3> QED BY <1>1, <1>4, <3>1
      DEF SheetType, ProfileInv, ProfileShape, LiveAreOfAddress, SnapshotIsOfAddress
  <2>3. CASE Effective(a) # NoPerson
    <3> DEFINE c == Call("list", Effective(a), NoPerson)
    <3>1. /\ sheet' = [before EXCEPT !.loading = TRUE, !.error = FALSE]
          /\ calls' = open \cup {c}
      BY <2>1, <2>3 DEF OpenList
    <3>2. c \in CallType /\ c.of \in Person
      BY <1>1, <1>2, <2>3 DEF Call, CallType, Kinds, Names
    <3> HIDE DEF c
    <3> QED BY <1>1, <1>4, <3>1, <3>2
      DEF SheetType, ProfileInv, ProfileShape, LiveAreOfAddress, SnapshotIsOfAddress
  <2> QED BY <2>2, <2>3
\* The loads before are cancelled, and the one that is sent is of the address.
<1>5. CASE goes = "graph"
  <2> DEFINE past == {Cancelled(c) : c \in open}
  <2>1. IF a = Me
        THEN sheet' = [before EXCEPT !.of = Me, !.loading = FALSE] /\ calls' = past
        ELSE sheet' = before /\ calls' = past \cup {Call("graph", a, NoPerson)}
    BY <1>5 DEF Opens, OpenGraph
  <2>2. past \subseteq CallType /\ \A c \in past : c.kind = "graph" /\ ~c.live
    BY ZenonT(60), <1>5 DEF Cancelled, CallType
  <2>3. /\ Call("graph", a, NoPerson) \in CallType /\ Call("graph", a, NoPerson).kind = "graph"
        /\ Call("graph", a, NoPerson).of = a /\ Call("graph", a, NoPerson).live
    BY <1>1 DEF Call, CallType, Kinds
  <2> HIDE DEF past
  <2>4. CASE a = Me
    <3>1. sheet' \in SheetType /\ sheet'.of = a
      BY <2>1, <2>4 DEF SheetType
    <3>2. calls' = past
      BY <2>1, <2>4
    <3> QED BY <1>1, <1>5, <2>2, <3>1, <3>2
      DEF ProfileInv, ProfileShape, LiveAreOfAddress, SnapshotIsOfAddress
  <2>5. CASE a # Me
    <3> DEFINE d == Call("graph", a, NoPerson)
    <3>1. sheet' \in SheetType /\ calls' = past \cup {d}
      BY <2>1, <2>5
    <3>2. d \in CallType /\ d.kind = "graph" /\ d.of = a /\ d.live
      BY <2>3
    <3> HIDE DEF d
    <3>3. {c \in calls' : c.live} # {}
      BY <3>1, <3>2
    <3>4. SnapshotIsOfAddress'
      BY <3>3 DEF SnapshotIsOfAddress
    <3> QED BY <1>1, <1>5, <2>2, <3>1, <3>2, <3>4
      DEF ProfileInv, ProfileShape, LiveAreOfAddress
  <2> QED BY <2>4, <2>5
<1> QED BY <1>3, <1>4, <1>5

LEMMA VisitLemma ==
  ASSUME ProfileInv, NEW goes \in {"fork", "list", "graph"}, NEW a \in Names,
         VisitPage(goes, a)
  PROVE  ProfileInv'
<1>1. NoView \in SheetType /\ turns < MaxTurns /\ turns' = turns + 1 /\ UNCHANGED <<viewer, kept>>
  BY DEF VisitPage, NoView, SheetType
<1>2. CASE goes = "fork" /\ Effective(a) = NoPerson
  <2>1. at' = "left" /\ sheet' = NoView /\ calls' = {} /\ addr' = addr
    BY <1>2 DEF VisitPage
  <2>2. turns' \in 0 .. MaxTurns
    BY <1>1, ProfileAssumption DEF ProfileInv, ProfileShape
  <2> QED BY <1>1, <2>1, <2>2
    DEF ProfileInv, ProfileShape, LiveAreOfAddress, SnapshotIsOfAddress
<1>3. CASE ~(goes = "fork" /\ Effective(a) = NoPerson)
  <2> DEFINE b == IF goes = "fork" THEN Effective(a) ELSE a
             before == IF goes = at THEN sheet ELSE NoView
             open == IF goes = at THEN calls ELSE {}
  <2>1. b \in Names /\ (goes = "fork" => Effective(b) # NoPerson)
    BY <1>3, ProfileAssumption DEF Effective, Names, ProfileInv, ProfileShape
  <2>2. at' = goes /\ addr' = b
    BY <1>3 DEF VisitPage
  <2>3. Opens(goes, b, before, open)
    <3>1. IF goes = at THEN Opens(goes, addr', sheet, calls) ELSE Opens(goes, addr', NoView, {})
      BY <1>3 DEF VisitPage
    <3> QED BY <2>2, <3>1 DEF Opens, OpenFork, OpenList, OpenGraph
  <2>4. /\ before \in SheetType /\ open \in SUBSET CallType
        /\ \A c \in open : c.kind \in {"list", "delete"} => c.of \in Person
        /\ goes = "graph" => \A c \in open : c.kind = "graph"
    BY <1>1 DEF ProfileInv, ProfileShape, LiveAreOfAddress
  <2> HIDE DEF b, before, open
  <2> QED BY <1>1, <2>1, <2>2, <2>3, <2>4, OpensLemma DEF ProfileInv
<1> QED BY <1>2, <1>3

\* A sign-in under the snapshot page leaves it as it is.
LEMMA SignAsLemma ==
  ASSUME ProfileInv, NEW who \in Person \cup {NoPerson}, SignAs(who)
  PROVE  ProfileInv'
<1>1. turns + 1 \in 1 .. MaxTurns /\ turns' \in 0 .. MaxTurns
      /\ viewer' = who /\ UNCHANGED <<at, addr, kept>>
  BY ProfileAssumption DEF SignAs, ProfileInv, ProfileShape
<1>2. CASE UNCHANGED <<sheet, calls>>
  BY <1>1, <1>2 DEF ProfileInv, ProfileShape, LiveAreOfAddress, SnapshotIsOfAddress
<1>3. CASE ~UNCHANGED <<sheet, calls>>
  <2> DEFINE name == IF addr = Me THEN who ELSE addr
             c == Call("list", name, NoPerson)
  <2>1. at = "list" /\ \/ sheet' = [sheet EXCEPT !.loading = FALSE, !.error = TRUE] /\ calls' = calls
                       \/ /\ name # NoPerson
                          /\ sheet' = [sheet EXCEPT !.loading = TRUE, !.error = FALSE]
                          /\ calls' = calls \cup {c}
    BY <1>3 DEF SignAs
  <2>2. name # NoPerson => c \in CallType /\ c.of \in Person
    BY <1>1 DEF Call, CallType, Kinds, Names, ProfileInv, ProfileShape
  <2> HIDE DEF c, name
  <2> QED BY <1>1, <2>1, <2>2
    DEF SheetType, ProfileInv, ProfileShape, LiveAreOfAddress, SnapshotIsOfAddress
<1> QED BY <1>2, <1>3

LEMMA ProfileReplyLemma ==
  ASSUME ProfileInv, NEW c \in calls,
         ForkAnswers(c) \/ ListAnswers(c) \/ PersonFails(c) \/ DeleteAnswers(c)
  PROVE  ProfileInv'
<1>1. /\ c.kind # "graph" /\ calls' = calls \ {c} /\ UNCHANGED <<at, addr, viewer, turns>>
      /\ c \in CallType /\ (c.kind \in {"list", "delete"} => c.of \in Person)
  BY DEF ForkAnswers, ListAnswers, PersonFails, DeleteAnswers, ProfileInv, ProfileShape
<1>2. at # "graph"
  BY <1>1 DEF ProfileInv, LiveAreOfAddress
<1>3. CASE ForkAnswers(c) \/ ListAnswers(c) \/ PersonFails(c)
  <2>1. sheet' \in SheetType /\ kept' = kept
    BY <1>1, <1>3
    DEF ForkAnswers, ListAnswers, PersonFails, SheetType, CallType, ProfileInv, ProfileShape
  <2> QED BY <1>1, <1>2, <2>1
    DEF ProfileInv, ProfileShape, LiveAreOfAddress, SnapshotIsOfAddress
<1>4. CASE DeleteAnswers(c)
  <2>1. sheet' \in SheetType /\ kept' \in [Person -> SUBSET Title]
    <3>1. CASE c.title \in kept[c.of]
      BY <1>1, <1>4, <3>1 DEF DeleteAnswers, SheetType, ProfileInv, ProfileShape
    <3>2. CASE c.title \notin kept[c.of]
      BY <1>1, <1>4, <3>2 DEF DeleteAnswers, SheetType, ProfileInv, ProfileShape
    <3> QED BY <3>1, <3>2
  <2> QED BY <1>1, <1>2, <2>1
    DEF ProfileInv, ProfileShape, LiveAreOfAddress, SnapshotIsOfAddress
<1> QED BY <1>3, <1>4

\* The answer of a cancelled load changes nothing, and a live one's is the
\* snapshot of the address.
LEMMA SnapshotLemma ==
  ASSUME ProfileInv, NEW c \in calls, SnapshotAnswers(c) \/ SnapshotFails(c)
  PROVE  ProfileInv'
<1>1. /\ calls' = calls \ {c} /\ UNCHANGED <<at, addr, viewer, kept, turns>>
      /\ c \in CallType
  BY DEF SnapshotAnswers, SnapshotFails, ProfileInv, ProfileShape
<1>2. \/ c.live /\ sheet' = [sheet EXCEPT !.of = c.of, !.loading = FALSE]
      \/ sheet' = [sheet EXCEPT !.error = TRUE, !.loading = FALSE]
      \/ ~c.live /\ sheet' = sheet
  BY DEF SnapshotAnswers, SnapshotFails
<1>3. ProfileShape' /\ LiveAreOfAddress'
  BY <1>1, <1>2 DEF CallType, SheetType, ProfileInv, ProfileShape, LiveAreOfAddress
<1>4. SnapshotIsOfAddress'
  <2>1. CASE c.live /\ sheet' = [sheet EXCEPT !.of = c.of, !.loading = FALSE]
    BY <1>1, <2>1
    DEF SheetType, ProfileInv, ProfileShape, LiveAreOfAddress, SnapshotIsOfAddress
  <2>2. CASE sheet' = [sheet EXCEPT !.error = TRUE, !.loading = FALSE]
    BY <2>2 DEF SheetType, ProfileInv, ProfileShape, SnapshotIsOfAddress
  <2>3. CASE ~c.live /\ sheet' = sheet
    <3>1. {d \in calls' : d.live} = {d \in calls : d.live}
      BY <1>1, <2>3
    <3> QED BY <1>1, <2>3, <3>1 DEF ProfileInv, SnapshotIsOfAddress
  <2> QED BY <1>2, <2>1, <2>2, <2>3
<1> QED BY <1>3, <1>4 DEF ProfileInv

LEMMA DeleteLemma ==
  ASSUME ProfileInv, NEW t \in Title, DeleteFork(t)
  PROVE  ProfileInv'
<1> DEFINE c == Call("delete", Effective(addr), t)
<1>1. turns + 1 \in 1 .. MaxTurns /\ turns' \in 0 .. MaxTurns
      /\ at = "list" /\ calls' = calls \cup {c} /\ UNCHANGED <<at, addr, viewer, sheet, kept>>
  BY ProfileAssumption DEF DeleteFork, ProfileInv, ProfileShape
<1>2. c \in CallType /\ c.of \in Person
  BY <1>1 DEF DeleteFork, Call, CallType, Kinds, Names, Effective, ProfileInv, ProfileShape
<1> HIDE DEF c
<1> QED BY <1>1, <1>2 DEF ProfileInv, ProfileShape, LiveAreOfAddress, SnapshotIsOfAddress

LEMMA ProfileInvStep == ProfileInv /\ [ProfileNext]_profileVars => ProfileInv'
<1> SUFFICES ASSUME ProfileInv, [ProfileNext]_profileVars PROVE ProfileInv'
  OBVIOUS
<1>1. CASE UNCHANGED profileVars
  BY <1>1 DEF profileVars, ProfileInv, ProfileShape, LiveAreOfAddress, SnapshotIsOfAddress
<1> QED BY <1>1, VisitLemma, SignAsLemma, ProfileReplyLemma, SnapshotLemma, DeleteLemma
  DEF ProfileNext, ProfileReplies

\* However the loads of names that were left are answered, the snapshot page
\* shows the person in the URL once that one's answer is in, or an error
\* (UserGraph.tsx: the effect on the name and its AbortController).
THEOREM SnapshotStaysOfAddress == ProfileSpec => []SnapshotIsOfAddress
<1>1. ProfileInv => SnapshotIsOfAddress
  BY DEF ProfileInv
<1> QED BY <1>1, ProfileStarts, ProfileInvStep, PTL DEF ProfileSpec

\* The pages' state and their requests keep their types.
THEOREM ProfileTypeCorrect == ProfileSpec => []ProfileTypeOK
<1>1. ProfileInv => ProfileTypeOK
  BY DEF ProfileInv, ProfileShape, ProfileTypeOK, SheetType, CallType
<1> QED BY <1>1, ProfileStarts, ProfileInvStep, PTL DEF ProfileSpec

-----------------------------------------------------------------------------
(***************************************************************************)
(* The practice on a topic.                                                *)
(***************************************************************************)

\* A card that SM-2 can go on from, and a slice with one status.
SoundCard(c) == c.ease >= EaseFloor /\ c.interval >= 1 /\ c.due = c.last + c.interval

SoundSlice(s) == ~(s.done /\ s.started) /\ (s.card # None => SoundCard(s.card))

\* The exercise of this visit has recorded what it counts.
CountIsRecorded == tally.exercise = 0 \/ (tally.exercise = 1 /\ page.recorded)

PracticeInv == PracticeTypeOK /\ SoundSlice(slice) /\ CountIsRecorded

\* What other devices push is what the same code made there.
DevicesAreSound == \A s \in Elsewhere : SoundSlice(s)

-----------------------------------------------------------------------------
(***************************************************************************)
(* sm2.ts and the setters.                                                 *)
(***************************************************************************)

LEMMA EaseKeepsFloor ==
  ASSUME NEW ease \in Nat, ease >= EaseFloor, NEW q \in 0 .. 5
  PROVE  EaseAfter(ease, q) \in Nat /\ EaseAfter(ease, q) >= EaseFloor
<1>1. q = 0 \/ q = 1 \/ q = 2 \/ q = 3 \/ q = 4 \/ q = 5
  OBVIOUS
<1>. QED
  BY <1>1 DEF EaseAfter, EaseFloor

LEMMA IntervalIsADay ==
  ASSUME NEW interval \in Nat, NEW ease \in Nat, ease >= EaseFloor, NEW q \in 0 .. 5
  PROVE  IntervalAfter(interval, ease, q) \in Nat /\ IntervalAfter(interval, ease, q) >= 1
<1>1. CASE q < 3 \/ interval = 0
  BY <1>1 DEF IntervalAfter
<1>2. CASE q >= 3 /\ interval = 1
  BY <1>2 DEF IntervalAfter
<1>3. CASE q >= 3 /\ interval > 1
  <2>1. PICK days \in Nat : days = interval * ease
    OBVIOUS
  <2>2. days >= 100
    BY <1>3, <2>1 DEF EaseFloor
  <2>3. (days + 50) \div 100 \in Nat /\ (days + 50) \div 100 >= 1
    BY <2>2
  <2>. QED
    BY <1>3, <2>1, <2>3 DEF IntervalAfter
<1>. QED
  BY <1>1, <1>2, <1>3

LEMMA StepIsSound ==
  ASSUME NEW c \in Card, c.ease >= EaseFloor, NEW quality \in {1, 3, 5}, NEW now \in Nat
  PROVE  Sm2Step(c, quality, now) \in Card /\ SoundCard(Sm2Step(c, quality, now))
<1>1. Grade(quality) \in 0 .. 5
  BY DEF Grade
<1>2. PICK q \in 0 .. 5 : q = Grade(quality)
  BY <1>1
<1>3. c.ease \in Nat /\ c.interval \in Nat
  BY DEF Card
<1>4. PICK ease \in Nat : ease = EaseAfter(c.ease, q) /\ ease >= EaseFloor
  BY <1>3, EaseKeepsFloor
<1>5. PICK interval \in Nat : interval = IntervalAfter(c.interval, ease, q) /\ interval >= 1
  BY <1>3, <1>4, IntervalIsADay
<1>6. Sm2Step(c, quality, now)
        = [ease |-> ease, interval |-> interval, last |-> now, due |-> now + interval]
  BY <1>2, <1>4, <1>5 DEF Sm2Step
<1>. QED
  BY <1>4, <1>5, <1>6 DEF Card, SoundCard

LEMMA ReviewIsSound ==
  ASSUME NEW s \in Slice, SoundSlice(s), NEW quality \in {1, 3, 5}, NEW now \in Nat
  PROVE  RecordReview(s, quality, now) \in Slice /\ SoundSlice(RecordReview(s, quality, now))
<1>. DEFINE old == IF s.card = None THEN Forgotten ELSE s.card
<1>1. old \in Card /\ old.ease >= EaseFloor
  BY DEF Slice, SoundSlice, SoundCard, Forgotten, FirstEase, EaseFloor, Card
<1>2. PICK new \in Card : new = Sm2Step(old, quality, now) /\ SoundCard(new)
  BY <1>1, StepIsSound
<1>3. RecordReview(s, quality, now) = [s EXCEPT !.card = new, !.stamp = now]
  BY <1>2 DEF RecordReview, Bump, Slice
<1>. QED
  BY <1>2, <1>3 DEF Slice, SoundSlice

LEMMA SettersAreSound ==
  ASSUME NEW s \in Slice, SoundSlice(s), NEW now \in Nat
  PROVE  /\ MarkCompleted(s, now) \in Slice /\ SoundSlice(MarkCompleted(s, now))
         /\ MarkInProgress(s, now) \in Slice /\ SoundSlice(MarkInProgress(s, now))
         /\ UnmarkCompleted(s, now) \in Slice /\ SoundSlice(UnmarkCompleted(s, now))
         /\ \A o \in Option : RecordDecision(s, o, now) \in Slice
                              /\ SoundSlice(RecordDecision(s, o, now))
         /\ \A b \in Block : ToggleFlag(s, b, now) \in Slice
                             /\ SoundSlice(ToggleFlag(s, b, now))
<1>1. FirstCard(now) \in Card /\ SoundCard(FirstCard(now))
  BY DEF FirstCard, Card, SoundCard, FirstEase, EaseFloor
<1>2. MarkCompleted(s, now) \in Slice /\ SoundSlice(MarkCompleted(s, now))
  BY <1>1 DEF MarkCompleted, Bump, Slice, SoundSlice
<1>3. MarkInProgress(s, now) \in Slice /\ SoundSlice(MarkInProgress(s, now))
  BY DEF MarkInProgress, Bump, Slice, SoundSlice
<1>4. UnmarkCompleted(s, now) \in Slice /\ SoundSlice(UnmarkCompleted(s, now))
  BY DEF UnmarkCompleted, Bump, Slice, SoundSlice
<1>5. \A o \in Option : RecordDecision(s, o, now) \in Slice
                        /\ SoundSlice(RecordDecision(s, o, now))
  BY DEF RecordDecision, Bump, Slice, SoundSlice
<1>6. ASSUME NEW b \in Block
      PROVE  ToggleFlag(s, b, now) \in Slice /\ SoundSlice(ToggleFlag(s, b, now))
  <2>. DEFINE flag == [s.flag EXCEPT ![b] = IF s.flag[b] > 0 THEN 0 ELSE s.flag[b] + 1]
  <2>1. flag \in [Block -> Nat]
    <3>1. s.flag \in [Block -> Nat]
      BY DEF Slice
    <3>2. PICK n \in Nat : n = IF s.flag[b] > 0 THEN 0 ELSE s.flag[b] + 1
      BY <3>1
    <3>. QED
      BY <3>1, <3>2
  <2>2. ToggleFlag(s, b, now) = [s EXCEPT !.flag = flag, !.stamp = now]
    BY DEF ToggleFlag, Bump, Slice
  <2>. HIDE DEF flag
  <2>. QED
    BY <2>1, <2>2 DEF Slice, SoundSlice
<1>. QED
  BY <1>2, <1>3, <1>4, <1>5, <1>6

LEMMA WorldsStay ==
  ASSUME NEW w \in World, NEW patch \in Values
  PROVE  /\ InitTopic(w, patch) \in World
         /\ PatchState(w, patch) \in World
         /\ ResetState(w) \in World
         /\ \A o \in Option : SelectDecision(w, o) \in World
         /\ MarkSuccess(w) \in World /\ ClearSuccess(w) \in World
         /\ Metered(w) \in World
<1>1. ASSUME NEW base \in Values
      PROVE  Overlaid(base, patch) \in Values /\ Overlaid(patch, base) \in Values
  BY DEF Overlaid, Values
<1>2. Unset \in Values
  BY DEF Unset, Values
<1>3. ASSUME NEW d \in Values
      PROVE  EmptyWorld(d) \in World
  BY DEF EmptyWorld, World
<1>4. OrEmpty(w) \in World
  BY <1>2, <1>3 DEF OrEmpty
<1>5. InitTopic(w, patch) \in World
  BY <1>1, <1>3 DEF InitTopic, World
<1>6. PatchState(w, patch) \in World
  BY <1>1, <1>4 DEF PatchState, World
<1>7. ResetState(w) \in World
  BY DEF ResetState, World
<1>8. \A o \in Option : SelectDecision(w, o) \in World
  BY <1>4 DEF SelectDecision, World
<1>9. MarkSuccess(w) \in World
  BY <1>4 DEF MarkSuccess, World
<1>10. ClearSuccess(w) \in World
  BY DEF ClearSuccess, World
<1>. QED
  BY <1>5, <1>6, <1>7, <1>8, <1>9, <1>10 DEF Metered

-----------------------------------------------------------------------------
(***************************************************************************)
(* Every step.                                                             *)
(***************************************************************************)

LEMMA PracticeStarts == PracticeInit => PracticeInv
<1>. SUFFICES ASSUME PracticeInit PROVE PracticeInv
  OBVIOUS
<1>1. EmptySlice \in Slice /\ SoundSlice(EmptySlice)
  BY DEF EmptySlice, Slice, SoundSlice
<1>2. MarkInProgress(EmptySlice, 0) \in Slice /\ SoundSlice(MarkInProgress(EmptySlice, 0))
  BY <1>1, SettersAreSound
<1>3. /\ Migrate([EmptySlice EXCEPT !.done = TRUE], 0) \in Slice
      /\ SoundSlice(Migrate([EmptySlice EXCEPT !.done = TRUE], 0))
  <2>. DEFINE s == [EmptySlice EXCEPT !.done = TRUE]
  <2>1. s \in Slice /\ SoundSlice(s)
    BY <1>1 DEF EmptySlice, Slice, SoundSlice
  <2>2. Migrate(s, 0) = [s EXCEPT !.stamp = 0]
    BY DEF Migrate
  <2>. HIDE DEF s
  <2>3. Migrate(s, 0) \in Slice /\ SoundSlice(Migrate(s, 0))
    BY <2>1, <2>2 DEF Slice, SoundSlice
  <2>. QED
    BY <2>3 DEF s
<1>4. slice \in Slice /\ SoundSlice(slice)
  BY <1>2, <1>3 DEF PracticeInit
<1>5. world \in World
  BY PracticeAssumption DEF PracticeInit, InitTopic, EmptyWorld, World
<1>6. /\ page \in [recall : BOOLEAN, question : 1 .. Questions, answered : BOOLEAN,
                   exercise : {"idle", "wrong", "correct", "revealed"},
                   recorded : BOOLEAN, reset : BOOLEAN, praised : BOOLEAN]
      /\ today \in 0 .. MaxDay
      /\ tally \in [reviews : Nat, exercise : Nat]
  BY PracticeAssumption DEF PracticeInit, Opened
<1>7. CountIsRecorded
  BY DEF PracticeInit, CountIsRecorded
<1>. QED
  BY <1>4, <1>5, <1>6, <1>7 DEF PracticeInv, PracticeTypeOK

\* A review of a sound slice, by an answer that is not the exercise's or by
\* one that is the first.
LEMMA ReviewLemma ==
  ASSUME PracticeInv, NEW s \in Slice, SoundSlice(s), NEW quality \in {1, 3, 5},
         NEW exercise \in BOOLEAN, Review(s, quality, exercise)
  PROVE  /\ slice' \in Slice /\ SoundSlice(slice')
         /\ tally' \in [reviews : Nat, exercise : Nat]
         /\ tally'.exercise = IF exercise THEN tally.exercise + 1 ELSE tally.exercise
<1>1. today \in Nat
  BY PracticeAssumption DEF PracticeInv, PracticeTypeOK
<1>2. slice' = RecordReview(s, quality, today)
  BY DEF Review
<1>3. slice' \in Slice /\ SoundSlice(slice')
  BY <1>1, <1>2, ReviewIsSound
<1>4. tally \in [reviews : Nat, exercise : Nat]
  BY DEF PracticeInv, PracticeTypeOK
<1>5. CASE exercise
  <2>1. tally' = [tally EXCEPT !.reviews = @ + 1, !.exercise = @ + 1]
    BY <1>5 DEF Review
  <2>2. tally.reviews + 1 \in Nat /\ tally.exercise + 1 \in Nat
    BY <1>4
  <2>3. /\ tally' \in [reviews : Nat, exercise : Nat]
        /\ tally'.exercise = tally.exercise + 1
    BY <1>4, <2>1, <2>2
  <2>. QED
    BY <1>3, <1>5, <2>3
<1>6. CASE ~exercise
  <2>1. tally' = [tally EXCEPT !.reviews = @ + 1]
    BY <1>4, <1>6 DEF Review
  <2>. QED
    BY <1>3, <1>4, <1>6, <2>1
<1>. QED
  BY <1>5, <1>6

LEMMA PlaygroundLemma ==
  ASSUME PracticeInv,
         \/ \E k \in Key, v \in Val : Slide(k, v)
         \/ ResetBound \/ SkipGoal \/ TryAgain \/ ScrollToReset
  PROVE  PracticeInv'
<1>1. world \in World /\ world.defaults \in Values /\ Target \in Values
  BY PracticeAssumption DEF PracticeInv, PracticeTypeOK, World
<1>2. \A k \in Key, v \in Val : [Unset EXCEPT ![k] = v] \in Values
  BY DEF Unset, Values
<1>3. world' \in World
  <2>1. ASSUME NEW k \in Key, NEW v \in Val, Slide(k, v)
        PROVE  world' \in World
    <3>1. PatchState(world, [Unset EXCEPT ![k] = v]) \in World
      BY <1>1, <1>2, WorldsStay
    <3>. QED
      BY <2>1, <3>1, <1>1, WorldsStay DEF Slide, SetWorld
  <2>2. CASE ResetBound
    <3>1. PatchState(world, world.defaults) \in World
      BY <1>1, WorldsStay
    <3>. QED
      BY <2>2, <3>1, <1>1, WorldsStay DEF ResetBound, SetWorld
  <2>3. CASE SkipGoal
    <3>1. PatchState(world, Target) \in World
      BY <1>1, WorldsStay
    <3>. QED
      BY <2>3, <3>1, <1>1, WorldsStay DEF SkipGoal
  <2>4. CASE TryAgain
    BY <2>4, <1>1, WorldsStay DEF TryAgain
  <2>5. CASE ScrollToReset
    <3>1. ResetState(world) \in World
      BY <1>1, WorldsStay
    <3>. QED
      BY <2>5, <3>1, <1>1, WorldsStay DEF ScrollToReset, SetWorld
  <2>. QED
    BY <2>1, <2>2, <2>3, <2>4, <2>5
<1>4. /\ UNCHANGED <<slice, today, tally>>
      /\ page' = page \/ page' = [page EXCEPT !.reset = TRUE]
  BY DEF Slide, ResetBound, SkipGoal, TryAgain, ScrollToReset
<1>. QED
  BY <1>3, <1>4 DEF PracticeInv, PracticeTypeOK, CountIsRecorded

LEMMA AnswerLemma ==
  ASSUME PracticeInv,
         \/ \E o \in Option, via \in BOOLEAN : ChooseOption(o, via)
         \/ \E quality \in {1, 3, 5} : Recall(quality)
         \/ \E right \in BOOLEAN : QuizPick(right)
         \/ QuizNext
  PROVE  PracticeInv'
<1>1. /\ slice \in Slice /\ SoundSlice(slice) /\ world \in World /\ today \in Nat
      /\ tally \in [reviews : Nat, exercise : Nat]
  BY PracticeAssumption DEF PracticeInv, PracticeTypeOK
<1>2. ASSUME NEW o \in Option, NEW via \in BOOLEAN, ChooseOption(o, via)
      PROVE  PracticeInv'
  <2>1. RecordDecision(slice, o, today) \in Slice /\ SoundSlice(RecordDecision(slice, o, today))
    BY <1>1, SettersAreSound
  <2>2. PICK s \in Slice : s = RecordDecision(slice, o, today) /\ SoundSlice(s)
    BY <2>1
  <2>3. PICK quality \in {1, 3, 5} : Review(s, quality, FALSE)
    BY <1>2, <2>2 DEF ChooseOption
  <2>4. /\ slice' \in Slice /\ SoundSlice(slice')
        /\ tally' \in [reviews : Nat, exercise : Nat]
        /\ tally'.exercise = tally.exercise
    BY <2>2, <2>3, ReviewLemma
  <2>5. PatchState(SelectDecision(world, o), Writes[o]) \in World
    <3>1. Writes[o] \in Values /\ SelectDecision(world, o) \in World
      BY <1>1, PracticeAssumption, WorldsStay
    <3>. QED
      BY <3>1, WorldsStay
  <2>6. PracticeTypeOK'
    <3>1. world' \in World
      BY <1>2, <2>5, PracticeAssumption, WorldsStay DEF ChooseOption, SetWorld
    <3>. QED
      BY <1>2, <2>4, <3>1 DEF ChooseOption, PracticeInv, PracticeTypeOK
  <2>. QED
    BY <1>2, <2>4, <2>6 DEF ChooseOption, PracticeInv, CountIsRecorded
<1>3. ASSUME NEW quality \in {1, 3, 5}, Recall(quality)
      PROVE  PracticeInv'
  <2>1. Review(slice, quality, FALSE) /\ page' = [page EXCEPT !.recall = FALSE]
        /\ UNCHANGED <<world, today>>
    BY <1>3 DEF Recall
  <2>2. /\ slice' \in Slice /\ SoundSlice(slice')
        /\ tally' \in [reviews : Nat, exercise : Nat]
        /\ tally'.exercise = tally.exercise
    BY <1>1, <2>1, ReviewLemma
  <2>. QED
    BY <2>1, <2>2 DEF PracticeInv, PracticeTypeOK, CountIsRecorded
<1>4. ASSUME NEW right \in BOOLEAN, QuizPick(right)
      PROVE  PracticeInv'
  <2>1. /\ Review(slice, IF right THEN 5 ELSE 1, FALSE)
        /\ page' = [page EXCEPT !.answered = TRUE] /\ UNCHANGED <<world, today>>
    BY <1>4 DEF QuizPick
  <2>2. PICK quality \in {1, 3, 5} : Review(slice, quality, FALSE)
    BY <2>1
  <2>3. /\ slice' \in Slice /\ SoundSlice(slice')
        /\ tally' \in [reviews : Nat, exercise : Nat]
        /\ tally'.exercise = tally.exercise
    BY <1>1, <2>2, ReviewLemma
  <2>. QED
    BY <2>1, <2>3 DEF PracticeInv, PracticeTypeOK, CountIsRecorded
<1>5. CASE QuizNext
  <2>1. page' = [page EXCEPT !.question = page.question + 1, !.answered = FALSE]
        /\ page.question < Questions /\ UNCHANGED <<slice, world, today, tally>>
    BY <1>5 DEF QuizNext
  <2>2. page.question + 1 \in 1 .. Questions
    BY <2>1, PracticeAssumption DEF PracticeInv, PracticeTypeOK
  <2>. QED
    BY <2>1, <2>2 DEF PracticeInv, PracticeTypeOK, CountIsRecorded
<1>. QED
  BY <1>2, <1>3, <1>4, <1>5

LEMMA ExerciseLemma ==
  ASSUME PracticeInv, (\E right \in BOOLEAN : ExerciseCheck(right)) \/ ExerciseReveal
  PROVE  PracticeInv'
<1>1. /\ slice \in Slice /\ SoundSlice(slice)
      /\ tally \in [reviews : Nat, exercise : Nat]
  BY DEF PracticeInv, PracticeTypeOK
<1>2. PICK quality \in {1, 3, 5} : RecordOnce(quality)
  BY DEF ExerciseCheck, ExerciseReveal
<1>3. PICK e \in {"wrong", "correct", "revealed"} :
        page' = [page EXCEPT !.exercise = e, !.recorded = TRUE]
  BY DEF ExerciseCheck, ExerciseReveal
<1>4. UNCHANGED <<world, today>>
  BY DEF ExerciseCheck, ExerciseReveal
<1>5. /\ slice' \in Slice /\ SoundSlice(slice')
      /\ tally' \in [reviews : Nat, exercise : Nat]
      /\ tally'.exercise <= 1
  <2>1. CASE page.recorded
    <3>1. UNCHANGED <<slice, tally>>
      BY <1>2, <2>1 DEF RecordOnce, Unrecorded
    <3>. QED
      BY <1>1, <3>1 DEF PracticeInv, CountIsRecorded
  <2>2. CASE ~page.recorded
    <3>1. Review(slice, quality, TRUE)
      BY <1>2, <2>2 DEF RecordOnce, Unrecorded
    <3>2. tally.exercise = 0
      BY <2>2 DEF PracticeInv, CountIsRecorded
    <3>3. /\ slice' \in Slice /\ SoundSlice(slice')
          /\ tally' \in [reviews : Nat, exercise : Nat]
          /\ tally'.exercise = tally.exercise + 1
      BY <1>1, <3>1, ReviewLemma
    <3>. QED
      BY <3>2, <3>3
  <2>. QED
    BY <2>1, <2>2
<1>6. PracticeTypeOK'
  BY <1>3, <1>4, <1>5 DEF PracticeInv, PracticeTypeOK
<1>7. CountIsRecorded'
  BY <1>3, <1>5 DEF PracticeInv, PracticeTypeOK, CountIsRecorded
<1>. QED
  BY <1>5, <1>6, <1>7 DEF PracticeInv

LEMMA SliceLemma ==
  ASSUME PracticeInv, DevicesAreSound,
         \/ Complete \/ Unmark
         \/ \E b \in Block : Flag(b)
         \/ \E server \in Elsewhere : Pull(server)
         \/ Reopen \/ NextDay
  PROVE  PracticeInv'
<1>1. slice \in Slice /\ SoundSlice(slice) /\ world \in World /\ today \in Nat
  BY PracticeAssumption DEF PracticeInv, PracticeTypeOK
<1>2. slice' \in Slice /\ SoundSlice(slice')
  <2>1. CASE Complete \/ Unmark \/ Reopen
    BY <1>1, <2>1, SettersAreSound DEF Complete, Unmark, Reopen
  <2>2. ASSUME NEW b \in Block, Flag(b)
        PROVE  slice' \in Slice /\ SoundSlice(slice')
    BY <1>1, <2>2, SettersAreSound DEF Flag
  <2>3. ASSUME NEW server \in Elsewhere, Pull(server)
        PROVE  slice' \in Slice /\ SoundSlice(slice')
    <3>1. server \in Slice /\ SoundSlice(server)
      BY PracticeAssumption DEF DevicesAreSound
    <3>. QED
      BY <1>1, <2>3, <3>1 DEF Pull, Adopt
  <2>4. CASE NextDay
    BY <1>1, <2>4 DEF NextDay
  <2>. QED
    BY <2>1, <2>2, <2>3, <2>4
<1>3. world' \in World
  <2>1. CASE Reopen
    <3>1. InitTopic(world, Author) \in World
      BY <1>1, PracticeAssumption, WorldsStay
    <3>2. MarkSuccess(InitTopic(world, Author)) \in World
      BY <3>1, PracticeAssumption, WorldsStay
    <3>. QED
      BY <2>1, <3>1, <3>2 DEF Reopen
  <2>2. CASE ~Reopen
    BY <1>1, <2>2 DEF Complete, Unmark, Flag, Pull, NextDay
  <2>. QED
    BY <2>1, <2>2
<1>4. /\ \/ page' = page /\ tally' = tally
         \/ page' = [page EXCEPT !.praised = TRUE] /\ tally' = tally
         \/ page' = Opened /\ tally' = [tally EXCEPT !.exercise = 0]
      /\ today' = today \/ (today < MaxDay /\ today' = today + 1)
  BY DEF Complete, Unmark, Flag, Pull, Reopen, NextDay
<1>5. PracticeTypeOK'
  <2>1. page' \in [recall : BOOLEAN, question : 1 .. Questions, answered : BOOLEAN,
                   exercise : {"idle", "wrong", "correct", "revealed"},
                   recorded : BOOLEAN, reset : BOOLEAN, praised : BOOLEAN]
    <3>1. CASE page' = Opened
      BY <3>1, PracticeAssumption DEF Opened
    <3>2. CASE page' = page \/ page' = [page EXCEPT !.praised = TRUE]
      BY <3>2 DEF PracticeInv, PracticeTypeOK
    <3>. QED
      BY <1>4, <3>1, <3>2
  <2>2. today' \in 0 .. MaxDay /\ tally' \in [reviews : Nat, exercise : Nat]
    BY <1>4, PracticeAssumption DEF PracticeInv, PracticeTypeOK
  <2>. QED
    BY <1>2, <1>3, <2>1, <2>2 DEF PracticeTypeOK
<1>6. CountIsRecorded'
  BY <1>4 DEF PracticeInv, PracticeTypeOK, CountIsRecorded
<1>. QED
  BY <1>2, <1>5, <1>6 DEF PracticeInv

LEMMA PracticeInvStep ==
  ASSUME DevicesAreSound
  PROVE  PracticeInv /\ [PracticeNext]_practiceVars => PracticeInv'
<1>1. ASSUME PracticeInv, PracticeNext PROVE PracticeInv'
  BY <1>1, PlaygroundLemma, AnswerLemma, ExerciseLemma, SliceLemma DEF PracticeNext
<1>2. ASSUME PracticeInv, UNCHANGED practiceVars PROVE PracticeInv'
  BY <1>2 DEF practiceVars, PracticeInv, PracticeTypeOK, CountIsRecorded
<1>. QED
  BY <1>1, <1>2

(***************************************************************************)
(* Whatever is answered, completed, unmarked, pulled and reopened, a topic *)
(* has one status and a card that SM-2 goes on from, and a visit's         *)
(* exercise moves it once (progressStore.ts, sm2.ts, ExerciseBlock.tsx).   *)
(***************************************************************************)
THEOREM PracticeAlwaysHolds ==
  ASSUME DevicesAreSound
  PROVE  PracticeSpec => []PracticeHolds
<1>1. PracticeInv => PracticeHolds
  BY DEF PracticeInv, PracticeTypeOK, PracticeHolds, OneStatus, ScheduleHolds,
     ExerciseCountsOnce, CountIsRecorded, SoundSlice, SoundCard
<1>. QED
  BY <1>1, PracticeStarts, PracticeInvStep, PTL DEF PracticeSpec

\* The types of the practice (LearnerStore's records, the page's state).
THEOREM PracticeTypeCorrect ==
  ASSUME DevicesAreSound
  PROVE  PracticeSpec => []PracticeTypeOK
<1>1. PracticeInv => PracticeTypeOK
  BY DEF PracticeInv
<1>. QED
  BY <1>1, PracticeStarts, PracticeInvStep, PTL DEF PracticeSpec

-----------------------------------------------------------------------------
\* The author's target satisfies success_when, whatever the keys are that it
\* does not name.
TargetMeetsGoal ==
    \A v \in Values : (\A k \in Key : Target[k] # None => Held(v, k) = Target[k]) => v \in Goal

LEMMA MeteredIsEarned ==
  ASSUME TargetMeetsGoal, PracticeInv, NEW w \in World, w.success = world.success,
         world' = Metered(w), world'.success, ~world.success
  PROVE  world'.value \in Goal
<1>1. MeterFull(w.value) /\ world' = MarkSuccess(w)
  BY DEF Metered
<1>2. world'.value = w.value
  BY <1>1, PracticeAssumption DEF MarkSuccess, OrEmpty, World
<1>3. w.value \in Values
  BY DEF World
<1>. QED
  BY <1>1, <1>2, <1>3 DEF MeterFull, OnTarget, TargetMeetsGoal

LEMMA SuccessStep ==
  ASSUME TargetMeetsGoal, PracticeInv, PracticeNext, world'.success, ~world.success
  PROVE  world'.value \in Goal
<1>1. /\ world \in World /\ world # None /\ Target \in Values
      /\ world.value \in Values /\ world.defaults \in Values
  BY PracticeAssumption DEF PracticeInv, PracticeTypeOK, World
<1>2. ASSUME NEW patch \in Values, NEW w \in World, w.success = world.success
      PROVE  PatchState(w, patch) \in World /\ PatchState(w, patch).success = world.success
  <2>1. PatchState(w, patch) \in World
    BY WorldsStay
  <2>2. w # None
    BY PracticeAssumption
  <2>. QED
    BY <1>2, <2>1, <2>2 DEF PatchState, OrEmpty, World
<1>3. ASSUME NEW k \in Key, NEW v \in Val, Slide(k, v)
      PROVE  world'.value \in Goal
  <2>1. [Unset EXCEPT ![k] = v] \in Values
    BY DEF Unset, Values
  <2>. QED
    BY <1>1, <1>2, <1>3, <2>1, MeteredIsEarned DEF Slide, SetWorld
<1>4. CASE ResetBound
  BY <1>1, <1>2, <1>4, MeteredIsEarned DEF ResetBound, SetWorld
<1>5. CASE SkipGoal
  <2>1. PICK w \in World : w = PatchState(world, Target)
    BY <1>1, <1>2
  <2>2. world'.value = w.value
    BY <1>5, <2>1, PracticeAssumption DEF SkipGoal, MarkSuccess, OrEmpty, World
  <2>3. w.value = Overlaid(world.value, Target)
    BY <1>1, <2>1 DEF PatchState, OrEmpty, World
  <2>4. w.value \in Values
    BY DEF World
  <2>5. \A k \in Key : Target[k] # None => Held(w.value, k) = Target[k]
    BY <2>3 DEF Overlaid, Held
  <2>. QED
    BY <2>2, <2>4, <2>5 DEF TargetMeetsGoal
<1>6. CASE TryAgain
  BY <1>1, <1>6 DEF TryAgain, ClearSuccess, World
<1>7. CASE ScrollToReset
  <2>1. PICK w \in World : w = ResetState(world)
    BY <1>1, WorldsStay
  <2>2. w.success = world.success
    BY <1>1, <2>1 DEF ResetState, World
  <2>. QED
    BY <1>7, <2>1, <2>2, MeteredIsEarned DEF ScrollToReset, SetWorld
<1>8. ASSUME NEW o \in Option, NEW via \in BOOLEAN, ChooseOption(o, via)
      PROVE  world'.value \in Goal
  <2>1. PICK w \in World : w = SelectDecision(world, o)
    BY <1>1, PracticeAssumption, WorldsStay
  <2>2. w.success = world.success
    BY <1>1, <2>1 DEF SelectDecision, OrEmpty, World
  <2>3. Writes[o] \in Values
    BY PracticeAssumption
  <2>. QED
    BY <1>2, <1>8, <2>1, <2>2, <2>3, MeteredIsEarned DEF ChooseOption, SetWorld
<1>9. CASE Reopen
  <2>1. PICK w \in World : w = InitTopic(world, Author)
    BY <1>1, PracticeAssumption, WorldsStay
  <2>2. w.success = world.success
    BY <1>1, <2>1 DEF InitTopic, World
  <2>3. world' = IF MeterFull(w.value) THEN MarkSuccess(w) ELSE w
    BY <1>9, <2>1 DEF Reopen
  <2>4. MeterFull(w.value) /\ world' = MarkSuccess(w)
    BY <2>2, <2>3
  <2>5. world'.value = w.value /\ w.value \in Values
    BY <2>4, PracticeAssumption DEF MarkSuccess, OrEmpty, World
  <2>. QED
    BY <2>4, <2>5 DEF MeterFull, OnTarget, TargetMeetsGoal
<1>10. CASE UNCHANGED world
  BY <1>10
<1>. QED
  BY <1>3, <1>4, <1>5, <1>6, <1>7, <1>8, <1>9, <1>10
  DEF PracticeNext, Recall, QuizPick, QuizNext, ExerciseCheck, ExerciseReveal, Complete,
      Unmark, Flag, Pull, NextDay

(***************************************************************************)
(* The success flag comes on only where success_when holds, for an author  *)
(* whose target satisfies it: the score that PlaygroundBlock.tsx persists  *)
(* by is also full where every parameter is on target.                     *)
(***************************************************************************)
THEOREM SuccessIsEarned ==
  ASSUME DevicesAreSound, TargetMeetsGoal
  PROVE  PracticeSpec => SuccessEarned
<1>1. PracticeInv /\ [PracticeNext]_practiceVars
        => [world'.success /\ ~world.success => world'.value \in Goal]_practiceVars
  BY SuccessStep DEF practiceVars
<1>. QED
  BY <1>1, PracticeStarts, PracticeInvStep, PTL DEF PracticeSpec, SuccessEarned
=============================================================================
