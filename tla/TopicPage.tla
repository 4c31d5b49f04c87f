------------------------------ MODULE TopicPage ------------------------------
(***************************************************************************)
(* The topic page (TopicView.tsx): one mounted component that the reader   *)
(* takes from topic to topic, the loads that answer in any order, the      *)
(* state that ScrollReader seeds for the slug it is given, the view        *)
(* beacon, and the fork chip with its sign-in detour.                      *)
(*                                                                         *)
(* A navigation is one action: the render with the new slug, and the       *)
(* effects that follow it, the child's before the page's.                  *)
(***************************************************************************)
EXTENDS Naturals, FiniteSets

CONSTANTS
    Slug,       \* topics
    Written,    \* those that have content
    Tour,       \* those shown as a tour
    Reader,     \* users who may be signed in
    NoTopic, NoOne,
    MaxVisits   \* bound on navigations

ASSUME TopicPageAssumption ==
    /\ Written \subseteq Slug /\ Tour \subseteq Slug
    /\ NoTopic \notin Slug /\ NoOne \notin Reader
    /\ MaxVisits \in Nat \ {0}   \* the page opens with one

VARIABLES
    url, shown,         \* the route's slug, and the topic in component state
    loading, failed,    \* component state
    mode,               \* viewMode
    visits,             \* loads started: the bound, and their names
    flights,            \* loads not answered
    seed,               \* seed[s]: the topic whose defaults topicState took for s
    begun,              \* topics progressStore has in progress
    answered, views,    \* history: loads that succeeded; beacons sent
    token,              \* who is signed in
    forks,              \* the server's forks
    hasFork, listing,   \* the chip, and whether its listing is awaited
    wanted,             \* pendingForkRef, with the topic it was clicked on
    forking,            \* the fork that is being created (forkBusy)
    opened,             \* history: forks asked for, <<on which page, of which>>
    away                \* the editor is open instead of this page

pageVars == <<url, shown, loading, failed, mode, visits, flights, seed, begun,
              answered, views>>
forkVars == <<token, forks, hasFork, listing, wanted, forking, opened, away>>
topicVars == <<pageVars, forkVars>>

Topic == Slug \cup {NoTopic}

TopicTypeOK ==
    /\ url \in Slug /\ shown \in Topic
    /\ loading \in BOOLEAN /\ failed \in BOOLEAN
    /\ mode \in {"scroll", "slides"}
    /\ visits \in 0 .. MaxVisits
    /\ flights \subseteq [n : 1 .. MaxVisits, slug : Slug]
    /\ seed \in [Slug -> Topic]
    /\ begun \subseteq Slug /\ answered \subseteq Slug
    /\ views \in [Slug -> Nat]
    /\ token \in Reader \cup {NoOne}
    /\ forks \subseteq Reader \X Slug
    /\ hasFork \in BOOLEAN /\ listing \in BOOLEAN
    /\ wanted \in Topic
    /\ forking \in (Reader \X Slug) \cup {NoTopic}
    /\ opened \subseteq Slug \X Slug
    /\ away \in BOOLEAN

TopicInit ==
    /\ url \in Slug /\ shown = NoTopic
    /\ loading = TRUE /\ failed = FALSE
    /\ mode = "scroll"
    /\ visits = 1 /\ flights = {[n |-> 1, slug |-> url]}
    /\ seed = [s \in Slug |-> NoTopic]
    /\ begun = {} /\ answered = {}
    /\ views = [s \in Slug |-> 0]
    /\ token \in Reader \cup {NoOne}
    /\ forks \in SUBSET (Reader \X Slug)
    /\ hasFork = FALSE /\ listing = (token # NoOne)
    /\ wanted = NoTopic /\ forking = NoTopic /\ opened = {}
    /\ away = FALSE

-----------------------------------------------------------------------------
(***************************************************************************)
(* Loading.                                                                *)
(***************************************************************************)

\* ScrollReader is what the page renders.
Reading(t, hold, error, m) ==
    t # NoTopic /\ ~hold /\ ~error /\ t \in Written \ Tour /\ m = "scroll"

\* initTopic(slug, the defaults of the blocks on the page): the first wins.
Seeded(s, t) == IF seed[s] = NoTopic THEN [seed EXCEPT ![s] = t] ELSE seed

Beacon(s, t) == IF t = NoTopic THEN views ELSE [views EXCEPT ![s] = @ + 1]

\* Mutant of Listing: the chip keeps what it says until the listing comes.
ListingKept(who) ==
    /\ listing' = (who # NoOne)
    /\ hasFork' = hasFork

\* The effect on slug and token: a new listing, the one before cancelled.
Listing(who) ==
    /\ listing' = (who # NoOne)
    /\ hasFork' = FALSE

\* A link to another topic: the route changes under the mounted page.
Go(s) ==
    /\ ~away /\ s # url /\ visits < MaxVisits
    /\ url' = s
    /\ seed' = IF Reading(shown, loading, failed, mode) THEN Seeded(s, shown) ELSE seed
    /\ loading' = TRUE /\ failed' = FALSE
    /\ visits' = visits + 1
    /\ flights' = flights \cup {[n |-> visits + 1, slug |-> s]}
    /\ views' = Beacon(s, shown)
    /\ Listing(token)
    /\ UNCHANGED <<shown, mode, begun, answered, token, forks, wanted, forking,
                   opened, away>>

\* Mutant of Started: the topic of the route, not of the load.
StartedHere(s) == url

\* The effect's own slug.
Started(s) == s

\* A load answers, whatever was asked since: nothing cancels it.
Loaded(f) ==
    /\ f \in flights
    /\ flights' = flights \ {f}
    /\ answered' = answered \cup {f.slug}
    /\ begun' = IF f.slug \in Written THEN begun \cup {Started(f.slug)} ELSE begun
    /\ IF away THEN UNCHANGED <<shown, loading, seed, views>>
       ELSE /\ shown' = f.slug
            /\ loading' = FALSE
            /\ views' = Beacon(url, f.slug)
            /\ seed' = IF Reading(f.slug, FALSE, failed, mode)
                       THEN Seeded(url, f.slug) ELSE seed
    /\ UNCHANGED <<url, failed, mode, visits, forkVars>>

\* Mutant of Settled: a failed load leaves the skeleton.
SettledOnSuccess == loading' = loading

\* finally
Settled == loading' = FALSE

LoadFails(f) ==
    /\ f \in flights
    /\ flights' = flights \ {f}
    /\ IF away THEN UNCHANGED <<loading, failed>> ELSE Settled /\ failed' = TRUE
    /\ UNCHANGED <<url, shown, mode, visits, seed, begun, answered, views, forkVars>>

\* The chrome's toggle; ScrollReader mounts anew.
SetViewMode(m) ==
    /\ ~away /\ ~loading /\ ~failed /\ shown # NoTopic /\ m # mode
    /\ mode' = m
    /\ seed' = IF Reading(shown, loading, failed, m) THEN Seeded(url, shown) ELSE seed
    /\ UNCHANGED <<url, shown, loading, failed, visits, flights, begun, answered,
                   views, forkVars>>

-----------------------------------------------------------------------------
(***************************************************************************)
(* The fork chip.                                                          *)
(***************************************************************************)

Mine(s) == <<token, s>> \in forks

\* listMyForks answers for the slug and the user it was asked for.
Listed ==
    /\ listing /\ ~away
    /\ listing' = FALSE
    /\ hasFork' = Mine(url)
    /\ UNCHANGED <<pageVars, token, forks, wanted, forking, opened, away>>

ListingFails ==
    /\ listing /\ ~away
    /\ listing' = FALSE
    /\ UNCHANGED <<pageVars, token, forks, hasFork, wanted, forking, opened, away>>

\* createAndOpenFork, for the slug of the last render.
CreateFork(who, on) ==
    IF forking = NoTopic
    THEN /\ forking' = <<who, url>>
         /\ opened' = opened \cup {<<on, url>>}
    ELSE UNCHANGED <<forking, opened>>

\* What the chip of the chrome says; none on a tour, or without a topic.
ForkChip ==
    IF away \/ loading \/ failed \/ shown \notin Slug \ Tour THEN "none"
    ELSE IF forking # NoTopic THEN "busy"
    ELSE IF hasFork THEN "open" ELSE "fork"

\* handleForkClick: sign-in first, the fork that exists, or a new one.
ClickFork ==
    /\ ForkChip \in {"open", "fork"}
    /\ IF token = NoOne
       THEN wanted' = url /\ UNCHANGED <<forking, opened, away>>
       ELSE IF hasFork THEN away' = TRUE /\ UNCHANGED <<wanted, forking, opened>>
       ELSE CreateFork(token, url) /\ UNCHANGED <<wanted, away>>
    /\ UNCHANGED <<pageVars, token, forks, hasFork, listing>>

\* The token lands: a new listing, and the fork that waited for it.  A
\* sign-in given up leaves wanted as it is.
SignIn(u) ==
    /\ ~away /\ token = NoOne
    /\ token' = u
    /\ Listing(u)
    /\ IF wanted # NoTopic
       THEN wanted' = NoTopic /\ CreateFork(u, wanted)
       ELSE UNCHANGED <<wanted, forking, opened>>
    /\ UNCHANGED <<pageVars, forks, away>>

SignOut ==
    /\ ~away /\ token # NoOne
    /\ token' = NoOne
    /\ Listing(NoOne)
    /\ UNCHANGED <<pageVars, forks, wanted, forking, opened, away>>

\* Created, or a 409: the editor opens.
ForkOpens ==
    /\ forking # NoTopic
    /\ forks' = forks \cup {forking}
    /\ forking' = NoTopic
    /\ away' = TRUE
    /\ UNCHANGED <<pageVars, token, hasFork, listing, wanted, opened>>

\* The POST fails, or its answer is lost.
ForkFails ==
    /\ forking # NoTopic
    /\ forks' \in {forks, forks \cup {forking}}
    /\ forking' = NoTopic
    /\ UNCHANGED <<pageVars, token, hasFork, listing, wanted, opened, away>>

TopicNext ==
    \/ \E s \in Slug : Go(s)
    \/ \E f \in flights : Loaded(f) \/ LoadFails(f)
    \/ \E m \in {"scroll", "slides"} : SetViewMode(m)
    \/ Listed \/ ListingFails \/ ClickFork
    \/ \E u \in Reader : SignIn(u)
    \/ SignOut \/ ForkOpens \/ ForkFails

\* A request is answered, if only by a network error.
Answers == \E f \in flights : Loaded(f) \/ LoadFails(f)

TopicSpec ==
    TopicInit /\ [][TopicNext]_topicVars /\ WF_topicVars(Answers)

-----------------------------------------------------------------------------
(***************************************************************************)
(* What the page promises.                                                 *)
(***************************************************************************)

\* A topic is in progress only once its own content was loaded, however the
\* loads of a reader who moves on are answered (TopicView.tsx:93).
BegunWasRead == begun \subseteq answered \cap Written

\* "Open my fork" is offered only for a fork of this topic by this user
\* (TopicView.tsx:113 "does the signed-in user already have a fork").
ChipIsTrue == ForkChip = "open" => Mine(url)

TopicIsItsOwn == BegunWasRead /\ ChipIsTrue

\* The skeleton is there and the page is open.
TopicWaits == loading /\ ~away

\* The state a topic's plots share starts from the topic's own defaults
\* (ScrollReader.tsx:328 "The topic's state directive supplies defaults").
SeededByOwn == \A s \in Slug : seed[s] \in {s, NoTopic}

\* A view is counted for a load that succeeded (TopicView.tsx:102 "count the
\* topic view once the fetch succeeded").
ViewsWereLoads == \A s \in Slug : views[s] > 0 => s \in answered

\* A fork is of the topic whose page it was asked on.
ForkIsOfItsPage == \A o \in opened : o[1] = o[2]
=============================================================================
