---------------------------- MODULE GraphFlights ----------------------------
(***************************************************************************)
(* The figures of the graph that a topic shows in the right column         *)
(* (topic/blocks/GraphFlythrough.tsx).  They share one payload of the      *)
(* session and the request for it, which live outside every component;     *)
(* each aims its own camera at its target by two timers.                   *)
(***************************************************************************)
EXTENDS Naturals

CONSTANTS
    Flight,         \* places a figure can be in
    Aimed,          \* targets, with NoAim of a figure that names none
    NoAim,
    MaxFlights      \* bound: figures mounted

ASSUME FlightAssumption == NoAim \notin Aimed /\ MaxFlights \in Nat

VARIABLES
    graphCache,     \* _graphCache: whether it has the payload
    inflight,       \* _graphInflight: the figures that wait on its promise
    flight,         \* the figures, by place
    flown           \* figures mounted

flightVars == <<graphCache, inflight, flight, flown>>

\* The promise when there is one; figures that were unmounted are cancelled.
NoPromise == [open |-> FALSE, waiting |-> {}]
Gone == [shows |-> "gone", target |-> NoAim, timers |-> 0, camera |-> NoAim]

FlightTypeOK ==
    /\ graphCache \in BOOLEAN
    /\ inflight \in [open : BOOLEAN, waiting : SUBSET Flight]
    /\ flight \in [Flight -> [shows : {"gone", "loading", "graph", "error"},
                              target : Aimed \cup {NoAim}, timers : 0 .. 2,
                              camera : Aimed \cup {NoAim}]]
    /\ flown \in 0 .. MaxFlights

-----------------------------------------------------------------------------
\* The effect on the target and on whether there are nodes: its timers of
\* before are cleared.
Rearmed(figure) ==
    [figure EXCEPT !.timers = IF figure.target # NoAim /\ figure.shows = "graph" THEN 2 ELSE 0]

\* fetchGraphCached: the payload, else the request that is open, else a new one.
MountFlight(f, target) ==
    /\ flown < MaxFlights /\ flight[f] = Gone
    /\ flown' = flown + 1
    /\ flight' = [flight EXCEPT ![f] = Rearmed(
                    [Gone EXCEPT !.shows = IF graphCache THEN "graph" ELSE "loading",
                                 !.target = target])]
    /\ inflight' = IF graphCache THEN inflight
                   ELSE [open |-> TRUE, waiting |-> inflight.waiting \cup {f}]
    /\ UNCHANGED graphCache

UnmountFlight(f) ==
    /\ flight[f] # Gone
    /\ flight' = [flight EXCEPT ![f] = Gone]
    /\ inflight' = [inflight EXCEPT !.waiting = @ \ {f}]
    /\ UNCHANGED <<graphCache, flown>>

\* The section beside the figure gave it another target.
Retarget(f, target) ==
    /\ flight[f] # Gone /\ target # flight[f].target
    /\ flight' = [flight EXCEPT ![f] = Rearmed([@ EXCEPT !.target = target])]
    /\ UNCHANGED <<graphCache, inflight, flown>>

Landed(shows) ==
    [f \in Flight |-> IF f \in inflight.waiting THEN Rearmed([flight[f] EXCEPT !.shows = shows])
                      ELSE flight[f]]

FlightsAnswered ==
    /\ inflight.open
    /\ graphCache' = TRUE
    /\ inflight' = NoPromise
    /\ flight' = Landed("graph")
    /\ UNCHANGED flown


\* The next figure asks again.
Forgot == NoPromise

FlightsFailed ==
    /\ inflight.open
    /\ inflight' = Forgot
    /\ flight' = Landed("error")
    /\ UNCHANGED <<graphCache, flown>>

FlightTick(f) ==
    /\ flight[f].timers > 0
    /\ flight' = [flight EXCEPT ![f].timers = @ - 1, ![f].camera = flight[f].target]
    /\ UNCHANGED <<graphCache, inflight, flown>>

FlightInit ==
    /\ graphCache = FALSE /\ inflight = NoPromise
    /\ flight = [f \in Flight |-> Gone] /\ flown = 0

FlightReplies == FlightsAnswered \/ FlightsFailed

FlightNext ==
    \/ \E f \in Flight : \/ UnmountFlight(f) \/ FlightTick(f)
                         \/ \E t \in Aimed \cup {NoAim} : MountFlight(f, t) \/ Retarget(f, t)
    \/ FlightReplies

FlightSpec == FlightInit /\ [][FlightNext]_flightVars /\ WF_flightVars(FlightReplies)

-----------------------------------------------------------------------------
\* A figure that waits is on the promise of a request that is open, so that
\* an answer will reach it; none waits once the session has the payload.
NobodyWaitsForNothing ==
    /\ {f \in Flight : flight[f].shows = "loading"} = inflight.waiting
    /\ inflight.open => ~graphCache
    /\ \A f \in Flight : flight[f].shows = "graph" /\ flight[f].timers = 0
                            /\ flight[f].target # NoAim
                         => flight[f].camera = flight[f].target

\* A figure is loading.
FlightWaits == \E f \in Flight : flight[f].shows = "loading"
=============================================================================
