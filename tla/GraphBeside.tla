------------------------------ MODULE GraphBeside ------------------------------
(***************************************************************************)
(* The graph beside a text: the canvas that a tour scrolls over            *)
(* (TourView.tsx) and the figures in the right column of a topic           *)
(* (GraphFlythrough.tsx).  A topic has the one or the others, and they     *)
(* share nothing but the kind of thing they show.                          *)
(***************************************************************************)
EXTENDS TourView, GraphFlights

\* The tour's camera is on the section that is read, a figure's on its target,
\* and no figure waits that no answer will reach.
FiguresAimTrue == TourShowsItsSection /\ NobodyWaitsForNothing
=============================================================================
