-------------------------- MODULE ProgressRegister --------------------------
(***************************************************************************)
(* What the progress API promises its callers (progress.py's docstring and *)
(* models/progress.py): per account, one last-write-wins register a topic. *)
(* A request offers a slice for some topics; the server settles an offer   *)
(* at once, at most one time, and all its topics with one stamp, or drops  *)
(* it whole.                                                               *)
(***************************************************************************)
EXTENDS Naturals

CONSTANTS Client, Account, NoAccount, Topic, Slice, Blank

Entry == [slice : Slice, at : Nat]
Absent == [slice |-> Blank, at |-> 0]
Present(e) == e.at > 0

VARIABLES
    clock,
    row,    \* row[a][t]: the entry account a has for topic t
    offer   \* offer[c]: what client c waits to have settled, and for whom

vars == <<clock, row, offer>>

NoOffer == [auth |-> NoAccount, body |-> [t \in Topic |-> Absent]]

Init ==
    /\ clock \in Nat \ {0}
    /\ row = [a \in Account |-> [t \in Topic |-> Absent]]
    /\ offer = [c \in Client |-> NoOffer]

\* An offer is accepted unless the register holds something later.
Accepts(mine, theirs) == Present(theirs) /\ (Present(mine) => theirs.at >= mine.at)

\* An accepted offer that says nothing new leaves the stamp alone.
Settled(mine, theirs, stamp) ==
    IF Accepts(mine, theirs) /\ (theirs.slice # mine.slice \/ ~Present(mine))
      THEN [slice |-> theirs.slice, at |-> stamp]
      ELSE mine

Settle(c) ==
    LET a == offer[c].auth
    IN  /\ offer[c] # NoOffer /\ a # NoAccount
        /\ \E stamp \in 1..clock :
              /\ row' = [row EXCEPT ![a] =
                           [t \in Topic |-> Settled(row[a][t], offer[c].body[t], stamp)]]
              /\ \A t \in Topic : row'[a][t].at >= row[a][t].at
        /\ offer' = [offer EXCEPT ![c] = NoOffer]
        /\ UNCHANGED clock

\* A client starts to wait, or gives up: an offer is never altered.
Turn(c) ==
    /\ offer[c] = NoOffer \/ offer'[c] = NoOffer
    /\ offer' = [offer EXCEPT ![c] = offer'[c]]
    /\ UNCHANGED <<clock, row>>

Advance == clock' = clock + 1 /\ UNCHANGED <<row, offer>>

Next == Advance \/ \E c \in Client : Settle(c) \/ Turn(c)

Spec == Init /\ [][Next]_vars
=============================================================================
