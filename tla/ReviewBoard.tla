----------------------------- MODULE ReviewBoard -----------------------------
(***************************************************************************)
(* What merge-back promises (docs/forks.md, "Lifecycle"): a proposal is    *)
(* put up as pending, may be revised while it is, and is resolved once;    *)
(* the master topic becomes the proposal's text in the step that accepts   *)
(* it, and changes in no other.                                            *)
(***************************************************************************)
CONSTANTS Proposal, Text

VARIABLES
    master,    \* the source of what readers of the topic see
    proposal   \* proposal[p]: its status and the text it proposes

vars == <<master, proposal>>

Unused(text) == [status |-> "none", text |-> text]

Init ==
    /\ master \in Text
    /\ \E text \in Text : proposal = [p \in Proposal |-> Unused(text)]

Put(p, status, text) ==
    proposal' = [proposal EXCEPT ![p] = [status |-> status, text |-> text]]

Propose(p, text) ==
    /\ proposal[p].status = "none"
    /\ Put(p, "pending", text)
    /\ UNCHANGED master

Revise(p, text) ==
    /\ proposal[p].status = "pending"
    /\ Put(p, "pending", text)
    /\ UNCHANGED master

Accept(p) ==
    /\ proposal[p].status = "pending"
    /\ Put(p, "accepted", proposal[p].text)
    /\ master' = proposal[p].text

Reject(p) ==
    /\ proposal[p].status = "pending"
    /\ Put(p, "rejected", proposal[p].text)
    /\ UNCHANGED master

Next ==
    \E p \in Proposal :
        \/ \E text \in Text : Propose(p, text) \/ Revise(p, text)
        \/ Accept(p) \/ Reject(p)

Spec == Init /\ [][Next]_vars
=============================================================================
