--------------------------- MODULE MCProgressSync ---------------------------
(***************************************************************************)
(* Small instances of ProgressSync: one account; two devices with one      *)
(* connection each, or one device with two.                                *)
(***************************************************************************)
EXTENDS ProgressSync, TLC

CONSTANTS d1, d2, k1, k2, v0, v1, v2, v3, f1, f2

\* Two devices, or one page that has a push and a pull in flight at once.
TwoDeviceOwner == (k1 :> d1) @@ (k2 :> d2)
OneDeviceOwner == (k1 :> d1) @@ (k2 :> d1)

OnTime == [d \in Device |-> 0]
Fast == [d \in Device |-> 1]

Limits(edits, faults, reloads, logouts) ==
    [b \in Budget |-> CASE b = "edit"   -> edits
                        [] b = "fault"  -> faults
                        [] b = "reload" -> reloads
                        [] b = "logout" -> logouts]

\* A permutation of the devices moves each connection along with its owner
\* (for TwoDeviceOwner).
Carry(p) ==
    [x \in Device \cup Conn |->
        IF x \in Device THEN p[x]
        ELSE CHOOSE k \in Conn : Owner[k] = p[Owner[x]]]

ValueSymmetry == Permutations(Value \ {Nil})
Symmetry == {Carry(p) : p \in Permutations(Device)} \cup ValueSymmetry

\* The limits of the runs.
SafetyLimits == Limits(2, 1, 0, 1)
RestartLimits == Limits(3, 1, 1, 0)
LivenessLimits == Limits(2, 1, 0, 0)
OverlapLimits == Limits(3, 0, 0, 0)
KeptLimits == Limits(2, 0, 1, 0)
=============================================================================
