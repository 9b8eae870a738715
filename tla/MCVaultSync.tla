----------------------------- MODULE MCVaultSync -----------------------------
(***************************************************************************)
(* Instances of VaultSync for model checking: two devices with a window    *)
(* each, or one device with two windows.                                   *)
(***************************************************************************)
EXTENDS VaultSync, TLC

CONSTANTS d1, d2, t1, t2, e1, e2, e3

TwoDevices == t1 :> d1 @@ t2 :> d2
OneDevice  == t1 :> d1 @@ t2 :> d1

(* The edits are interchangeable, and with two devices so are the devices  *)
(* together with their windows.                                            *)
EditSymmetry == Permutations(Edits)

Symmetry ==
    Permutations(Edits) \cup {d1 :> d2 @@ d2 :> d1 @@ t1 :> t2 @@ t2 :> t1}
=============================================================================
