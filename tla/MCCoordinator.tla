---------------------------- MODULE MCCoordinator ----------------------------
(***************************************************************************)
(* A few Realms and notifiers for Coordinator.tla.                         *)
(***************************************************************************)
EXTENDS Coordinator, TLC

CONSTANTS ra, rb, na, nb

(* One Realm has a notifier, and the other one writes; each has one; one    *)
(* has both.                                                                *)
OneOwner  == [n \in {na} |-> ra]
TwoOwners == [n \in {na, nb} |-> IF n = na THEN ra ELSE rb]
BothOfOne == [n \in {na, nb} |-> ra]

(* The Realms of TwoOwners change places, and their notifiers with them.    *)
Swap     == (ra :> rb) @@ (rb :> ra) @@ (na :> nb) @@ (nb :> na)
Symmetry == {Swap}
=============================================================================
