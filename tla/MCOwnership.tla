---------------------------- MODULE MCOwnership ----------------------------
(***************************************************************************)
(* Instances of Ownership for TLC: federate 2 registers the object, so that  *)
(* a candidate can have a smaller or a greater handle than the owner.        *)
(***************************************************************************)
EXTENDS OwnershipRefinement

MCAttribute == {"privilegeToDelete", "position"}

MCLists == {{"position"}, {"privilegeToDelete", "position"}}

\* Everyone publishes the attribute; nobody needs to publish the privilege.
MCPublishes == [f \in Federate |-> {"position"}]
=============================================================================
