------------------------ MODULE OwnershipRefinement ------------------------
(***************************************************************************)
(* The RTIG, the federates and the requests and callbacks between them are   *)
(* an implementation of ExclusiveOwnership.  A federate uses what it         *)
(* believes it owns, from the callback that tells it to the call by which it *)
(* gives it away; nothing is promised of federates that have resigned or are *)
(* lost, nor of the attributes of a divestiture that ended in an internal    *)
(* error.                                                                    *)
(***************************************************************************)
EXTENDS Ownership

InUse(f) == IF rtigUp /\ exists /\ Present(f) THEN believes[f] \ doubt ELSE {}

Abstract == INSTANCE ExclusiveOwnership WITH
    holder <- owner,
    uses   <- [f \in Federate |-> InUse(f)]

\* Two federates never take themselves for the owner of an attribute at a time, and
\* an attribute never changes hands while one does, whatever acquisitions, releases,
\* divestitures, cancellations and losses cross (ObjectClass.cc, Object.cc,
\* ObjectSet.cc with the callbacks on their way).
ImplementsExclusiveOwnership == Abstract!Spec
=============================================================================
