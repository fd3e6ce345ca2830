------------------------- MODULE ExclusiveOwnership -------------------------
(***************************************************************************)
(* What ownership management promises of the attributes of an object, with   *)
(* no requests, candidates nor callbacks.  An attribute has one owner or     *)
(* none; only its owner uses it, and it changes hands only while nobody      *)
(* does.  When the RTIG stops or the object is deleted, nobody uses          *)
(* anything of it any more.                                                  *)
(***************************************************************************)
CONSTANTS Federate, Attribute, NoOwner

VARIABLES
    holder,     \* the owner of each attribute
    uses        \* the attributes that each federate takes itself for the owner of

vars == <<holder, uses>>

Holders == [Attribute -> Federate \cup {NoOwner}]

Init ==
    /\ holder \in Holders
    /\ uses = [f \in Federate |-> {a \in Attribute : holder[a] = f}]

Use(f, S) ==
    /\ \A a \in S : holder[a] = f
    /\ uses' = [uses EXCEPT ![f] = S]
    /\ UNCHANGED holder

Pass ==
    /\ holder' \in Holders
    /\ \A f \in Federate : \A a \in uses[f] : holder'[a] = holder[a]
    /\ UNCHANGED uses

Stop ==
    /\ holder' \in Holders
    /\ uses' = [f \in Federate |-> {}]

Next ==
    \/ \E f \in Federate, S \in SUBSET Attribute : Use(f, S)
    \/ Pass
    \/ Stop

Spec == Init /\ [][Next]_vars
=============================================================================
