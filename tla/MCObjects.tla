----------------------------- MODULE MCObjects -----------------------------
(***************************************************************************)
(* Instances of Objects for TLC: a class and its subclass, which adds an      *)
(* attribute, and two classes of interactions, one the parent of the other.  *)
(***************************************************************************)
EXTENDS Objects

MCClass == {"Vehicle", "Car"}
MCSuperClass == [c \in MCClass |-> IF c = "Car" THEN "Vehicle" ELSE "none"]
MCAttributesOf ==
    [c \in MCClass |-> IF c = "Car" THEN {"position", "gear"} ELSE {"position"}]

MCInteractionClass == {"Event", "Crash"}
MCSuperInteraction ==
    [c \in MCInteractionClass |-> IF c = "Crash" THEN "Event" ELSE "none"]

\* Every object has its own name, as the names the RTIG makes up.
OwnNames == [o \in Object |-> o]

\* In the order of the handles, inherited attributes first.
InOrder == {<<"position">>, <<"gear">>, <<"position", "gear">>}

\* In the order the caller chose.
AnyOrder == InOrder \cup {<<"gear", "position">>}

MCService == {"publish", "subscribe", "register", "update", "delete", "interactions",
              "send", "resign"}

\* The objects and the interactions do not share any state of the RTIG.
ObjectsOrInteractions ==
    {MCService \ {"interactions", "send"}, {"interactions", "send", "resign"}}

Calls(publish, subscribe, register, update, interactions) ==
    [s \in MCService |-> CASE s = "publish" -> publish
                           [] s = "subscribe" -> subscribe
                           [] s = "register" -> register
                           [] s = "update" -> update
                           [] s = "interactions" -> interactions
                           [] OTHER -> 1]

FewCalls == Calls(1, 3, 2, 1, 4)
OneUpdate == Calls(1, 1, 1, 1, 0)
=============================================================================
