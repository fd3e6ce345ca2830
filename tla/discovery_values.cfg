SPECIFICATION Spec
CONSTANTS
    Federate = {1, 2}
    Class <- MCClass
    SuperClass <- MCSuperClass
    AttributesOf <- MCAttributesOf
    InteractionClass <- MCInteractionClass
    SuperInteraction <- MCSuperInteraction
    None = "none"
    MaxObject = 2
    NameOf <- OwnNames
    Lists <- AnyOrder
    Publishers = {1}
    Subscribers = {2}
    Mortal = {1}
    Service <- MCService
    MaxCalls <- OneUpdate
    Programs <- ObjectsOrInteractions
\* The calls are bounded.
CHECK_DEADLOCK FALSE
INVARIANTS
    ValuesFollowAttributes
