SPECIFICATION Spec
CONSTANTS
    Federate = {a, b, c}
    Founders = {a, b}
    Label = {"start"}
    FederateSets = {{a, b}}
    Savers = {a}
    Restorers = {a}
    Mortal = {c}
    MaxCalls <- EveryService
    MaxServices = 2
\* The calls are bounded, and the RTIG may die.
CHECK_DEADLOCK FALSE
INVARIANTS
    TypeOK
    EndsTogether
    NoStrayAnswer
    FederationInvariant
    StrayInvariant
PROPERTIES
    ImplementsRendezvous
