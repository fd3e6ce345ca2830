SPECIFICATION Spec
CONSTANTS
    Federate = {a, b}
    Founders = {a, b}
    Label = {"start"}
    FederateSets = {}
    Savers = {a}
    Restorers = {}
    Mortal = {}
    MaxCalls <- TwoSaves
    MaxServices = 2
\* The calls are bounded.
CHECK_DEADLOCK FALSE
INVARIANTS
    AwaitedCanAnswer
