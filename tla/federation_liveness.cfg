SPECIFICATION FairSpec
CONSTANTS
    Federate = {a, b}
    Founders = {a}
    Label = {"start"}
    FederateSets = {}
    Savers = {a}
    Restorers = {a}
    Mortal = {}
    MaxCalls <- LabelSaveRestorations
    MaxServices = 2
\* The calls are bounded.
CHECK_DEADLOCK FALSE
INVARIANTS
    AwaitedCanAnswer
    AwaitedInvariant
    PendingIsOwed
PROPERTIES
    Resolved
    RequesterIsTold
