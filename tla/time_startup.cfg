SPECIFICATION Spec
CONSTANTS
    Federate = {a, b}
    a = a
    b = b
    Regulators = {a, b}
    Constraineds = {a, b}
    Asynchronous = {}
    Times = {0, 2}
    Lookaheads = {0, 2}
    Eps = 1
    Services = {"TAR", "TARA", "NER", "send", "receive_order"}
    Liberties = {}
    MaxSpent = 1
SYMMETRY Symmetry
\* The federates stop at the last date.
CHECK_DEADLOCK FALSE
INVARIANTS
    TypeOK
    NoInternalError
    GrantIsFinal
    SafetyInvariant
    ClocksAreLowerBounds
    AdvanceIsAnnounced
    EventInvariant
PROPERTIES
    KeepsPromise
    TimeGoesForward
    ImplementsConservativeTime
