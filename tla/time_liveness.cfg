SPECIFICATION FairSpecSynchronized
CONSTANTS
    Federate = {a, b}
    a = a
    b = b
    Regulators = {a, b}
    Constraineds = {a, b}
    Asynchronous = {}
    Times = {0, 2}
    Lookaheads = {0, 2}
    Eps = 1
    Services = {"TAR", "NER", "unregulate"}
    Liberties = {}
    MaxSpent = 1
\* The federates stop at the last date.
CHECK_DEADLOCK FALSE
PROPERTIES
    AdvanceIsGranted
    EveryoneReachesTheEnd
