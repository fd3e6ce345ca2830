SPECIFICATION SpecSynchronized
CONSTANTS
    Federate = {a, b}
    a = a
    b = b
    Regulators = {a}
    Constraineds = {b}
    Asynchronous = {}
    Times = {0, 2}
    Lookaheads = {2}
    Eps = 1
    Services = {"TAR", "NERA", "unregulate"}
    Liberties = {"late_regulation", "zero_lookahead_switch"}
    MaxSpent = 1
\* The federates stop at the last date.
CHECK_DEADLOCK FALSE
INVARIANTS
    EveryMessageFits
    ClocksReplicate
