SPECIFICATION SpecSynchronized
CONSTANTS
    Federate = {a, b}
    a = a
    b = b
    Regulators = {a}
    Constraineds = {a, b}
    Asynchronous = {}
    Times = {0, 2}
    Lookaheads = {2}
    Eps = 1
    Services = {"TAR", "NERA"}
    Liberties = {}
    MaxSpent = 1
CHECK_DEADLOCK FALSE
PROPERTIES
    TimeGoesForward
