SPECIFICATION Spec
CONSTANTS
    Federate = {1, 2, 3}
    Attribute <- MCAttribute
    PrivilegeToDelete = "privilegeToDelete"
    Creator = 2
    Publishes <- MCPublishes
    Services = {"acquisitionIfAvailable", "releaseResponse"}
    Lists <- MCLists
    Mortal = {}
    MaxRequests = 4
\* The requests are bounded, and the RTIG may die.
CHECK_DEADLOCK FALSE
PROPERTY AcquiredAsAsked
