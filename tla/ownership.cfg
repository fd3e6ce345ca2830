SPECIFICATION Spec
CONSTANTS
    Federate = {1, 2, 3}
    Attribute <- MCAttribute
    PrivilegeToDelete = "privilegeToDelete"
    Creator = 2
    Publishes <- MCPublishes
    Services = {"acquisition", "acquisitionIfAvailable", "unconditionalDivestiture",
                "releaseResponse", "negotiatedDivestiture", "cancelDivestiture",
                "cancelAcquisition", "query", "delete", "resign"}
    Lists <- MCLists
    Mortal = {1}
    MaxRequests = 4
\* The requests are bounded, and the RTIG may die.
CHECK_DEADLOCK FALSE
INVARIANTS
    TypeOK
    OwnersAgree
    NoLostAcquisition
    DeleterOwnsPrivilege
PROPERTIES
    OnlyGivenAway
    ImplementsExclusiveOwnership
