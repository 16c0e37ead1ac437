SPECIFICATION ProvisioningSpec
CONSTANTS
    Callers = {c1, c2}
    Organizations = {o1, o2}
    MaxActive = 1
    MaxOpens = 3
    MaxOrganizations = 1
INVARIANTS CreationBound
CHECK_DEADLOCK FALSE
