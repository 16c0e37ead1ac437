SPECIFICATION ProvisioningSpec
CONSTANTS
    Callers = {c1, c2}
    Organizations = {o1, o2}
    MaxActive = 1
    MaxOpens = 3
    MaxOrganizations = 2
INVARIANTS OwnersDoNotOverlap LeasedRuntimesStayOpen CloseLeavesNothingOpen ActiveMeansEstablished LeasesAreReturned
PROPERTIES CreationsSettle
CHECK_DEADLOCK FALSE
