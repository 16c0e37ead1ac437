SPECIFICATION Spec
CONSTANTS
    Members = {o, m1, m2}
    Teams = {t1}
    Bootstrap = o
    Bindings = {b1, b2}
    MaxMembers = 3
    MaxTeams = 1
    MaxTeamMembers = 2
    MaxBindings = 1
    Ttl = 2
    MaxRevision = 3
    MaxTime = 2
    Null = Null
SYMMETRY Alike
INVARIANTS EnrollmentReopens
PROPERTIES ImplementsEnrollmentPromise
CHECK_DEADLOCK FALSE
