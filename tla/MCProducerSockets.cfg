SPECIFICATION PlainSpec
CONSTANTS
    Members = {o, m1}
    Teams = {}
    Bootstrap = o
    Bindings = {b1}
    MaxMembers = 2
    MaxTeams = 1
    MaxTeamMembers = 1
    MaxBindings = 1
    Ttl = 1
    MaxRevision = 2
    MaxTime = 0
    Connections = {c1, c2}
    Null = Null
INVARIANTS UsableSocketsAreAuthorized RuntimeHeldByItsUsers
PROPERTIES InvalidatedSocketsClose
CHECK_DEADLOCK FALSE
