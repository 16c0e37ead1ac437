SPECIFICATION InvitationSpec
CONSTANTS
    Members = {o, m1}
    Teams = {}
    Bootstrap = o
    Bindings = {}
    MaxMembers = 3
    MaxTeams = 1
    MaxTeamMembers = 1
    MaxBindings = 1
    Ttl = 1
    MaxRevision = 2
    MaxTime = 0
    Null = Null
    Invitations = {i1, i2}
    Requests = {q1, q2}
    MaxAttempts = 2
    MaxSyncs = 1
SYMMETRY Alike
INVARIANTS LinkageIsExplained
PROPERTIES OutcomesAreFinal CleanupSparesMembers
CHECK_DEADLOCK FALSE
