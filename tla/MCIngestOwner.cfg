SPECIFICATION Spec
CONSTANTS
    Callers = {c1, c2}
    Disclosures = {"d1", "d2"}
    Members = {"a", "m"}
    Admin = "a"
    Operations <- MCOperations
    Journaled = TRUE
    MaxOperations = 3
    MaxVersion = 3
INVARIANTS JournalAccountsForVersions ListenersKeepUp
PROPERTIES CredentialsFollowDirectory ImplementsAtomicOwner EveryCallSettles
CHECK_DEADLOCK FALSE
