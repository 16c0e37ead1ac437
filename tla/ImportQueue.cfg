SPECIFICATION Spec
CONSTANTS
    Imports = {"k1", "k2"}
    Targets = {t1}
    Calls = {c1, c2}
    MaxOperations = 2
    MaxVersion = 2
    None = None
INVARIANTS CompletedImportsArrived
PROPERTIES ImportsSettleOnce TakenAsAuthorized CallsSettle
CHECK_DEADLOCK FALSE
