SPECIFICATION Spec
CONSTANTS
    Requests <- MCOneRequest
    Texts = {"t", "u"}
    Executors = {x, y}
    Null = Null
    NoHash = Null
    ExpiresAt <- MCExpiresAt
    KeyOrder <- MCKeyOrder
    ClockSteps <- MCSetBack
    ExecutionLease = 1
    MaxLifetime = 3
    MaxRequests = 1
    MaxRetained = 2
    MaxItems = 1
    MaxTime = 3
    MaxAuthority = 1
    MaxGranted = 4
    MaxVersion = 6
PROPERTIES RepliesComeFromTheHolder BodiesLeaveUnderAuthority ImplementsQuestionPromise ExpiredBodiesErased
CHECK_DEADLOCK FALSE
