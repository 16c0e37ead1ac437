SPECIFICATION Spec
CONSTANTS
    Requests <- MCThreeRequests
    Texts = {"t"}
    Executors = {x}
    Null = Null
    NoHash = Null
    ExpiresAt <- MCExpiresAt
    KeyOrder <- MCKeyOrder
    ClockSteps <- MCForward
    ExecutionLease = 1
    MaxLifetime = 3
    MaxRequests = 2
    MaxRetained = 3
    MaxItems = 2
    MaxTime = 2
    MaxAuthority = 0
    MaxGranted = 3
    MaxVersion = 5
INVARIANTS MailboxReopens
PROPERTIES OnlyTheOldestReplyIsEvicted
CHECK_DEADLOCK FALSE
