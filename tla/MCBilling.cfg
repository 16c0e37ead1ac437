SPECIFICATION Spec
CONSTANTS
    Orders = {"k1"}
    Terms = {"t1"}
    Checkouts = {"x", "y"}
    Events <- MCEvents
    Requests = {q1, q2}
    None = None
INVARIANTS AnswersAgree
PROPERTIES ImplementsOrderLedger EventsAreRecorded
CHECK_DEADLOCK FALSE
