SPECIFICATION Spec
CONSTANTS
    Alerts = {"a", "b", "c"}
    Unreadable <- MCUnreadable
    Exporters = {"p", "q"}
    None = None
    MaxPending = 2
    DeliveryAttempts = 2
    MaxFaults = 1
PROPERTIES ImplementsAlertPromise AcceptedAlertsSettle
CHECK_DEADLOCK FALSE
