SPECIFICATION Spec
CONSTANTS
    NoHash = NoHash
    MaxVersion = 4
    Envelopes <- MCEnvelopes
    Markers <- MCMarkers
    Streams = {"s"}
    Instances = {"i1"}
    Terms <- MCTerms
    MaxEvents = 3
    MaxCheckpoints = 2
    MaxAuditEntries = 3
    MaxAggregateBytes = 9
    Disclosures = {"d1"}
    Times = {1, 2}
    MaxDisclosures = 1
    Readers <- MCReaders
INVARIANTS Reopenable StopsAlwaysFit AuditExplainsVersion ReadersGetWholePrefixes
PROPERTIES LostAccessChangesVersion ImplementsPromise
CHECK_DEADLOCK FALSE
