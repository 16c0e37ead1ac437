-------------------------- MODULE DisclosureProofs --------------------------
(***************************************************************************)
(* Proofs, for every value of the constants, that the registry's rows stay *)
(* well formed, parse again on reopening and can always be stopped, that   *)
(* their audit windows explain their versions, that nobody loses access    *)
(* under a version already cached, and that the registry implements        *)
(* ConfirmedHistory.                                                       *)
(***************************************************************************)
EXTENDS DisclosureProperties, FiniteSetTheorems, SequenceTheorems, TLAPS

---------------------------------------------------------------------------
(* Keeping the recent end of a sequence: slice(-n) drops a prefix.          *)
LEMMA RecentFacts ==
    ASSUME NEW S, NEW s \in Seq(S), NEW n \in Nat \ {0}
    PROVE  /\ Recent(s, n) \in Seq(S)
           /\ Len(Recent(s, n)) = IF Len(s) <= n THEN Len(s) ELSE n
<1>1. CASE Len(s) <= n
    BY <1>1 DEF Recent
<1>2. CASE Len(s) > n
    <2> DEFINE m == Len(s) - n + 1
    <2>1. m \in Int /\ Len(s) \in Int /\ m >= 1 /\ m <= Len(s)
        BY <1>2
    <2>2. \A i \in m..Len(s) : s[i] \in S
        BY <2>1, ElementOfSeq
    <2>3. /\ SubSeq(s, m, Len(s)) \in Seq(S)
          /\ Len(SubSeq(s, m, Len(s))) = n
        BY <2>1, <2>2, SubSeqProperties
    <2>4. Recent(s, n) = SubSeq(s, m, Len(s))
        BY <1>2 DEF Recent
    <2> QED BY <1>2, <2>1, <2>3, <2>4
<1> QED BY <1>1, <1>2

LEMMA RecentAppend ==
    ASSUME NEW S, NEW s \in Seq(S), NEW e \in S, NEW n \in Nat \ {0}
    PROVE  /\ Recent(Append(s, e), n) \in Seq(S)
           /\ Len(Recent(Append(s, e), n)) \in 1..n
<1> DEFINE log == Append(s, e)
<1>1. log \in Seq(S) /\ Len(log) = Len(s) + 1 /\ Len(s) \in Nat
    OBVIOUS
<1> HIDE DEF log
<1>2. Recent(log, n) \in Seq(S) /\ Len(Recent(log, n)) \in 1..n
    BY <1>1, RecentFacts
<1> QED BY <1>2 DEF log

LEMMA LogGrows ==
    ASSUME NEW v \in Nat, NEW w \in Nat, v <= w, NEW log \in Seq(LogUpTo(v))
    PROVE  log \in Seq(LogUpTo(w))
<1>1. LogUpTo(v) \subseteq LogUpTo(w)
    BY DEF LogUpTo
<1> QED BY <1>1, SeqMonotonic

(* The parser's test of the window is membership in LogUpTo.                 *)
LEMMA LogType ==
    ASSUME NEW v \in 0..MaxVersion, NEW log \in Seq(AuditType)
    PROVE  log \in Seq(LogUpTo(v)) <=> \A i \in 1..Len(log) : log[i].version <= v
<1>1. ASSUME log \in Seq(LogUpTo(v)), NEW i \in 1..Len(log)
      PROVE  log[i].version <= v
    <2>1. log[i] \in LogUpTo(v)
        BY <1>1, ElementOfSeq
    <2> QED BY <2>1, MaxVersionAssumption DEF LogUpTo
<1>2. ASSUME \A i \in 1..Len(log) : log[i].version <= v
      PROVE  log \in Seq(LogUpTo(v))
    <2>1. log \in [1..Len(log) -> AuditType] /\ Len(log) \in Nat
        BY LenProperties
    <2>2. ASSUME NEW i \in 1..Len(log) PROVE log[i] \in LogUpTo(v)
        BY <1>2, <2>1, <2>2, MaxVersionAssumption DEF AuditType, LogUpTo
    <2>3. log \in [1..Len(log) -> LogUpTo(v)]
        BY <2>1, <2>2
    <2> QED BY <2>1, <2>3, SeqDef
<1> QED BY <1>1, <1>2

(* audit() touches only the audit window, which stays within its bound.     *)
LEMMA AuditFacts ==
    ASSUME NEW r \in LiveType, NEW action \in AuditActions,
           r.audit \in Seq(LogUpTo(r.access.version))
    PROVE  /\ Audit(r, action) \in LiveType
           /\ Audit(r, action).access = r.access
           /\ Audit(r, action).stream = r.stream
           /\ Audit(r, action).events = r.events
           /\ Audit(r, action).checkpoints = r.checkpoints
           /\ Len(Audit(r, action).audit) \in 1..MaxAuditEntries
           /\ Audit(r, action).audit \in Seq(LogUpTo(r.access.version))
<1> DEFINE v == r.access.version
           entry == [action |-> action, version |-> v]
           w == Recent(Append(r.audit, entry), MaxAuditEntries)
<1>1. r.audit \in Seq(AuditType) /\ v \in 0..MaxVersion
    BY DEF LiveType, AccessType
<1>2. entry \in AuditType /\ entry \in LogUpTo(v)
    BY <1>1, MaxVersionAssumption DEF AuditType, LogUpTo
<1>3. MaxAuditEntries \in Nat \ {0}
    BY LimitAssumption
<1>4. Audit(r, action) = [r EXCEPT !.audit = w]
    BY DEF Audit
<1> HIDE DEF entry, v
<1>5. w \in Seq(AuditType) /\ w \in Seq(LogUpTo(v)) /\ Len(w) \in 1..MaxAuditEntries
    BY <1>1, <1>2, <1>3, RecentAppend DEF v
<1> HIDE DEF w
<1>6. /\ Audit(r, action).audit = w
      /\ Audit(r, action).access = r.access
      /\ Audit(r, action).stream = r.stream
      /\ Audit(r, action).events = r.events
      /\ Audit(r, action).checkpoints = r.checkpoints
    BY <1>4 DEF LiveType
<1>7. Audit(r, action) \in LiveType
    BY <1>4, <1>5 DEF LiveType
<1> QED BY <1>5, <1>6, <1>7 DEF v

---------------------------------------------------------------------------
(* A row that satisfies the inductive invariant is one the parser accepts.   *)
LEMMA RowParses ==
    ASSUME NEW r, RowInv(r)
    PROVE  ParseRecord(r)
<1>1. r.kind = "disclosure" /\ r.audit \in Seq(AuditType) /\ r.access.version \in 0..MaxVersion
    BY DEF RowInv, RowShape, LiveType, AccessType
<1>2. \A i \in 1..Len(r.audit) : r.audit[i].version <= r.access.version
    BY <1>1, LogType DEF RowInv, RowShape
<1> QED BY <1>1, <1>2 DEF RowInv, RowShape, RowChain, ParseRecord

(* The size of a row is a natural number.                                    *)
LEMMA BytesType ==
    ASSUME NEW r \in LiveType, IsFiniteSet(r.checkpoints)
    PROVE  /\ BodyBytes(r) \in Nat
           /\ ControlWidth(r.access.control) \in 0..2
           /\ IngestWidth(r.access.ingest) \in 0..2
           /\ Len(r.audit) \in Nat
           /\ ByteLength(r) = BodyBytes(r) + Len(r.audit)
                              + ControlWidth(r.access.control) + IngestWidth(r.access.ingest)
           /\ StopReserveBytes(r) = BodyBytes(r) + 5
<1>1. Cardinality(r.checkpoints) \in Nat
    BY FS_CardinalityType
<1>2. r.access.terms \in Terms /\ Len(r.events) \in Nat /\ r.kind = "disclosure" /\ Len(r.audit) \in Nat
    BY DEF LiveType, AccessType
<1>3. r.access.terms.bytes \in Nat
    BY <1>2, TermsAssumption
<1>4. BodyBytes(r) \in Nat
    BY <1>1, <1>2, <1>3 DEF BodyBytes
<1> QED BY <1>2, <1>4 DEF ByteLength, StopReserveBytes, ControlWidth, IngestWidth

(* A stop of a row that kept its reserve always fits once old audit entries  *)
(* are dropped, and dropping them touches nothing else.                      *)
LEMMA FitStopFacts ==
    ASSUME NEW r, RowShape(r), RowChain(r), StopReserveBytes(r) <= MaxAggregateBytes
    PROVE  /\ RowInv(FitStopRecord(r))
           /\ FitStopRecord(r).access = r.access
           /\ FitStopRecord(r).events = r.events
           /\ FitStopRecord(r).checkpoints = r.checkpoints
<1> DEFINE room == MaxAggregateBytes - (ByteLength(r) - Len(r.audit))
           keep == IF room < 1 THEN 1 ELSE room
           w == Recent(r.audit, keep)
           s == FitStopRecord(r)
<1>1. r \in LiveType /\ IsFiniteSet(r.checkpoints) /\ MaxAggregateBytes \in Nat /\ MaxAuditEntries \in Nat
    BY LimitAssumption DEF RowShape
<1>2. room \in Int /\ room >= 1 /\ keep = room
    <2>1. /\ ByteLength(r) - Len(r.audit) \in Int
          /\ ByteLength(r) - Len(r.audit) <= MaxAggregateBytes - 1
        <3> DEFINE widths == ControlWidth(r.access.control) + IngestWidth(r.access.ingest)
        <3>1. widths \in Nat /\ widths <= 4
            BY <1>1, BytesType
        <3>2. /\ BodyBytes(r) \in Nat /\ Len(r.audit) \in Nat
              /\ ByteLength(r) = BodyBytes(r) + Len(r.audit) + widths
              /\ StopReserveBytes(r) = BodyBytes(r) + 5
            BY <1>1, BytesType
        <3> HIDE DEF widths
        <3>3. ByteLength(r) - Len(r.audit) = BodyBytes(r) + widths
            BY <3>1, <3>2
        <3> QED BY <1>1, <3>1, <3>2, <3>3
    <2> QED BY <1>1, <2>1
<1>3. s = [r EXCEPT !.audit = w]
    BY DEF FitStopRecord
<1>4. r.audit \in Seq(AuditType) /\ r.audit \in Seq(LogUpTo(r.access.version))
    BY <1>1 DEF LiveType, RowShape
<1>5. keep \in Nat \ {0}
    BY <1>2
<1> HIDE DEF keep
<1>6. /\ w \in Seq(AuditType) /\ w \in Seq(LogUpTo(r.access.version))
      /\ Len(w) = IF Len(r.audit) <= keep THEN Len(r.audit) ELSE keep
    BY <1>4, <1>5, RecentFacts
<1> HIDE DEF w
<1>7. s \in LiveType
    BY <1>1, <1>3, <1>6 DEF LiveType
<1>8. /\ s.audit = w /\ s.access = r.access /\ s.stream = r.stream /\ s.kind = r.kind
      /\ s.events = r.events /\ s.checkpoints = r.checkpoints
    BY <1>1, <1>3 DEF LiveType
<1> HIDE DEF s
<1>9. Len(r.audit) \in 1..MaxAuditEntries /\ Len(w) \in 1..MaxAuditEntries /\ Len(w) <= keep
    BY <1>1, <1>5, <1>6 DEF RowShape
<1>10. RowShape(s)
    BY <1>1, <1>6, <1>7, <1>8, <1>9 DEF RowShape
<1>11. RowChain(s)
    <2>1. ChainParses(s) /\ CursorsAscend(s)
        BY <1>8 DEF RowChain, ChainParses, CursorsAscend
    <2>2. CheckpointsParse(s)
        BY <1>8 DEF RowChain, CheckpointsParse, CheckpointMatches
    <2>3. IsPublished(s) = IsPublished(r) /\ Published(s) = Published(r)
        BY <1>8 DEF IsPublished, Published
    <2>4. PublicationParses(s)
        BY <1>8, <2>3 DEF RowChain, PublicationParses
    <2> QED BY <2>1, <2>2, <2>4 DEF RowChain
<1>12. BodyBytes(s) = BodyBytes(r)
    BY <1>8 DEF BodyBytes
<1>13. Fits(s) /\ StopReserveBytes(s) <= MaxAggregateBytes
    <2> DEFINE widths == ControlWidth(r.access.control) + IngestWidth(r.access.ingest)
    <2>1. /\ ByteLength(s) = BodyBytes(s) + Len(w) + widths
          /\ StopReserveBytes(s) = BodyBytes(s) + 5
        <3>1. IsFiniteSet(s.checkpoints)
            BY <1>1, <1>8
        <3>2. /\ ByteLength(s) = BodyBytes(s) + Len(s.audit)
                                + ControlWidth(s.access.control) + IngestWidth(s.access.ingest)
              /\ StopReserveBytes(s) = BodyBytes(s) + 5
              /\ BodyBytes(s) \in Nat /\ Len(s.audit) \in Nat
            BY <1>7, <3>1, BytesType
        <3>3. ControlWidth(r.access.control) \in Nat /\ IngestWidth(r.access.ingest) \in Nat
            BY <1>1, BytesType
        <3> QED BY <1>8, <3>2, <3>3
    <2>2. /\ ByteLength(r) - Len(r.audit) = BodyBytes(r) + widths
          /\ StopReserveBytes(r) = BodyBytes(r) + 5
          /\ BodyBytes(r) \in Nat /\ widths \in Nat
        BY <1>1, BytesType
    <2>3. Len(w) <= MaxAggregateBytes - (BodyBytes(r) + widths)
        BY <1>2, <1>9, <2>2
    <2> QED BY <1>1, <1>9, <1>12, <2>1, <2>2, <2>3 DEF Fits
<1> QED BY <1>8, <1>10, <1>11, <1>13 DEF RowInv, s

---------------------------------------------------------------------------
(* Replacing the access keeps the chain's invariant as long as the published *)
(* hash stays and the ingest state only moves to frozen.                     *)
LEMMA ChainUnderAccess ==
    ASSUME NEW r \in LiveType, RowChain(r), NEW s \in LiveType,
           s.stream = r.stream, s.events = r.events, s.checkpoints = r.checkpoints,
           s.access.hash = r.access.hash, s.access.ingest \in {r.access.ingest, "frozen"}
    PROVE  RowChain(s)
<1>1. ChainParses(s) /\ CursorsAscend(s)
    BY DEF RowChain, ChainParses, CursorsAscend
<1>2. CheckpointsParse(s)
    BY DEF RowChain, CheckpointsParse, CheckpointMatches
<1>3. IsPublished(s) = IsPublished(r) /\ Published(s) = Published(r)
    BY DEF IsPublished, Published
<1>4. PublicationParses(s)
    BY <1>3 DEF RowChain, PublicationParses
<1> QED BY <1>1, <1>2, <1>4 DEF RowChain

(* A versioned access change with its audit entry.                           *)
LEMMA AccessChange ==
    ASSUME NEW r, RowShape(r), RowChain(r),
           NEW a \in AccessType, a.hash = r.access.hash, a.control # "deleted",
           a.version >= r.access.version, a.ingest \in {r.access.ingest, "frozen"},
           NEW action \in AuditActions
    PROVE  /\ RowShape(Audit([r EXCEPT !.access = a], action))
           /\ RowChain(Audit([r EXCEPT !.access = a], action))
           /\ Audit([r EXCEPT !.access = a], action).access = a
           /\ Audit([r EXCEPT !.access = a], action).events = r.events
           /\ Audit([r EXCEPT !.access = a], action).checkpoints = r.checkpoints
<1> DEFINE q == [r EXCEPT !.access = a]
           s == Audit(q, action)
<1>1. r \in LiveType /\ r.access.version \in Nat /\ a.version \in Nat
    BY MaxVersionAssumption DEF RowShape, LiveType, AccessType
<1>2. q \in LiveType
    BY <1>1 DEF LiveType
<1>3. /\ q.access = a /\ q.stream = r.stream /\ q.events = r.events
      /\ q.checkpoints = r.checkpoints /\ q.audit = r.audit
    BY <1>1 DEF LiveType
<1> HIDE DEF q
<1>4. r.audit \in Seq(LogUpTo(r.access.version))
    BY DEF RowShape
<1>5. q.audit \in Seq(LogUpTo(q.access.version))
    BY <1>1, <1>3, <1>4, LogGrows
<1>6. /\ s \in LiveType /\ s.access = a /\ s.stream = r.stream /\ s.events = r.events
      /\ s.checkpoints = r.checkpoints
      /\ Len(s.audit) \in 1..MaxAuditEntries
      /\ s.audit \in Seq(LogUpTo(a.version))
    BY <1>2, <1>3, <1>5, AuditFacts
<1> HIDE DEF s
<1>7. RowShape(s)
    BY <1>6 DEF RowShape
<1>8. RowChain(s)
    BY <1>1, <1>6, ChainUnderAccess
<1> QED BY <1>6, <1>7, <1>8 DEF s, q

(* The reserve looks at the body only: it is unchanged when the terms are.   *)
LEMMA SameReserve ==
    ASSUME NEW r, RowShape(r), NEW s, RowShape(s),
           s.events = r.events, s.checkpoints = r.checkpoints, s.access.terms = r.access.terms
    PROVE  StopReserveBytes(s) = StopReserveBytes(r)
<1>1. r \in LiveType /\ s \in LiveType /\ r.kind = "disclosure" /\ s.kind = "disclosure"
    BY DEF RowShape, LiveType
<1> QED BY <1>1 DEF StopReserveBytes, BodyBytes

(* A freeze is an access change that only moves ingest to frozen.            *)
LEMMA FrozenFacts ==
    ASSUME NEW r, RowInv(r)
    PROVE  RowInv(FitStopRecord(Frozen(r)))
<1> DEFINE a == [r.access EXCEPT !.ingest = "frozen"]
           s == Audit([r EXCEPT !.access = a], "frozen")
<1>1. r \in LiveType /\ r.access \in AccessType
    BY DEF RowInv, RowShape, LiveType
<1>2. a \in AccessType /\ a.hash = r.access.hash /\ a.version = r.access.version
      /\ a.control = r.access.control /\ a.ingest = "frozen" /\ a.terms = r.access.terms
    BY <1>1 DEF AccessType, IngestStates
<1>3. Frozen(r) = s
    BY <1>1 DEF Frozen, MoveIngest, LiveType
<1>4. r.access.version \in Nat /\ RowShape(r) /\ RowChain(r) /\ r.access.control # "deleted"
    BY <1>1, MaxVersionAssumption DEF RowInv, RowShape, AccessType
<1> HIDE DEF a
<1>5. /\ RowShape(s) /\ RowChain(s) /\ s.access = a
      /\ s.events = r.events /\ s.checkpoints = r.checkpoints
    BY <1>2, <1>4, AccessChange DEF AuditActions
<1> HIDE DEF s
<1>6. StopReserveBytes(s) <= MaxAggregateBytes
    BY <1>2, <1>4, <1>5, SameReserve DEF RowInv
<1> QED BY <1>3, <1>5, <1>6, FitStopFacts

---------------------------------------------------------------------------
(* An accepted event extends the chain: it links to the last hash, its id is *)
(* new, and its cursor lies beyond the last event and every checkpoint.      *)
LEMMA AppendEventFacts ==
    ASSUME NEW r, RowInv(r), NEW e \in Envelopes, EventVerdict(r, e) = "append"
    PROVE  RowShape(AppendEvent(r, e)) /\ RowChain(AppendEvent(r, e))
<1> DEFINE n == Len(r.events)
           q == [r EXCEPT !.events = Append(@, e)]
           s == AppendEvent(r, e)
<1>1. /\ r \in LiveType /\ r.events \in Seq(Envelopes) /\ n \in Nat
      /\ RowShape(r) /\ RowChain(r) /\ r.checkpoints \subseteq Markers
    BY DEF RowInv, RowShape, LiveType
<1>2. /\ e.stream = r.stream
      /\ \A i \in 1..n : r.events[i].id # e.id
      /\ e.seq = n
      /\ e.prev = LastHash(r)
      /\ n > 0 => e.cursor > r.events[n].cursor
      /\ IsPublished(r) => e.cursor > Published(r).cursor
      /\ n < MaxEvents
    <2>1. e.seq \in Nat /\ e.cursor \in Nat /\ MaxEvents \in Nat
        BY EnvelopeAssumption, LimitAssumption
    <2>2. n > 0 => r.events # <<>> /\ r.events[n].cursor \in Nat
        BY <1>1, EnvelopeAssumption
    <2>3. IsPublished(r) => Published(r).cursor \in Nat
        BY <1>1, MarkerAssumption DEF IsPublished, Published
    <2> QED BY <1>1, <2>1, <2>2, <2>3 DEF EventVerdict, SameEventId
<1>3. q \in LiveType
    <2> DEFINE longer == Append(r.events, e)
    <2>1. longer \in Seq(Envelopes) /\ q = [r EXCEPT !.events = longer]
        BY <1>1
    <2> HIDE DEF longer, q
    <2> QED BY <1>1, <2>1 DEF LiveType
<1>4. /\ q.events = Append(r.events, e) /\ q.access = r.access /\ q.stream = r.stream
      /\ q.checkpoints = r.checkpoints /\ q.audit = r.audit
    BY <1>1 DEF LiveType
<1> HIDE DEF q
<1>5. q.audit \in Seq(LogUpTo(q.access.version))
    BY <1>1, <1>4 DEF RowShape
<1>6. s = Audit(q, "event")
    BY DEF AppendEvent, q
<1>7. /\ s \in LiveType /\ s.access = r.access /\ s.stream = r.stream
      /\ s.events = Append(r.events, e) /\ s.checkpoints = r.checkpoints
      /\ Len(s.audit) \in 1..MaxAuditEntries
      /\ s.audit \in Seq(LogUpTo(s.access.version))
    <2>1. "event" \in AuditActions
        BY DEF AuditActions
    <2>2. /\ s \in LiveType /\ s.access = q.access /\ s.stream = q.stream
          /\ s.events = q.events /\ s.checkpoints = q.checkpoints
          /\ Len(s.audit) \in 1..MaxAuditEntries
          /\ s.audit \in Seq(LogUpTo(q.access.version))
        BY <1>3, <1>5, <1>6, <2>1, AuditFacts
    <2> QED BY <1>4, <2>2
<1> HIDE DEF s
<1>8. RowShape(s)
    BY <1>1, <1>7 DEF RowShape
<1>9. /\ Len(s.events) = n + 1
      /\ \A i \in 1..n : s.events[i] = r.events[i]
      /\ s.events[n + 1] = e
    BY <1>1, <1>7
<1>10. \A i \in 1..n : r.events[i].cursor \in Nat
    BY <1>1, EnvelopeAssumption
<1>11. e.cursor \in Nat
    BY EnvelopeAssumption
<1>12. CursorsAscend(s)
    <2> SUFFICES ASSUME NEW i \in 1..n + 1, NEW j \in 1..n + 1, i < j
                 PROVE  s.events[i].cursor < s.events[j].cursor
        BY <1>9 DEF CursorsAscend
    <2>1. i \in 1..n
        BY <1>1
    <2>2. CASE j \in 1..n
        BY <1>1, <1>9, <2>1, <2>2 DEF RowChain, CursorsAscend
    <2>3. CASE j = n + 1
        <3>1. r.events[i].cursor <= r.events[n].cursor
            <4>1. CASE i = n
                BY <1>10, <2>1, <4>1
            <4>2. CASE i < n
                <5>1. n \in 1..n
                    BY <1>1, <2>1
                <5>2. r.events[i].cursor < r.events[n].cursor
                    BY <1>1, <2>1, <4>2, <5>1 DEF RowChain, CursorsAscend
                <5> QED BY <1>10, <2>1, <5>1, <5>2
            <4> QED BY <1>1, <2>1, <4>1, <4>2
        <3>2. n > 0 /\ n \in 1..n
            BY <1>1, <2>1
        <3>3. r.events[i].cursor < e.cursor
            BY <1>2, <1>10, <1>11, <2>1, <3>1, <3>2
        <3> QED BY <1>9, <2>1, <2>3, <3>3
    <2> QED BY <1>1, <2>2, <2>3
<1>13. ChainParses(s)
    <2>1. Len(s.events) <= MaxEvents
        BY <1>1, <1>2, <1>9, LimitAssumption
    <2>2. ASSUME NEW i \in 1..n + 1
          PROVE  /\ s.events[i].stream = s.stream
                 /\ s.events[i].seq = i - 1
                 /\ s.events[i].prev = IF i = 1 THEN NoHash ELSE s.events[i - 1].hash
                 /\ i > 1 => s.events[i].cursor > s.events[i - 1].cursor
        <3>1. CASE i \in 1..n
            <4>1. i > 1 => i - 1 \in 1..n
                BY <1>1, <3>1
            <4> QED BY <1>1, <1>7, <1>9, <3>1, <4>1 DEF RowChain, ChainParses
        <3>2. CASE i = n + 1
            <4>1. i > 1 => n \in 1..n /\ r.events # <<>> /\ i - 1 = n
                BY <1>1, <3>2
            <4>2. i = 1 => r.events = <<>>
                BY <1>1, <3>2
            <4> QED BY <1>1, <1>2, <1>7, <1>9, <3>2, <4>1, <4>2 DEF LastHash
        <3> QED BY <1>1, <3>1, <3>2
    <2>3. ASSUME NEW i \in 1..n + 1, NEW j \in 1..n + 1, s.events[i].id = s.events[j].id
          PROVE  i = j
        <3>1. CASE i \in 1..n /\ j \in 1..n
            BY <1>1, <1>9, <2>3, <3>1 DEF RowChain, ChainParses
        <3>2. CASE i \in 1..n /\ j = n + 1
            BY <1>2, <1>9, <2>3, <3>2
        <3>3. CASE i = n + 1 /\ j \in 1..n
            BY <1>2, <1>9, <2>3, <3>3
        <3> QED BY <1>1, <3>1, <3>2, <3>3
    <2> QED BY <1>9, <2>1, <2>2, <2>3 DEF ChainParses
<1>14. IsPublished(s) = IsPublished(r) /\ Published(s) = Published(r)
    BY <1>7 DEF IsPublished, Published
<1>15. ASSUME NEW c \in r.checkpoints
       PROVE  CheckpointMatches(s, c)
    <2>1. CheckpointMatches(r, c) /\ c \in Markers
        BY <1>1 DEF RowChain, CheckpointsParse
    <2>2. c.eventCount \in Nat /\ c.cursor \in Nat
        BY <2>1, MarkerAssumption
    <2>3. IsPublished(r) /\ c.cursor <= Published(r).cursor /\ Published(r) \in Markers
        BY <1>1 DEF RowChain, PublicationParses, IsPublished, Published
    <2>4. c.cursor < e.cursor
        BY <1>2, <1>11, <2>2, <2>3, MarkerAssumption
    <2>5. c.eventCount <= n
        BY <2>1 DEF CheckpointMatches
    <2>6. /\ c.eventCount > 0 => s.events[c.eventCount] = r.events[c.eventCount]
          /\ c.eventCount < n => s.events[c.eventCount + 1] = r.events[c.eventCount + 1]
          /\ c.eventCount = n => s.events[c.eventCount + 1] = e
        <3>1. c.eventCount > 0 => c.eventCount \in 1..n
            BY <1>1, <2>2, <2>5
        <3>2. c.eventCount < n => c.eventCount + 1 \in 1..n
            BY <1>1, <2>2
        <3> QED BY <1>9, <3>1, <3>2
    <2> QED BY <1>1, <1>7, <1>9, <2>1, <2>2, <2>4, <2>5, <2>6 DEF CheckpointMatches
<1>16. CheckpointsParse(s)
    BY <1>1, <1>7, <1>15 DEF RowChain, CheckpointsParse
<1>17. PublicationParses(s)
    BY <1>1, <1>7, <1>14 DEF RowChain, PublicationParses
<1> QED BY <1>8, <1>12, <1>13, <1>16, <1>17 DEF RowChain, s

---------------------------------------------------------------------------
(* Two markers that match one chain and are ordered by cursor are ordered by *)
(* the number of events they count.                                          *)
LEMMA MarkersOrdered ==
    ASSUME NEW r, RowShape(r), RowChain(r), NEW b \in Markers, NEW c \in Markers,
           CheckpointMatches(r, b), CheckpointMatches(r, c), b.cursor <= c.cursor
    PROVE  b.eventCount <= c.eventCount
<1> DEFINE n == Len(r.events)
<1>1. r.events \in Seq(Envelopes) /\ n \in Nat
    BY DEF RowShape, LiveType
<1>2. /\ b.eventCount \in Nat /\ c.eventCount \in Nat
      /\ b.cursor \in Nat /\ c.cursor \in Nat
    BY MarkerAssumption
<1>3. \A i \in 1..n : r.events[i].cursor \in Nat
    BY <1>1, EnvelopeAssumption
<1> SUFFICES ASSUME b.eventCount > c.eventCount PROVE FALSE
    BY <1>2
<1> DEFINE j == c.eventCount + 1
           k == b.eventCount
<1>4. k \in 1..n /\ j \in 1..n /\ j <= k /\ c.eventCount < n
    BY <1>1, <1>2 DEF CheckpointMatches
<1>5. c.cursor < r.events[j].cursor
    BY <1>1, <1>4 DEF CheckpointMatches
<1>6. r.events[k].cursor <= b.cursor
    BY <1>1, <1>3, <1>4, <1>2 DEF CheckpointMatches
<1>7. r.events[j].cursor <= r.events[k].cursor
    <2>1. CASE j = k
        BY <1>3, <1>4, <2>1
    <2>2. CASE j < k
        <3>1. r.events[j].cursor < r.events[k].cursor
            BY <1>4, <2>2 DEF RowChain, CursorsAscend
        <3> QED BY <1>3, <1>4, <3>1
    <2> QED BY <1>2, <1>4, <2>1, <2>2
<1> HIDE DEF j, k
<1> QED BY <1>2, <1>3, <1>4, <1>5, <1>6, <1>7

(* An accepted checkpoint joins the others; it becomes the published one     *)
(* exactly when its cursor is the largest.                                   *)
LEMMA AppendCheckpointFacts ==
    ASSUME NEW r, RowInv(r), NEW m \in Markers, r.access.ingest # "frozen",
           CheckpointVerdict(r, m) = "append"
    PROVE  RowShape(AppendCheckpoint(r, m)) /\ RowChain(AppendCheckpoint(r, m))
<1> DEFINE late == IsPublished(r) /\ m.cursor <= Published(r).cursor
           hash == IF late THEN r.access.hash ELSE m.hash
           a == [r.access EXCEPT !.ingest = "ready", !.hash = hash]
           q == [r EXCEPT !.checkpoints = @ \cup {m}, !.access = a]
           s == AppendCheckpoint(r, m)
<1>1. /\ r \in LiveType /\ r.access \in AccessType /\ RowShape(r) /\ RowChain(r)
      /\ r.checkpoints \subseteq Markers /\ IsFiniteSet(r.checkpoints)
      /\ r.audit \in Seq(LogUpTo(r.access.version))
    BY DEF RowInv, RowShape, LiveType
<1>2. /\ CheckpointMatches(r, m)
      /\ Cardinality(r.checkpoints) < MaxCheckpoints
      /\ \A c \in r.checkpoints : c.hash # m.hash /\ c.cursor # m.cursor
    BY DEF CheckpointVerdict, Retained
<1>3. hash \in {NoHash} \cup {c.hash : c \in Markers}
    BY <1>1 DEF AccessType
<1>4. MoveIngest(r.access.ingest, "ready") = "ready"
    BY <1>1 DEF MoveIngest, AccessType, IngestStates
<1> HIDE DEF hash
<1>5. /\ a \in AccessType /\ a.version = r.access.version /\ a.hash = hash
      /\ a.control = r.access.control /\ a.ingest = "ready"
    BY <1>1, <1>3 DEF AccessType, IngestStates
<1>6. [r EXCEPT !.checkpoints = @ \cup {m}, !.access.ingest = MoveIngest(@, "ready"),
                !.access.hash = hash] = q
    BY <1>1, <1>4 DEF LiveType, AccessType
<1>7. s = Audit(q, "checkpoint")
    BY <1>6 DEF AppendCheckpoint, hash
<1> HIDE DEF a
<1>8. q \in LiveType
    BY <1>1, <1>5 DEF LiveType
<1>9. /\ q.access = a /\ q.stream = r.stream /\ q.events = r.events
      /\ q.checkpoints = r.checkpoints \cup {m} /\ q.audit = r.audit
    BY <1>1 DEF LiveType
<1> HIDE DEF q
<1>10. /\ s \in LiveType /\ s.access = a /\ s.stream = r.stream /\ s.events = r.events
       /\ s.checkpoints = r.checkpoints \cup {m}
       /\ Len(s.audit) \in 1..MaxAuditEntries
       /\ s.audit \in Seq(LogUpTo(s.access.version))
    <2>1. q.audit \in Seq(LogUpTo(q.access.version)) /\ "checkpoint" \in AuditActions
        BY <1>1, <1>5, <1>9 DEF AuditActions
    <2> HIDE DEF s
    <2> QED BY <1>7, <1>8, <1>9, <2>1, AuditFacts
<1> HIDE DEF s
<1>11. /\ IsFiniteSet(s.checkpoints)
       /\ Cardinality(s.checkpoints) <= MaxCheckpoints
    <2>1. Cardinality(r.checkpoints) \in Nat /\ MaxCheckpoints \in Nat
        BY <1>1, FS_CardinalityType, LimitAssumption
    <2>2. /\ IsFiniteSet(r.checkpoints \cup {m})
          /\ Cardinality(r.checkpoints \cup {m}) <= Cardinality(r.checkpoints) + 1
        <3> DEFINE old == r.checkpoints
        <3>1. IsFiniteSet(old)
            BY <1>1
        <3> HIDE DEF old
        <3>2. /\ IsFiniteSet(old \cup {m})
              /\ Cardinality(old \cup {m}) = IF m \in old THEN Cardinality(old) ELSE Cardinality(old) + 1
            BY <3>1, FS_AddElement
        <3> QED BY <2>1, <3>2 DEF old
    <2>3. Cardinality(r.checkpoints \cup {m}) \in Nat
        BY <2>2, FS_CardinalityType
    <2> QED BY <1>2, <1>10, <2>1, <2>2, <2>3
<1>12. RowShape(s)
    BY <1>1, <1>5, <1>10, <1>11 DEF RowShape
<1>13. ChainParses(s) /\ CursorsAscend(s)
    BY <1>1, <1>10 DEF RowChain, ChainParses, CursorsAscend
<1>14. \A c \in s.checkpoints : CheckpointMatches(r, c) /\ CheckpointMatches(s, c)
    BY <1>1, <1>2, <1>10 DEF RowChain, CheckpointsParse, CheckpointMatches
<1>15. \A c, d \in s.checkpoints : c.hash = d.hash \/ c.cursor = d.cursor => c = d
    BY <1>1, <1>2, <1>10 DEF RowChain, CheckpointsParse
<1>16. CheckpointsParse(s)
    BY <1>11, <1>14, <1>15 DEF CheckpointsParse
<1>17. \A c \in s.checkpoints : c \in Markers /\ c.cursor \in Nat /\ c.eventCount \in Nat
    BY <1>1, <1>10, MarkerAssumption
<1>18. PublicationParses(s)
    <2>1. ASSUME NEW top \in s.checkpoints, top.hash = hash,
                 \A c \in s.checkpoints : c.cursor <= top.cursor
          PROVE  PublicationParses(s)
        <3>1. IsPublished(s) /\ Published(s) = top
            BY <1>5, <1>10, <1>15, <2>1 DEF IsPublished, Published
        <3>2. \A c \in s.checkpoints : c.eventCount <= top.eventCount
            BY <1>1, <1>14, <1>17, <2>1, MarkersOrdered
        <3> QED BY <1>5, <1>10, <2>1, <3>1, <3>2 DEF PublicationParses
    <2>2. CASE late
        <3>1. Published(r) \in r.checkpoints /\ Published(r).hash = r.access.hash
            BY <2>2 DEF IsPublished, Published
        <3>2. \A c \in r.checkpoints : c.cursor <= Published(r).cursor
            BY <1>1, <2>2 DEF RowChain, PublicationParses
        <3> QED BY <1>10, <2>1, <2>2, <3>1, <3>2 DEF hash
    <2>3. CASE ~late
        <3>1. \A c \in r.checkpoints : c.cursor <= m.cursor
            <4>1. CASE IsPublished(r)
                <5>1. Published(r) \in s.checkpoints /\ m \in s.checkpoints
                    BY <1>10, <4>1 DEF IsPublished, Published
                <5>2. m.cursor > Published(r).cursor
                    BY <1>17, <2>3, <4>1, <5>1
                <5>3. \A c \in r.checkpoints : c.cursor <= Published(r).cursor
                    BY <1>1, <4>1 DEF RowChain, PublicationParses
                <5> QED BY <1>10, <1>17, <5>1, <5>2, <5>3
            <4>2. CASE ~IsPublished(r)
                BY <1>1, <4>2 DEF RowChain, PublicationParses
            <4> QED BY <4>1, <4>2
        <3>2. m \in s.checkpoints /\ m.cursor <= m.cursor
            BY <1>10, <1>17
        <3> QED BY <1>10, <2>1, <2>3, <3>1, <3>2 DEF hash
    <2> QED BY <2>2, <2>3
<1> QED BY <1>12, <1>13, <1>16, <1>18 DEF RowChain, s

---------------------------------------------------------------------------
(* Writing one well-formed row preserves the invariant of the whole table.   *)
SoundRow(row) == RowInv(row) \/ (row \in TombstoneType /\ ParseRecord(row))

LEMMA WriteRow ==
    ASSUME DisclosureInv, NEW d \in Disclosures, NEW row, SoundRow(row),
           records' = [records EXCEPT ![d] = row], isolated' = FALSE, refused' = FALSE
    PROVE  DisclosureInv'
<1>1. records \in [Disclosures -> {Absent} \cup LiveType \cup TombstoneType]
    BY DEF DisclosureInv, TypeOK
<1>2. row \in LiveType \cup TombstoneType
    BY DEF SoundRow, RowInv, RowShape
<1>3. TypeOK'
    BY <1>1, <1>2 DEF TypeOK
<1>4. \A o \in Disclosures : records'[o] = IF o = d THEN row ELSE records[o]
    BY <1>1
<1>5. row.kind = "disclosure" => RowInv(row)
    BY DEF SoundRow, TombstoneType
<1>6. row.kind = "tombstone" => ParseRecord(row)
    BY DEF SoundRow, RowInv, RowShape, LiveType
<1>7. \A o \in Disclosures :
          /\ records'[o].kind = "disclosure" => RowInv(records'[o])
          /\ records'[o].kind = "tombstone" => ParseRecord(records'[o])
    BY <1>4, <1>5, <1>6 DEF DisclosureInv, Live
<1> QED BY <1>3, <1>7 DEF DisclosureInv, Live, StopsAlwaysFit, DecoderAcceptsOwnWrites

(* A change that keeps the row's shape and chain is decoded and written.     *)
LEMMA ChangeIsWritten ==
    ASSUME DisclosureInv, NEW d \in Disclosures, NEW next, RowShape(next), RowChain(next),
           CommitChange(d, next)
    PROVE  DisclosureInv' /\ records' = [records EXCEPT ![d] = next]
<1>1. RowInv(next)
    BY DEF CommitChange, LeavesRoom, RowInv
<1>2. ParseRecord(next)
    BY <1>1, RowParses
<1>3. isolated = FALSE /\ refused = FALSE
    BY DEF DisclosureInv, TypeOK, StopsAlwaysFit, DecoderAcceptsOwnWrites
<1>4. records' = [records EXCEPT ![d] = next] /\ isolated' = FALSE /\ refused' = FALSE
    BY <1>2, <1>3 DEF CommitChange
<1> QED BY <1>1, <1>4, WriteRow DEF SoundRow

(* A stop whose trimmed row is sound is written and does not isolate.        *)
LEMMA StopIsWritten ==
    ASSUME DisclosureInv, NEW d \in Disclosures, NEW next, SoundRow(FitStopRecord(next)),
           CommitStop(d, next)
    PROVE  DisclosureInv' /\ records' = [records EXCEPT ![d] = FitStopRecord(next)]
<1> DEFINE row == FitStopRecord(next)
<1>1. SoundRow(row)
    OBVIOUS
<1>2. ParseRecord(row)
    BY <1>1, RowParses DEF SoundRow
<1>3. refused = FALSE
    BY DEF DisclosureInv, TypeOK, DecoderAcceptsOwnWrites
<1>4. records' = [records EXCEPT ![d] = row] /\ isolated' = FALSE /\ refused' = FALSE
    BY <1>2, <1>3 DEF CommitStop
<1>5. DisclosureInv'
    <2> HIDE DEF row
    <2> QED BY <1>1, <1>4, WriteRow
<1> QED BY <1>4, <1>5

(* A tombstone always fits and parses.                                       *)
LEMMA TombstoneFacts ==
    ASSUME NEW r \in LiveType, NEW v \in 0..MaxVersion
    PROVE  SoundRow(FitStopRecord(Tombstone(r, v)))
<1> DEFINE log == <<[action |-> "deleted", version |-> v]>>
           row == Tombstone(r, v)
<1>1. r.access.instance \in Instances
    BY DEF LiveType, AccessType
<1>2. log \in Seq(AuditType) /\ Len(log) = 1
    BY DEF AuditType, AuditActions
<1>3. row = [kind |-> "tombstone", instance |-> r.access.instance, version |-> v, audit |-> log]
    BY DEF Tombstone
<1>4. row \in TombstoneType /\ row.kind = "tombstone" /\ row.audit = log /\ row.version = v
    BY <1>1, <1>2, <1>3 DEF TombstoneType
<1>5. MaxAggregateBytes \in Nat \ {0} /\ MaxAuditEntries \in Nat \ {0}
    BY LimitAssumption
<1>6. FitStopRecord(row) = [row EXCEPT !.audit = log]
    <2>1. MaxAggregateBytes - (ByteLength(row) - Len(log)) = MaxAggregateBytes
        BY <1>2, <1>4, <1>5 DEF ByteLength
    <2>2. Recent(log, MaxAggregateBytes) = log
        BY <1>2, <1>5 DEF Recent
    <2> QED BY <1>4, <1>5, <2>1, <2>2 DEF FitStopRecord
<1>7. FitStopRecord(row) = row
    BY <1>3, <1>6
<1>8. ParseRecord(row)
    BY <1>2, <1>4, <1>5 DEF ParseRecord, Fits, ByteLength
<1> QED BY <1>4, <1>7, <1>8 DEF SoundRow

---------------------------------------------------------------------------
(* One lemma per action: it preserves the invariant.                         *)

LEMMA LiveRow ==
    ASSUME DisclosureInv, NEW d \in Disclosures, Live(d)
    PROVE  /\ RowInv(records[d]) /\ RowShape(records[d]) /\ RowChain(records[d])
           /\ records[d] \in LiveType /\ records[d].access \in AccessType
           /\ records[d].access.version \in 0..MaxVersion
           /\ records[d].access.control # "deleted"
BY DEF DisclosureInv, RowInv, RowShape, LiveType, AccessType

LEMMA VersionBump ==
    ASSUME NEW a \in AccessType, a.version < MaxVersion,
           NEW c \in ControlStates, NEW t \in Terms
    PROVE  /\ [a EXCEPT !.terms = t, !.version = @ + 1] \in AccessType
           /\ [a EXCEPT !.control = c, !.version = @ + 1] \in AccessType
           /\ a.version + 1 >= a.version
<1>1. a.version \in 0..MaxVersion
    BY DEF AccessType
<1>2. a.version + 1 \in 0..MaxVersion /\ a.version + 1 >= a.version
    BY <1>1, MaxVersionAssumption
<1> DEFINE v == a.version + 1
<1> HIDE DEF v
<1>3. v \in 0..MaxVersion
    BY <1>2 DEF v
<1>4. [a EXCEPT !.terms = t, !.version = v] \in AccessType
    BY <1>3 DEF AccessType
<1>5. [a EXCEPT !.control = c, !.version = v] \in AccessType
    BY <1>3 DEF AccessType
<1> QED BY <1>2, <1>4, <1>5 DEF v

LEMMA RegisterStep ==
    ASSUME DisclosureInv, NEW d \in Disclosures, NEW i \in Instances, NEW s \in Streams,
           NEW t \in Terms, NEW now \in Times, Register(d, i, s, t, now)
    PROVE  DisclosureInv'
<1> DEFINE row == FreshRecord(i, s, t)
           log == <<[action |-> "registered", version |-> 0]>>
           a == [instance |-> i, control |-> "active", ingest |-> "pending",
                 terms |-> t, version |-> 0, hash |-> NoHash]
<1>1. /\ log \in Seq(AuditType) /\ log \in Seq(LogUpTo(0)) /\ Len(log) = 1
    BY MaxVersionAssumption DEF AuditType, LogUpTo, AuditActions
<1>2. a \in AccessType /\ a.version = 0 /\ a.control = "active"
      /\ a.hash = NoHash /\ a.ingest = "pending"
    BY MaxVersionAssumption DEF AccessType, ControlStates, IngestStates
<1>3. row = [kind |-> "disclosure", access |-> a, stream |-> s, events |-> <<>>,
             checkpoints |-> {}, audit |-> log]
    BY DEF FreshRecord
<1> HIDE DEF log, a, row
<1>4. row \in LiveType
    BY <1>1, <1>2, <1>3 DEF LiveType
<1>5. /\ row.access = a /\ row.stream = s /\ row.events = <<>> /\ row.checkpoints = {}
      /\ row.audit = log
    BY <1>3
<1>6. IsFiniteSet(row.checkpoints)
    BY <1>5, FS_EmptySet
<1>7. RowShape(row)
    <2>1. row.access.control # "deleted"
        BY <1>2, <1>5
    <2>2. Len(row.audit) \in 1..MaxAuditEntries
        <3>1. 1 \in 1..MaxAuditEntries
            BY LimitAssumption
        <3> QED BY <1>1, <1>5, <3>1
    <2>3. row.audit \in Seq(LogUpTo(row.access.version))
        BY <1>1, <1>2, <1>5
    <2> QED BY <1>4, <1>6, <2>1, <2>2, <2>3 DEF RowShape
<1>8. ParseRecord(row) /\ StopReserveBytes(row) <= MaxAggregateBytes
    BY DEF Register, row
<1>9. RowChain(row)
    BY <1>3, <1>5, <1>8 DEF ParseRecord, RowChain, CursorsAscend
<1>10. RowInv(row)
    BY <1>7, <1>8, <1>9 DEF RowInv, ParseRecord
<1>11. isolated = FALSE /\ refused = FALSE
    BY DEF DisclosureInv, TypeOK, StopsAlwaysFit, DecoderAcceptsOwnWrites
<1>12. records' = [records EXCEPT ![d] = row] /\ isolated' = FALSE /\ refused' = FALSE
    BY <1>11 DEF Register, row
<1> QED BY <1>10, <1>12, WriteRow DEF SoundRow

LEMMA IngestEventStep ==
    ASSUME DisclosureInv, NEW d \in Disclosures, NEW i \in Instances, NEW e \in Envelopes,
           NEW now \in Times, IngestEvent(d, i, e, now)
    PROVE  DisclosureInv'
<1>1. RowInv(records[d])
    BY LiveRow DEF IngestEvent
<1>2. CASE EventVerdict(records[d], e) = "append" /\ CommitChange(d, AppendEvent(records[d], e))
    BY <1>1, <1>2, AppendEventFacts, ChangeIsWritten
<1>3. CASE EventVerdict(records[d], e) = "frozen" /\ CommitStop(d, Frozen(records[d]))
    BY <1>1, <1>3, FrozenFacts, StopIsWritten DEF SoundRow
<1> QED BY <1>2, <1>3 DEF IngestEvent

LEMMA IngestCheckpointStep ==
    ASSUME DisclosureInv, NEW d \in Disclosures, NEW i \in Instances, NEW m \in Markers,
           NEW now \in Times, IngestCheckpoint(d, i, m, now)
    PROVE  DisclosureInv'
<1>1. RowInv(records[d])
    BY LiveRow DEF IngestCheckpoint
<1>2. records[d].access.ingest # "frozen"
    BY DEF IngestCheckpoint, CanUpload
<1>3. CASE /\ CheckpointVerdict(records[d], m) = "append"
           /\ CommitChange(d, AppendCheckpoint(records[d], m))
    BY <1>1, <1>2, <1>3, AppendCheckpointFacts, ChangeIsWritten
<1>4. CASE CheckpointVerdict(records[d], m) = "frozen" /\ CommitStop(d, Frozen(records[d]))
    BY <1>1, <1>4, FrozenFacts, StopIsWritten DEF SoundRow
<1> QED BY <1>3, <1>4 DEF IngestCheckpoint

LEMMA UpdateTermsStep ==
    ASSUME DisclosureInv, NEW d \in Disclosures, NEW i \in Instances, NEW t \in Terms,
           NEW now \in Times, UpdateTerms(d, i, t, now)
    PROVE  DisclosureInv'
<1> DEFINE r == records[d]
           a == UpdateAccess(r.access, t)
           next == Audit([r EXCEPT !.access = a], "access")
<1>1. RowShape(r) /\ RowChain(r) /\ r.access \in AccessType /\ r \in LiveType
      /\ r.access.version \in 0..MaxVersion /\ r.access.control # "deleted"
    BY LiveRow DEF UpdateTerms
<1>2. r.access.version < MaxVersion
    BY DEF UpdateTerms, UpdateAllowed, CanIncrement
<1>3. a = [r.access EXCEPT !.terms = t, !.version = @ + 1]
    BY DEF UpdateTerms, UpdateAccess
<1>4. /\ a \in AccessType /\ a.hash = r.access.hash /\ a.control # "deleted"
      /\ a.version >= r.access.version /\ a.ingest \in {r.access.ingest, "frozen"}
    <2>1. r.access.control \in ControlStates
        BY <1>1 DEF AccessType
    <2>2. a \in AccessType
        BY <1>1, <1>2, <1>3, <2>1, VersionBump
    <2>3. a.version >= r.access.version
        BY <1>1, <1>3, MaxVersionAssumption DEF AccessType
    <2>4. a.hash = r.access.hash /\ a.control # "deleted" /\ a.ingest = r.access.ingest
        BY <1>1, <1>3 DEF AccessType
    <2> QED BY <2>2, <2>3, <2>4
<1>5. CommitChange(d, next)
    BY DEF UpdateTerms
<1> HIDE DEF a
<1>6. RowShape(next) /\ RowChain(next)
    BY <1>1, <1>4, AccessChange DEF AuditActions
<1> HIDE DEF next
<1> QED BY <1>5, <1>6, ChangeIsWritten

LEMMA TransitionControlStep ==
    ASSUME DisclosureInv, NEW d \in Disclosures, NEW i \in Instances,
           NEW target \in ControlStates, NEW now \in Times,
           TransitionControl(d, i, target, now)
    PROVE  DisclosureInv'
<1> DEFINE r == records[d]
           a == MoveControl(r.access, target)
           next == Audit([r EXCEPT !.access = a], "control")
<1>1. RowShape(r) /\ RowChain(r) /\ r.access \in AccessType /\ r \in LiveType
      /\ r.access.version \in 0..MaxVersion /\ StopReserveBytes(r) <= MaxAggregateBytes
    BY LiveRow DEF TransitionControl, RowInv
<1>2. /\ r.access.version < MaxVersion
      /\ target # "deleted" /\ target # r.access.control
    BY DEF TransitionControl, ControlAllowed, CanIncrement
<1>3. a = [r.access EXCEPT !.control = target, !.version = @ + 1]
    BY <1>2 DEF MoveControl
<1>4. /\ a \in AccessType /\ a.hash = r.access.hash /\ a.control # "deleted"
      /\ a.version >= r.access.version /\ a.ingest \in {r.access.ingest, "frozen"}
      /\ a.terms = r.access.terms
    <2>1. r.access.terms \in Terms
        BY <1>1 DEF AccessType
    <2>2. a \in AccessType
        BY <1>1, <1>2, <1>3, <2>1, VersionBump
    <2>3. a.version >= r.access.version
        BY <1>1, <1>3, MaxVersionAssumption DEF AccessType
    <2>4. /\ a.hash = r.access.hash /\ a.control = target
          /\ a.ingest = r.access.ingest /\ a.terms = r.access.terms
        BY <1>1, <1>3 DEF AccessType
    <2> QED BY <1>2, <2>2, <2>3, <2>4
<1>5. CommitChange(d, next) \/ CommitStop(d, next)
    BY DEF TransitionControl
<1> HIDE DEF a
<1>6. /\ RowShape(next) /\ RowChain(next) /\ next.access = a
      /\ next.events = r.events /\ next.checkpoints = r.checkpoints
    BY <1>1, <1>4, AccessChange DEF AuditActions
<1> HIDE DEF next
<1>7. StopReserveBytes(next) <= MaxAggregateBytes
    BY <1>1, <1>4, <1>6, SameReserve
<1>8. SoundRow(FitStopRecord(next))
    BY <1>6, <1>7, FitStopFacts DEF SoundRow
<1> QED BY <1>5, <1>6, <1>8, ChangeIsWritten, StopIsWritten

LEMMA EraseStep ==
    ASSUME DisclosureInv, NEW d \in Disclosures, Live(d), EraseRecord(d)
    PROVE  DisclosureInv'
<1> DEFINE r == records[d]
           v == r.access.version + DeletionSteps(r)
<1>1. r \in LiveType /\ r.access.version \in 0..MaxVersion
    BY LiveRow
<1>2. v \in 0..MaxVersion /\ CommitStop(d, Tombstone(r, v))
    BY <1>1, MaxVersionAssumption DEF EraseRecord, DeletionSteps
<1> HIDE DEF v
<1>3. SoundRow(FitStopRecord(Tombstone(r, v)))
    BY <1>1, <1>2, TombstoneFacts
<1> QED BY <1>2, <1>3, StopIsWritten

LEMMA RenewAllStep ==
    ASSUME DisclosureInv, RenewAll
    PROVE  DisclosureInv'
<1>1. records \in [Disclosures -> {Absent} \cup LiveType \cup TombstoneType]
      /\ isolated = FALSE /\ refused = FALSE
    BY DEF DisclosureInv, TypeOK, StopsAlwaysFit, DecoderAcceptsOwnWrites
<1>2. ASSUME NEW d \in Disclosures, Live(d)
      PROVE  RowInv(Renewed(records[d])) /\ ParseRecord(Renewed(records[d]))
    <2> DEFINE r == records[d]
               a == InvalidateAuthorization(r.access)
    <2>1. RowShape(r) /\ RowChain(r) /\ r.access \in AccessType
          /\ r.access.version \in 0..MaxVersion /\ r.access.control # "deleted"
        BY <1>2, LiveRow
    <2>2. r.access.version < MaxVersion /\ LeavesRoom(Renewed(r))
        BY <1>2 DEF RenewAll, LiveDisclosures, CanIncrement
    <2>3. a = [r.access EXCEPT !.version = @ + 1]
        BY DEF InvalidateAuthorization
    <2>4. /\ a \in AccessType /\ a.hash = r.access.hash /\ a.control # "deleted"
          /\ a.version >= r.access.version /\ a.ingest \in {r.access.ingest, "frozen"}
        BY <2>1, <2>2, <2>3, MaxVersionAssumption DEF AccessType
    <2>5. Renewed(r) = Audit([r EXCEPT !.access = a], "access")
        BY DEF Renewed
    <2> HIDE DEF a
    <2>6. RowShape(Renewed(r)) /\ RowChain(Renewed(r))
        BY <2>1, <2>4, <2>5, AccessChange DEF AuditActions
    <2>7. RowInv(Renewed(r))
        BY <2>2, <2>6 DEF RowInv, LeavesRoom
    <2> QED BY <2>7, RowParses
<1>3. \A d \in LiveDisclosures : ParseRecord(Renewed(records[d]))
    BY <1>2 DEF LiveDisclosures
<1>4. /\ records' = [d \in Disclosures |-> IF Live(d) THEN Renewed(records[d]) ELSE records[d]]
      /\ refused' = FALSE /\ isolated' = FALSE
    BY <1>1, <1>3 DEF RenewAll
<1>5. \A d \in Disclosures : Live(d) => Renewed(records[d]) \in LiveType
    BY <1>2 DEF RowInv, RowShape
<1>6. TypeOK'
    BY <1>1, <1>4, <1>5 DEF TypeOK
<1>7. ASSUME NEW d \in Disclosures
      PROVE  /\ records'[d].kind = "disclosure" => RowInv(records'[d])
             /\ records'[d].kind = "tombstone" => ParseRecord(records'[d])
    <2>1. CASE Live(d)
        BY <1>2, <1>4, <2>1
    <2>2. CASE ~Live(d)
        BY <1>4, <2>2 DEF DisclosureInv, Live
    <2> QED BY <2>1, <2>2
<1> QED BY <1>4, <1>6, <1>7 DEF DisclosureInv, Live, StopsAlwaysFit, DecoderAcceptsOwnWrites

---------------------------------------------------------------------------
(* Every step preserves the inductive invariant.                             *)
LEMMA StepKeepsInvariant == DisclosureInv /\ [Next]_vars => DisclosureInv'
<1> SUFFICES ASSUME DisclosureInv, [Next]_vars PROVE DisclosureInv'
    OBVIOUS
<1>1. CASE UNCHANGED vars
    BY <1>1 DEF vars, DisclosureInv, TypeOK, Live, StopsAlwaysFit, DecoderAcceptsOwnWrites
<1>2. CASE RenewAll
    BY <1>2, RenewAllStep
<1>3. ASSUME NEW d \in Disclosures, NEW i \in Instances, NEW now \in Times,
             \/ \E s \in Streams, t \in Terms : Register(d, i, s, t, now)
             \/ \E e \in Envelopes : IngestEvent(d, i, e, now)
             \/ \E m \in Markers : IngestCheckpoint(d, i, m, now)
             \/ \E t \in Terms : UpdateTerms(d, i, t, now)
             \/ \E target \in ControlStates : TransitionControl(d, i, target, now)
             \/ Delete(d, i)
             \/ ProcessDeletion(d, now)
      PROVE  DisclosureInv'
    <2>1. ASSUME NEW s \in Streams, NEW t \in Terms, Register(d, i, s, t, now)
          PROVE  DisclosureInv'
        BY <2>1, RegisterStep
    <2>2. ASSUME NEW e \in Envelopes, IngestEvent(d, i, e, now)
          PROVE  DisclosureInv'
        BY <2>2, IngestEventStep
    <2>3. ASSUME NEW m \in Markers, IngestCheckpoint(d, i, m, now)
          PROVE  DisclosureInv'
        BY <2>3, IngestCheckpointStep
    <2>4. ASSUME NEW t \in Terms, UpdateTerms(d, i, t, now)
          PROVE  DisclosureInv'
        BY <2>4, UpdateTermsStep
    <2>5. ASSUME NEW target \in ControlStates, TransitionControl(d, i, target, now)
          PROVE  DisclosureInv'
        BY <2>5, TransitionControlStep
    <2>6. CASE Delete(d, i)
        BY <2>6, EraseStep DEF Delete
    <2>7. CASE ProcessDeletion(d, now)
        BY <2>7, EraseStep DEF ProcessDeletion
    <2> QED BY <1>3, <2>1, <2>2, <2>3, <2>4, <2>5, <2>6, <2>7
<1> QED BY <1>1, <1>2, <1>3 DEF Next

(* The inductive invariant holds in every reachable state.                   *)
THEOREM InvariantHolds == Spec => []DisclosureInv
<1>1. Init => DisclosureInv
    <2> SUFFICES ASSUME Init PROVE DisclosureInv
        OBVIOUS
    <2>1. \A d \in Disclosures : records[d].kind = "absent"
        BY DEF Init, Absent
    <2>2. TypeOK
        BY DEF Init, TypeOK
    <2> QED BY <2>1, <2>2 DEF Init, DisclosureInv, Live, StopsAlwaysFit, DecoderAcceptsOwnWrites
<1>2. DisclosureInv /\ [Next]_vars => DisclosureInv'
    BY StepKeepsInvariant
<1> QED BY <1>1, <1>2, PTL DEF Spec

---------------------------------------------------------------------------
(* What the invariant gives a reader of the code.                            *)

(* Every row the owner keeps has the shape its store declares, for every set *)
(* of envelopes, checkpoints and terms and every limit.                      *)
THEOREM TypeCorrect == Spec => []TypeOK
<1>1. DisclosureInv => TypeOK
    BY DEF DisclosureInv
<1> QED BY <1>1, InvariantHolds, PTL

(* Opening the store never fails on a row the owner wrote.                   *)
THEOREM ReopenAlwaysSucceeds == Spec => []Reopenable
<1>1. DisclosureInv => Reopenable
    <2> SUFFICES ASSUME DisclosureInv, NEW d \in Disclosures, records[d] # Absent
                 PROVE  ParseRecord(records[d])
        BY DEF Reopenable
    <2>1. records[d] \in {Absent} \cup LiveType \cup TombstoneType
        BY DEF DisclosureInv, TypeOK
    <2>2. CASE records[d] \in LiveType
        BY <2>2, LiveRow, RowParses DEF LiveType, Live
    <2>3. CASE records[d] \in TombstoneType
        BY <2>3 DEF DisclosureInv, TombstoneType
    <2> QED BY <2>1, <2>2, <2>3
<1> QED BY <1>1, InvariantHolds, PTL

(* No stop ever isolates the owner: what every other change leaves free is   *)
(* enough for a pause, a revocation, a freeze and a deletion.                *)
THEOREM StopsFit == Spec => []StopsAlwaysFit
<1>1. DisclosureInv => StopsAlwaysFit
    BY DEF DisclosureInv
<1> QED BY <1>1, InvariantHolds, PTL

(* Every change the transition rules accept is one the decoder accepts.      *)
THEOREM DecoderAgrees == Spec => []DecoderAcceptsOwnWrites
<1>1. DisclosureInv => DecoderAcceptsOwnWrites
    BY DEF DisclosureInv
<1> QED BY <1>1, InvariantHolds, PTL

(* An admitted reader is always given the whole prefix a checkpoint signs.   *)
THEOREM PrefixesWhole == Spec => []ReadersGetWholePrefixes
<1>1. DisclosureInv => ReadersGetWholePrefixes
    <2> SUFFICES ASSUME DisclosureInv, NEW d \in LiveDisclosures, NEW s \in Readers,
                        NEW a \in Actions, NEW now \in Times,
                        Authorized(s, a, records[d].access, now)
                 PROVE  /\ IsPublished(records[d])
                        /\ \A c \in records[d].checkpoints :
                               LET prefix == PrefixOf(records[d], c) IN
                               /\ Len(prefix) = c.eventCount
                               /\ c.lastHash = IF prefix = <<>> THEN NoHash
                                               ELSE prefix[Len(prefix)].hash
                               /\ c.eventCount <= Published(records[d]).eventCount
        BY DEF ReadersGetWholePrefixes
    <2> DEFINE r == records[d]
    <2>1. d \in Disclosures /\ RowInv(r) /\ RowShape(r) /\ RowChain(r) /\ r \in LiveType
        BY LiveRow DEF LiveDisclosures
    <2>2. r.access.hash # NoHash
        BY DEF Authorized
    <2>3. IsPublished(r)
        BY <2>1, <2>2 DEF RowChain, PublicationParses
    <2>4. ASSUME NEW c \in r.checkpoints
          PROVE  /\ Len(PrefixOf(r, c)) = c.eventCount
                 /\ c.lastHash = IF PrefixOf(r, c) = <<>> THEN NoHash
                                 ELSE PrefixOf(r, c)[Len(PrefixOf(r, c))].hash
                 /\ c.eventCount <= Published(r).eventCount
        <3> DEFINE n == c.eventCount
        <3>1. /\ n \in Nat /\ n <= Len(r.events)
              /\ c.lastHash = IF n = 0 THEN NoHash ELSE r.events[n].hash
            BY <2>1, MarkerAssumption DEF RowChain, CheckpointsParse, CheckpointMatches, LiveType
        <3>2. c.eventCount <= Published(r).eventCount
            BY <2>1, <2>3 DEF RowChain, PublicationParses
        <3>3. r.events \in Seq(Envelopes)
            BY <2>1 DEF LiveType
        <3> HIDE DEF n, r
        <3>4. /\ Len(SubSeq(r.events, 1, n)) = n
              /\ n > 0 => SubSeq(r.events, 1, n)[n] = r.events[n]
            BY <3>1, <3>3
        <3>5. PrefixOf(r, c) = SubSeq(r.events, 1, n)
            BY DEF PrefixOf, n
        <3>6. CASE n = 0
            BY <3>1, <3>2, <3>4, <3>5, <3>6 DEF n
        <3>7. CASE n > 0
            BY <3>1, <3>2, <3>4, <3>5, <3>7 DEF n
        <3> QED BY <3>1, <3>6, <3>7
    <2> QED BY <2>3, <2>4
<1> QED BY <1>1, InvariantHolds, PTL

---------------------------------------------------------------------------
(* What one write does to one live row, in the terms of the properties that  *)
(* relate a row to its successor.                                            *)

Explains(log, v) ==
    /\ log[Len(log)].version = v
    /\ \A i \in 1..Len(log) - 1 : log[i + 1].version - log[i].version \in {0, 1}

(* More of the chain is confirmed; who may read stays as it was.             *)
Confirms(r, s) ==
    /\ Phase(r) = "open" /\ Phase(s) = "open"
    /\ s.access.version = r.access.version
    /\ s.access.control = r.access.control /\ s.access.terms = r.access.terms
    /\ r.access.ingest # "pending" => s.access.ingest # "pending"
    /\ r.access.hash # NoHash => s.access.hash # NoHash
    /\ Promise!Extends(ConfirmedOf(s), ConfirmedOf(r))

(* The row is frozen under the version it has.                               *)
Seals(r, s) ==
    /\ Phase(r) = "open" /\ Phase(s) = "sealed"
    /\ s.access = [r.access EXCEPT !.ingest = "frozen"]
    /\ ConfirmedOf(s) = ConfirmedOf(r)

(* Control or terms move under a new version; nothing reopens a sealed row.  *)
Administers(r, s) ==
    /\ Phase(r) = "sealed" => Phase(s) = "sealed"
    /\ s.access.version = r.access.version + 1
    /\ ConfirmedOf(s) = ConfirmedOf(r)

Progress(r, s) ==
    /\ Explains(r.audit, r.access.version) => Explains(s.audit, s.access.version)
    /\ Confirms(r, s) \/ Seals(r, s) \/ Administers(r, s)

(* Dropping old entries keeps what the window explains.                      *)
LEMMA RecentExplains ==
    ASSUME NEW s \in Seq(AuditType), Len(s) > 0, NEW n \in Nat \ {0}, NEW v, Explains(s, v)
    PROVE  Explains(Recent(s, n), v)
<1>1. CASE Len(s) <= n
    BY <1>1 DEF Recent
<1>2. CASE Len(s) > n
    <2> DEFINE m == Len(s) - n + 1
               w == SubSeq(s, m, Len(s))
    <2>1. m \in Nat /\ Len(s) \in Nat /\ m >= 1 /\ m <= Len(s) /\ m + n - 1 = Len(s)
        BY <1>2
    <2>2. \A i \in m..Len(s) : s[i] \in AuditType
        BY <2>1, ElementOfSeq
    <2>3. Len(w) = n /\ \A i \in 1..n : w[i] = s[m + i - 1]
        BY <2>1, <2>2, SubSeqProperties
    <2>4. Recent(s, n) = w
        BY <1>2 DEF Recent
    <2> HIDE DEF w, m
    <2>5. w[n] = s[Len(s)]
        BY <2>1, <2>3
    <2>6. ASSUME NEW i \in 1..n - 1
          PROVE  w[i + 1].version - w[i].version \in {0, 1}
        <3>1. m + i - 1 \in 1..Len(s) - 1 /\ i \in 1..n /\ i + 1 \in 1..n
            BY <2>1
        <3>2. PICK k \in Int : k = m + i - 1
            BY <2>1
        <3>3. k \in 1..Len(s) - 1 /\ k + 1 = m + (i + 1) - 1
            BY <2>1, <3>1, <3>2
        <3>4. w[i] = s[k] /\ w[i + 1] = s[k + 1]
            BY <2>3, <3>1, <3>2, <3>3
        <3> QED BY <3>3, <3>4 DEF Explains
    <2> QED BY <2>3, <2>4, <2>5, <2>6 DEF Explains
<1> QED BY <1>1, <1>2

(* audit() records the version the operation left.                           *)
LEMMA AuditExplains ==
    ASSUME NEW q \in LiveType, NEW action \in AuditActions, NEW v \in Nat,
           Len(q.audit) > 0, Explains(q.audit, v), q.access.version - v \in {0, 1}
    PROVE  Explains(Audit(q, action).audit, q.access.version)
<1> DEFINE log == q.audit
           u == q.access.version
           e == [action |-> action, version |-> u]
           more == Append(log, e)
<1>1. log \in Seq(AuditType) /\ u \in 0..MaxVersion /\ Len(log) \in Nat
    BY DEF LiveType, AccessType
<1>2. e \in AuditType /\ e.version = u
    BY <1>1 DEF AuditType
<1>3. Audit(q, action).audit = Recent(more, MaxAuditEntries)
    <2> DEFINE kept == Recent(more, MaxAuditEntries)
    <2>1. Audit(q, action) = [q EXCEPT !.audit = kept]
        BY DEF Audit
    <2> HIDE DEF kept
    <2>2. Audit(q, action).audit = kept
        BY <2>1 DEF LiveType
    <2> QED BY <2>2 DEF kept
<1> HIDE DEF log, u, e
<1>4. more \in Seq(AuditType) /\ Len(more) = Len(log) + 1
      /\ more[Len(log) + 1] = e /\ \A i \in 1..Len(log) : more[i] = log[i]
    BY <1>1, <1>2
<1> HIDE DEF more
<1>5. \A i \in 1..Len(more) - 1 : more[i + 1].version - more[i].version \in {0, 1}
    <2> SUFFICES ASSUME NEW i \in 1..Len(log)
                 PROVE  more[i + 1].version - more[i].version \in {0, 1}
        BY <1>1, <1>4
    <2>1. CASE i = Len(log)
        <3>1. more[i + 1] = e /\ more[i] = log[Len(log)]
            BY <1>1, <1>4, <2>1
        <3> QED BY <1>2, <3>1 DEF Explains, log, u
    <2>2. CASE i # Len(log)
        <3>1. i + 1 \in 1..Len(log) /\ i \in 1..Len(log) - 1
            BY <1>1, <2>2
        <3> QED BY <1>4, <3>1 DEF Explains, log
    <2> QED BY <2>1, <2>2
<1>6. Explains(more, u)
    BY <1>1, <1>2, <1>4, <1>5 DEF Explains
<1>7. Explains(Recent(more, MaxAuditEntries), u)
    BY <1>1, <1>4, <1>6, LimitAssumption, RecentExplains
<1> QED BY <1>3, <1>7 DEF u

(* Shedding audit entries of a stop changes nothing else a property sees.    *)
LEMMA TrimKeepsProgress ==
    ASSUME NEW r, NEW s, RowShape(s), Progress(r, s)
    PROVE  Progress(r, FitStopRecord(s))
<1> DEFINE room == MaxAggregateBytes - (ByteLength(s) - Len(s.audit))
           keep == IF room < 1 THEN 1 ELSE room
           w == Recent(s.audit, keep)
           t == FitStopRecord(s)
<1>1. /\ s \in LiveType /\ IsFiniteSet(s.checkpoints) /\ MaxAggregateBytes \in Nat
      /\ s.audit \in Seq(AuditType) /\ Len(s.audit) > 0
    BY LimitAssumption DEF RowShape, LiveType
<1>2. room \in Int
    BY <1>1, BytesType
<1>3. keep \in Nat \ {0}
    BY <1>2
<1>4. t = [s EXCEPT !.audit = w]
    BY DEF FitStopRecord
<1> HIDE DEF keep, room, w, t
<1>5. /\ t.audit = w /\ t.access = s.access /\ t.stream = s.stream /\ t.kind = s.kind
      /\ t.events = s.events /\ t.checkpoints = s.checkpoints
    BY <1>1, <1>4 DEF LiveType
<1>6. s.kind = "disclosure"
    BY <1>1 DEF LiveType
<1>7. ConfirmedOf(t) = ConfirmedOf(s)
    BY <1>5 DEF ConfirmedOf, IsPublished, Published, PrefixOf
<1>8. Phase(t) = Phase(s)
    BY <1>5, <1>6 DEF Phase, Absent
<1>9. ASSUME Explains(s.audit, s.access.version)
      PROVE  Explains(t.audit, t.access.version)
    BY <1>1, <1>3, <1>5, <1>9, RecentExplains DEF w
<1>10. Confirms(r, t) \/ Seals(r, t) \/ Administers(r, t)
    BY <1>5, <1>7, <1>8 DEF Progress, Confirms, Seals, Administers
<1> QED BY <1>9, <1>10 DEF Progress, t

(* An uploading row is open.                                                 *)
LEMMA UploadPhase ==
    ASSUME NEW r \in LiveType, NEW i, NEW now, CanUpload(r.access, i, now)
    PROVE  Phase(r) = "open"
<1>1. r.kind = "disclosure" /\ r.access.control = "active" /\ r.access.ingest # "frozen"
    BY DEF LiveType, CanUpload
<1> QED BY <1>1 DEF Phase, Absent

(* A sequence extends itself.                                                *)
LEMMA ExtendsItself ==
    ASSUME NEW S, NEW s \in Seq(S)
    PROVE  Promise!Extends(s, s)
BY DEF Promise!Extends

(* What is confirmed is a sequence of envelopes.                             *)
LEMMA ConfirmedType ==
    ASSUME NEW r, RowInv(r)
    PROVE  ConfirmedOf(r) \in Seq(Envelopes)
<1>1. /\ r.events \in Seq(Envelopes) /\ r.checkpoints \subseteq Markers /\ RowChain(r)
    BY DEF RowInv, RowShape, LiveType
<1>2. CASE IsPublished(r)
    <2> DEFINE c == Published(r)
               n == c.eventCount
    <2>1. c \in r.checkpoints
        BY <1>2 DEF IsPublished, Published
    <2>2. n \in Nat /\ n <= Len(r.events)
        BY <1>1, <2>1, MarkerAssumption DEF RowChain, CheckpointsParse, CheckpointMatches
    <2>3. SubSeq(r.events, 1, n) \in Seq(Envelopes)
        <3> HIDE DEF n
        <3>1. \A k \in 1..n : r.events[k] \in Envelopes
            BY <1>1, <2>2
        <3> QED BY <1>1, <2>2, <3>1, SubSeqProperties
    <2> QED BY <2>3 DEF ConfirmedOf, PrefixOf
<1>3. CASE ~IsPublished(r)
    BY <1>3 DEF ConfirmedOf
<1> QED BY <1>2, <1>3

(* An accepted event is not confirmed yet: what readers see stays.           *)
LEMMA EventProgress ==
    ASSUME NEW r, RowInv(r), NEW e \in Envelopes, EventVerdict(r, e) = "append",
           NEW i, NEW now, CanUpload(r.access, i, now)
    PROVE  Progress(r, AppendEvent(r, e))
<1> DEFINE more == Append(r.events, e)
           q == [r EXCEPT !.events = more]
           s == AppendEvent(r, e)
<1>1. /\ r \in LiveType /\ RowShape(r) /\ RowChain(r) /\ r.events \in Seq(Envelopes)
      /\ r.checkpoints \subseteq Markers /\ r.kind = "disclosure"
      /\ r.access.version \in Nat /\ Len(r.audit) > 0
      /\ r.audit \in Seq(LogUpTo(r.access.version))
    BY MaxVersionAssumption DEF RowInv, RowShape, LiveType, AccessType
<1>2. more \in Seq(Envelopes) /\ \A k \in 1..Len(r.events) : more[k] = r.events[k]
    BY <1>1
<1>3. s = Audit(q, "event")
    BY DEF AppendEvent
<1> HIDE DEF more, s
<1>4. q \in LiveType
    BY <1>1, <1>2 DEF LiveType
<1>5. /\ q.events = more /\ q.access = r.access /\ q.stream = r.stream
      /\ q.checkpoints = r.checkpoints /\ q.audit = r.audit
    BY <1>1 DEF LiveType
<1> HIDE DEF q
<1>6. "event" \in AuditActions
    BY DEF AuditActions
<1>7. /\ s \in LiveType /\ s.access = r.access /\ s.events = more
      /\ s.checkpoints = r.checkpoints
    BY <1>1, <1>3, <1>4, <1>5, <1>6, AuditFacts
<1>8. ASSUME Explains(r.audit, r.access.version)
      PROVE  Explains(s.audit, s.access.version)
    BY <1>1, <1>3, <1>4, <1>5, <1>6, <1>7, <1>8, AuditExplains
<1>9. Phase(r) = "open" /\ Phase(s) = "open"
    BY <1>1, <1>7, UploadPhase
<1>10. ConfirmedOf(s) = ConfirmedOf(r)
    <2>1. IsPublished(s) = IsPublished(r) /\ Published(s) = Published(r) /\ s.kind = r.kind
        BY <1>1, <1>7 DEF IsPublished, Published, LiveType
    <2>2. ASSUME IsPublished(r)
          PROVE  PrefixOf(s, Published(r)) = PrefixOf(r, Published(r))
        <3> DEFINE n == Published(r).eventCount
        <3>1. Published(r) \in r.checkpoints
            BY <2>2 DEF IsPublished, Published
        <3>2. n \in Nat /\ n <= Len(r.events)
            BY <1>1, <3>1, MarkerAssumption DEF RowChain, CheckpointsParse, CheckpointMatches
        <3> HIDE DEF n
        <3>3. SubSeq(more, 1, n) = SubSeq(r.events, 1, n)
            BY <1>1, <1>2, <3>2 DEF more
        <3> QED BY <1>7, <3>3 DEF PrefixOf, n
    <2> QED BY <2>1, <2>2 DEF ConfirmedOf
<1>11. Promise!Extends(ConfirmedOf(s), ConfirmedOf(r))
    <2>1. ConfirmedOf(r) \in Seq(Envelopes)
        BY ConfirmedType
    <2> QED BY <1>10, <2>1, ExtendsItself
<1>12. Confirms(r, s)
    BY <1>7, <1>9, <1>11 DEF Confirms
<1> QED BY <1>8, <1>12 DEF Progress, s

(* An access change under the row's version or the next one.                 *)
LEMMA AccessChangeProgress ==
    ASSUME NEW r, RowInv(r), NEW a \in AccessType, NEW action \in AuditActions,
           a.hash = r.access.hash, a.control # "deleted",
           a.version - r.access.version \in {0, 1},
           a.ingest \in {r.access.ingest, "frozen"}
    PROVE  LET s == Audit([r EXCEPT !.access = a], action)
           IN  /\ RowShape(s) /\ s.access = a /\ s.kind = "disclosure"
               /\ Explains(r.audit, r.access.version) => Explains(s.audit, s.access.version)
               /\ ConfirmedOf(s) = ConfirmedOf(r)
<1> DEFINE q == [r EXCEPT !.access = a]
           s == Audit(q, action)
<1>1. /\ r \in LiveType /\ RowShape(r) /\ RowChain(r) /\ r.kind = "disclosure"
      /\ r.access.version \in Nat /\ Len(r.audit) > 0
    BY MaxVersionAssumption DEF RowInv, RowShape, LiveType, AccessType
<1>2. a.version \in Nat /\ a.version >= r.access.version
    BY <1>1, MaxVersionAssumption DEF AccessType
<1>3. q \in LiveType /\ q.access = a /\ q.audit = r.audit
    BY <1>1 DEF LiveType
<1>4. /\ RowShape(s) /\ s.access = a /\ s.events = r.events /\ s.checkpoints = r.checkpoints
    BY <1>1, <1>2, AccessChange
<1>5. ASSUME Explains(r.audit, r.access.version)
      PROVE  Explains(s.audit, s.access.version)
    <2> HIDE DEF q
    <2> QED BY <1>1, <1>3, <1>4, <1>5, AuditExplains
<1> HIDE DEF s, q
<1>6. s.kind = "disclosure"
    BY <1>4 DEF RowShape, LiveType
<1>7. ConfirmedOf(s) = ConfirmedOf(r)
    BY <1>1, <1>4, <1>6 DEF ConfirmedOf, IsPublished, Published, PrefixOf
<1> QED BY <1>4, <1>5, <1>6, <1>7 DEF s, q

(* A freeze seals an open row.                                               *)
LEMMA FreezeProgress ==
    ASSUME NEW r, RowInv(r), NEW i, NEW now, CanUpload(r.access, i, now)
    PROVE  Progress(r, FitStopRecord(Frozen(r)))
<1> DEFINE a == [r.access EXCEPT !.ingest = "frozen"]
           s == Frozen(r)
<1>1. r \in LiveType /\ r.access \in AccessType /\ r.access.control # "deleted"
    BY DEF RowInv, RowShape, LiveType
<1>2. /\ a \in AccessType /\ a.hash = r.access.hash /\ a.ingest = "frozen"
      /\ a.control # "deleted" /\ a.version - r.access.version \in {0, 1}
    BY <1>1, MaxVersionAssumption DEF AccessType, IngestStates
<1>3. s = Audit([r EXCEPT !.access = a], "frozen")
    BY <1>1 DEF Frozen, MoveIngest, LiveType
<1> HIDE DEF a, s
<1>4. /\ RowShape(s) /\ s.access = a /\ s.kind = "disclosure"
      /\ Explains(r.audit, r.access.version) => Explains(s.audit, s.access.version)
      /\ ConfirmedOf(s) = ConfirmedOf(r)
    <2>1. "frozen" \in AuditActions
        BY DEF AuditActions
    <2> QED BY <1>2, <1>3, <2>1, AccessChangeProgress
<1>5. Phase(r) = "open" /\ Phase(s) = "sealed"
    BY <1>1, <1>2, <1>4, UploadPhase DEF Phase, Absent
<1>6. Progress(r, s)
    BY <1>4, <1>5 DEF Progress, Seals, a
<1> QED BY <1>4, <1>6, TrimKeepsProgress DEF s

(* An administrative change takes the next version.                          *)
LEMMA AdministerProgress ==
    ASSUME NEW r, RowInv(r), NEW a \in AccessType, NEW action \in AuditActions,
           a.hash = r.access.hash, a.control # "deleted", a.ingest = r.access.ingest,
           a.version = r.access.version + 1,
           r.access.control \notin {"active", "paused"} => a.control \notin {"active", "paused"}
    PROVE  LET s == Audit([r EXCEPT !.access = a], action)
           IN  RowShape(s) /\ Progress(r, s)
<1> DEFINE s == Audit([r EXCEPT !.access = a], action)
<1>1. r \in LiveType /\ r.access.version \in Nat /\ r.kind = "disclosure"
    BY MaxVersionAssumption DEF RowInv, RowShape, LiveType, AccessType
<1>2. a.version - r.access.version \in {0, 1}
    BY <1>1
<1>3. /\ RowShape(s) /\ s.access = a /\ s.kind = "disclosure"
      /\ Explains(r.audit, r.access.version) => Explains(s.audit, s.access.version)
      /\ ConfirmedOf(s) = ConfirmedOf(r)
    BY <1>2, AccessChangeProgress
<1> HIDE DEF s
<1>4. Phase(r) = "sealed" => Phase(s) = "sealed"
    BY <1>1, <1>3 DEF Phase, Absent
<1>5. Progress(r, s)
    BY <1>3, <1>4 DEF Progress, Administers
<1> QED BY <1>3, <1>5 DEF s

(* An accepted checkpoint confirms a longer prefix, or none when it is late. *)
LEMMA CheckpointProgress ==
    ASSUME NEW r, RowInv(r), NEW m \in Markers, CheckpointVerdict(r, m) = "append",
           NEW i, NEW now, CanUpload(r.access, i, now)
    PROVE  Progress(r, AppendCheckpoint(r, m))
<1> DEFINE late == IsPublished(r) /\ m.cursor <= Published(r).cursor
           hash == IF late THEN r.access.hash ELSE m.hash
           a == [r.access EXCEPT !.ingest = "ready", !.hash = hash]
           q == [r EXCEPT !.checkpoints = @ \cup {m}, !.access = a]
           s == AppendCheckpoint(r, m)
<1>1. /\ r \in LiveType /\ r.access \in AccessType /\ RowShape(r) /\ RowChain(r)
      /\ r.checkpoints \subseteq Markers /\ r.kind = "disclosure"
      /\ r.audit \in Seq(LogUpTo(r.access.version)) /\ Len(r.audit) > 0
      /\ r.access.version \in Nat /\ r.events \in Seq(Envelopes)
    BY MaxVersionAssumption DEF RowInv, RowShape, LiveType, AccessType
<1>2. /\ CheckpointMatches(r, m)
      /\ \A c \in r.checkpoints : c.hash # m.hash /\ c.cursor # m.cursor
    BY DEF CheckpointVerdict, Retained
<1>3. hash \in {NoHash} \cup {c.hash : c \in Markers}
    BY <1>1 DEF AccessType
<1>4. MoveIngest(r.access.ingest, "ready") = "ready" /\ r.access.control = "active"
    BY <1>1 DEF MoveIngest, AccessType, IngestStates, CanUpload
<1> HIDE DEF hash
<1>5. /\ a \in AccessType /\ a.version = r.access.version /\ a.hash = hash
      /\ a.control = r.access.control /\ a.ingest = "ready" /\ a.terms = r.access.terms
    BY <1>1, <1>3 DEF AccessType, IngestStates
<1>6. [r EXCEPT !.checkpoints = @ \cup {m}, !.access.ingest = MoveIngest(@, "ready"),
                !.access.hash = hash] = q
    BY <1>1, <1>4 DEF LiveType, AccessType
<1>7. s = Audit(q, "checkpoint")
    BY <1>6 DEF AppendCheckpoint, hash
<1> HIDE DEF a
<1>8. q \in LiveType
    BY <1>1, <1>5 DEF LiveType
<1>9. /\ q.access = a /\ q.stream = r.stream /\ q.events = r.events
      /\ q.checkpoints = r.checkpoints \cup {m} /\ q.audit = r.audit
    BY <1>1 DEF LiveType
<1> HIDE DEF q
<1>10. "checkpoint" \in AuditActions
    BY DEF AuditActions
<1>11. /\ s \in LiveType /\ s.access = a /\ s.events = r.events /\ s.kind = "disclosure"
       /\ s.checkpoints = r.checkpoints \cup {m}
    <2> HIDE DEF s
    <2>1. q.audit \in Seq(LogUpTo(q.access.version))
        BY <1>1, <1>5, <1>9
    <2>2. s.access = q.access /\ s.events = q.events /\ s.checkpoints = q.checkpoints
          /\ s \in LiveType
        BY <1>7, <1>8, <1>10, <2>1, AuditFacts
    <2> QED BY <1>9, <2>2 DEF LiveType
<1>12. ASSUME Explains(r.audit, r.access.version)
       PROVE  Explains(s.audit, s.access.version)
    <2> HIDE DEF s
    <2>1. q.access.version - r.access.version \in {0, 1}
        BY <1>1, <1>5, <1>9
    <2> QED BY <1>1, <1>5, <1>7, <1>8, <1>9, <1>10, <1>11, <1>12, <2>1, AuditExplains
<1>13. RowChain(s)
    BY AppendCheckpointFacts DEF CanUpload
<1> HIDE DEF s
<1>14. Phase(r) = "open" /\ Phase(s) = "open"
    <2>1. Phase(r) = "open"
        BY <1>1, UploadPhase
    <2> QED BY <1>4, <1>5, <1>11, <2>1 DEF Phase, Absent
<1>15. r.access.hash # NoHash => s.access.hash # NoHash
    BY <1>5, <1>11, MarkerAssumption DEF hash
<1>16. Promise!Extends(ConfirmedOf(s), ConfirmedOf(r))
    <2>1. CASE ~IsPublished(r)
        <3>1. ConfirmedOf(r) = <<>>
            BY <2>1 DEF ConfirmedOf
        <3>2. IsPublished(s) /\ Published(s) \in r.checkpoints \cup {m}
            BY <1>5, <1>11, <2>1 DEF IsPublished, Published, hash
        <3>3. Len(ConfirmedOf(s)) \in Nat
            <4> DEFINE n == Published(s).eventCount
            <4>1. n \in Nat /\ n <= Len(r.events)
                BY <1>1, <1>11, <1>13, <3>2, MarkerAssumption
                   DEF RowChain, CheckpointsParse, CheckpointMatches
            <4> HIDE DEF n
            <4>2. Len(SubSeq(r.events, 1, n)) = n
                BY <1>1, <4>1
            <4> QED BY <1>11, <3>2, <4>1, <4>2 DEF ConfirmedOf, PrefixOf, n
        <3> QED BY <3>1, <3>3 DEF Promise!Extends
    <2>2. CASE IsPublished(r)
        <3> DEFINE b == Published(r)
                   c == Published(s)
                   k == b.eventCount
                   n == c.eventCount
        <3>1. b \in r.checkpoints /\ b.hash = r.access.hash /\ b \in Markers
            BY <1>1, <2>2 DEF IsPublished, Published
        <3>2. IsPublished(s) /\ c \in s.checkpoints /\ c.hash = hash /\ c \in Markers
            BY <1>1, <1>5, <1>11, <3>1 DEF IsPublished, Published, hash
        <3>3. CheckpointMatches(r, b) /\ CheckpointMatches(r, c)
            BY <1>1, <1>2, <1>11, <3>1, <3>2 DEF RowChain, CheckpointsParse
        <3>4. b.cursor <= c.cursor
            BY <1>11, <1>13, <3>1, <3>2 DEF RowChain, PublicationParses
        <3>5. k \in Nat /\ n \in Nat /\ k <= n /\ n <= Len(r.events)
            BY <1>1, <3>1, <3>2, <3>3, <3>4, MarkersOrdered, MarkerAssumption DEF CheckpointMatches
        <3>6. ConfirmedOf(r) = SubSeq(r.events, 1, k) /\ ConfirmedOf(s) = SubSeq(r.events, 1, n)
            BY <1>1, <1>11, <2>2, <3>2 DEF ConfirmedOf, PrefixOf
        <3> HIDE DEF k, n
        <3>7. /\ Len(SubSeq(r.events, 1, k)) = k /\ Len(SubSeq(r.events, 1, n)) = n
              /\ \A j \in 1..k : SubSeq(r.events, 1, n)[j] = SubSeq(r.events, 1, k)[j]
            BY <1>1, <3>5
        <3> QED BY <3>5, <3>6, <3>7 DEF Promise!Extends
    <2> QED BY <2>1, <2>2
<1>17. Confirms(r, s)
    BY <1>5, <1>11, <1>14, <1>15, <1>16 DEF Confirms
<1> QED BY <1>12, <1>17 DEF Progress, s

---------------------------------------------------------------------------
(* Every step of the registry, as what it does to the rows.                  *)

KeepsOthers(d) == \A o \in Disclosures \ {d} : records'[o] = records[o]

Registers(d) ==
    /\ records[d] = Absent
    /\ \E i \in Instances, s \in Streams, t \in Terms : records'[d] = FreshRecord(i, s, t)
    /\ KeepsOthers(d)

Rewrites(d) ==
    /\ Live(d) /\ records'[d].kind = "disclosure"
    /\ Progress(records[d], records'[d])
    /\ KeepsOthers(d)

Erases(d) ==
    /\ Live(d) /\ records'[d].kind = "tombstone"
    /\ records'[d].version > records[d].access.version
    /\ KeepsOthers(d)

RenewsLive ==
    \A d \in Disclosures :
        IF Live(d)
        THEN /\ records'[d].kind = "disclosure"
             /\ Progress(records[d], records'[d])
             /\ Phase(records'[d]) = Phase(records[d])
             /\ ConfirmedOf(records'[d]) = ConfirmedOf(records[d])
             /\ records'[d].access.version = records[d].access.version + 1
        ELSE records'[d] = records[d]

Moves ==
    \/ \E d \in Disclosures : Registers(d) \/ Rewrites(d) \/ Erases(d)
    \/ RenewsLive
    \/ UNCHANGED records

(* One written row is a rewrite of it.                                       *)
LEMMA WriteRewrites ==
    ASSUME DisclosureInv, NEW d \in Disclosures, Live(d), NEW row,
           row.kind = "disclosure", Progress(records[d], row),
           records' = [records EXCEPT ![d] = row]
    PROVE  Rewrites(d)
<1>1. records \in [Disclosures -> {Absent} \cup LiveType \cup TombstoneType]
    BY DEF DisclosureInv, TypeOK
<1>2. records'[d] = row /\ \A o \in Disclosures \ {d} : records'[o] = records[o]
    BY <1>1
<1> QED BY <1>2 DEF Rewrites, KeepsOthers

LEMMA RegisterMoves ==
    ASSUME DisclosureInv, NEW d \in Disclosures, NEW i \in Instances, NEW s \in Streams,
           NEW t \in Terms, NEW now \in Times, Register(d, i, s, t, now)
    PROVE  Registers(d)
<1> DEFINE row == FreshRecord(i, s, t)
<1>1. records \in [Disclosures -> {Absent} \cup LiveType \cup TombstoneType]
    BY DEF DisclosureInv, TypeOK
<1>2. records[d] = Absent /\ records' = [records EXCEPT ![d] = row]
    BY DEF Register
<1> HIDE DEF row
<1>3. records'[d] = row /\ \A o \in Disclosures \ {d} : records'[o] = records[o]
    BY <1>1, <1>2
<1> QED BY <1>2, <1>3 DEF Registers, KeepsOthers, row

LEMMA IngestEventMoves ==
    ASSUME DisclosureInv, NEW d \in Disclosures, NEW i \in Instances, NEW e \in Envelopes,
           NEW now \in Times, IngestEvent(d, i, e, now)
    PROVE  Rewrites(d)
<1> DEFINE r == records[d]
<1>1. Live(d) /\ RowInv(r) /\ CanUpload(r.access, i, now)
    BY LiveRow DEF IngestEvent
<1>2. CASE EventVerdict(r, e) = "append" /\ CommitChange(d, AppendEvent(r, e))
    <2> DEFINE row == AppendEvent(r, e)
    <2>1. RowShape(row) /\ RowChain(row)
        BY <1>1, <1>2, AppendEventFacts
    <2>2. Progress(r, row)
        BY <1>1, <1>2, EventProgress
    <2>3. CommitChange(d, row)
        BY <1>2
    <2> HIDE DEF row
    <2>4. records' = [records EXCEPT ![d] = row]
        BY <2>1, <2>3, ChangeIsWritten
    <2>5. row.kind = "disclosure"
        BY <2>1 DEF RowShape, LiveType
    <2> QED BY <1>1, <2>2, <2>4, <2>5, WriteRewrites
<1>3. CASE EventVerdict(r, e) = "frozen" /\ CommitStop(d, Frozen(r))
    <2> DEFINE row == FitStopRecord(Frozen(r))
    <2>1. RowInv(row)
        BY <1>1, FrozenFacts
    <2>2. Progress(r, row)
        BY <1>1, FreezeProgress
    <2>3. records' = [records EXCEPT ![d] = row]
        BY <1>3, <2>1, StopIsWritten DEF SoundRow
    <2> HIDE DEF row
    <2>4. row.kind = "disclosure"
        BY <2>1 DEF RowInv, RowShape, LiveType
    <2> QED BY <1>1, <2>2, <2>3, <2>4, WriteRewrites
<1> QED BY <1>2, <1>3 DEF IngestEvent

LEMMA IngestCheckpointMoves ==
    ASSUME DisclosureInv, NEW d \in Disclosures, NEW i \in Instances, NEW m \in Markers,
           NEW now \in Times, IngestCheckpoint(d, i, m, now)
    PROVE  Rewrites(d)
<1> DEFINE r == records[d]
<1>1. Live(d) /\ RowInv(r) /\ CanUpload(r.access, i, now) /\ r.access.ingest # "frozen"
    BY LiveRow DEF IngestCheckpoint, CanUpload
<1>2. CASE CheckpointVerdict(r, m) = "append" /\ CommitChange(d, AppendCheckpoint(r, m))
    <2> DEFINE row == AppendCheckpoint(r, m)
    <2>1. RowShape(row) /\ RowChain(row)
        BY <1>1, <1>2, AppendCheckpointFacts
    <2>2. Progress(r, row)
        BY <1>1, <1>2, CheckpointProgress
    <2>3. CommitChange(d, row)
        BY <1>2
    <2> HIDE DEF row
    <2>4. records' = [records EXCEPT ![d] = row]
        BY <2>1, <2>3, ChangeIsWritten
    <2>5. row.kind = "disclosure"
        BY <2>1 DEF RowShape, LiveType
    <2> QED BY <1>1, <2>2, <2>4, <2>5, WriteRewrites
<1>3. CASE CheckpointVerdict(r, m) = "frozen" /\ CommitStop(d, Frozen(r))
    <2> DEFINE row == FitStopRecord(Frozen(r))
    <2>1. RowInv(row)
        BY <1>1, FrozenFacts
    <2>2. Progress(r, row)
        BY <1>1, FreezeProgress
    <2>3. records' = [records EXCEPT ![d] = row]
        BY <1>3, <2>1, StopIsWritten DEF SoundRow
    <2> HIDE DEF row
    <2>4. row.kind = "disclosure"
        BY <2>1 DEF RowInv, RowShape, LiveType
    <2> QED BY <1>1, <2>2, <2>3, <2>4, WriteRewrites
<1> QED BY <1>2, <1>3 DEF IngestCheckpoint

LEMMA UpdateTermsMoves ==
    ASSUME DisclosureInv, NEW d \in Disclosures, NEW i \in Instances, NEW t \in Terms,
           NEW now \in Times, UpdateTerms(d, i, t, now)
    PROVE  Rewrites(d)
<1> DEFINE r == records[d]
           a == UpdateAccess(r.access, t)
           row == Audit([r EXCEPT !.access = a], "access")
<1>1. /\ Live(d) /\ RowInv(r) /\ RowShape(r) /\ RowChain(r) /\ r.access \in AccessType
      /\ r.access.version \in 0..MaxVersion /\ r.access.control # "deleted"
    BY LiveRow DEF UpdateTerms
<1>2. r.access.version < MaxVersion /\ CommitChange(d, row)
    BY DEF UpdateTerms, UpdateAllowed, CanIncrement
<1>3. a = [r.access EXCEPT !.terms = t, !.version = @ + 1]
    BY DEF UpdateTerms, UpdateAccess
<1>4. r.access.control \in ControlStates
    BY <1>1 DEF AccessType
<1>5. a \in AccessType
    BY <1>1, <1>2, <1>3, <1>4, VersionBump
<1>6. /\ a.hash = r.access.hash /\ a.control = r.access.control
      /\ a.ingest = r.access.ingest /\ a.version = r.access.version + 1
    BY <1>1, <1>3 DEF AccessType
<1>7. a.version >= r.access.version /\ "access" \in AuditActions
    BY <1>1, <1>6, MaxVersionAssumption DEF AuditActions
<1> HIDE DEF a
<1>8. RowShape(row) /\ RowChain(row)
    BY <1>1, <1>5, <1>6, <1>7, AccessChange
<1>9. Progress(r, row)
    BY <1>1, <1>5, <1>6, <1>7, AdministerProgress
<1> HIDE DEF row
<1>10. records' = [records EXCEPT ![d] = row]
    BY <1>2, <1>8, ChangeIsWritten
<1>11. row.kind = "disclosure"
    BY <1>8 DEF RowShape, LiveType
<1> QED BY <1>1, <1>9, <1>10, <1>11, WriteRewrites

LEMMA TransitionControlMoves ==
    ASSUME DisclosureInv, NEW d \in Disclosures, NEW i \in Instances,
           NEW target \in ControlStates, NEW now \in Times,
           TransitionControl(d, i, target, now)
    PROVE  Rewrites(d)
<1> DEFINE r == records[d]
           a == MoveControl(r.access, target)
           next == Audit([r EXCEPT !.access = a], "control")
           trimmed == FitStopRecord(next)
<1>1. /\ Live(d) /\ RowInv(r) /\ RowShape(r) /\ RowChain(r) /\ r.access \in AccessType
      /\ r.access.version \in 0..MaxVersion /\ StopReserveBytes(r) <= MaxAggregateBytes
    BY LiveRow DEF TransitionControl, RowInv
<1>2. /\ r.access.version < MaxVersion
      /\ target # "deleted" /\ target # r.access.control
      /\ target \in ControlTransitions[r.access.control]
    BY DEF TransitionControl, ControlAllowed, CanIncrement
<1>3. a = [r.access EXCEPT !.control = target, !.version = @ + 1]
    BY <1>2 DEF MoveControl
<1>4. r.access.terms \in Terms /\ r.access.control \in ControlStates
    BY <1>1 DEF AccessType
<1>5. a \in AccessType
    BY <1>1, <1>2, <1>3, <1>4, VersionBump
<1>6. /\ a.hash = r.access.hash /\ a.control = target /\ a.terms = r.access.terms
      /\ a.ingest = r.access.ingest /\ a.version = r.access.version + 1
    BY <1>1, <1>3 DEF AccessType
<1>7. a.version >= r.access.version /\ "control" \in AuditActions
    BY <1>1, <1>6, MaxVersionAssumption DEF AuditActions
<1>8. r.access.control \notin {"active", "paused"} => target \notin {"active", "paused"}
    BY <1>2, <1>4 DEF ControlTransitions, ControlStates
<1>9. CommitChange(d, next) \/ CommitStop(d, next)
    BY DEF TransitionControl
<1> HIDE DEF a
<1>10. /\ RowShape(next) /\ RowChain(next) /\ next.access = a
       /\ next.events = r.events /\ next.checkpoints = r.checkpoints
    BY <1>1, <1>2, <1>5, <1>6, <1>7, AccessChange
<1>11. Progress(r, next)
    BY <1>1, <1>2, <1>5, <1>6, <1>7, <1>8, AdministerProgress
<1> HIDE DEF next
<1>12. StopReserveBytes(next) <= MaxAggregateBytes
    BY <1>1, <1>6, <1>10, SameReserve
<1>13. RowInv(trimmed) /\ Progress(r, trimmed)
    BY <1>10, <1>11, <1>12, FitStopFacts, TrimKeepsProgress
<1>14. CASE CommitChange(d, next)
    <2>1. records' = [records EXCEPT ![d] = next]
        BY <1>10, <1>14, ChangeIsWritten
    <2>2. next.kind = "disclosure"
        BY <1>10 DEF RowShape, LiveType
    <2> QED BY <1>1, <1>11, <2>1, <2>2, WriteRewrites
<1>15. CASE CommitStop(d, next)
    <2>1. records' = [records EXCEPT ![d] = trimmed]
        BY <1>13, <1>15, StopIsWritten DEF SoundRow
    <2>2. trimmed.kind = "disclosure"
        BY <1>13 DEF RowInv, RowShape, LiveType
    <2> HIDE DEF trimmed
    <2> QED BY <1>1, <1>13, <2>1, <2>2, WriteRewrites
<1> QED BY <1>9, <1>14, <1>15

LEMMA EraseMoves ==
    ASSUME DisclosureInv, NEW d \in Disclosures, Live(d), EraseRecord(d)
    PROVE  Erases(d)
<1> DEFINE r == records[d]
           v == r.access.version + DeletionSteps(r)
           row == FitStopRecord(Tombstone(r, v))
<1>1. r \in LiveType /\ r.access.version \in 0..MaxVersion
    BY LiveRow
<1>2. v \in 0..MaxVersion /\ v > r.access.version /\ CommitStop(d, Tombstone(r, v))
    BY <1>1, MaxVersionAssumption DEF EraseRecord, DeletionSteps
<1> HIDE DEF v
<1>3. SoundRow(row)
    BY <1>1, <1>2, TombstoneFacts
<1>4. records' = [records EXCEPT ![d] = row]
    BY <1>2, <1>3, StopIsWritten
<1>5. row.kind = "tombstone" /\ row.version = v
    <2> DEFINE kept == Recent(Tombstone(r, v).audit,
                           IF MaxAggregateBytes - (ByteLength(Tombstone(r, v)) - Len(Tombstone(r, v).audit)) < 1
                           THEN 1 ELSE MaxAggregateBytes - (ByteLength(Tombstone(r, v)) - Len(Tombstone(r, v).audit)))
    <2>1. row = [Tombstone(r, v) EXCEPT !.audit = kept]
        BY DEF FitStopRecord
    <2> HIDE DEF kept
    <2> QED BY <2>1 DEF Tombstone
<1> HIDE DEF row
<1>6. records \in [Disclosures -> {Absent} \cup LiveType \cup TombstoneType]
    BY DEF DisclosureInv, TypeOK
<1>7. records'[d] = row /\ \A o \in Disclosures \ {d} : records'[o] = records[o]
    BY <1>4, <1>6
<1> QED BY <1>2, <1>5, <1>7 DEF Erases, KeepsOthers

LEMMA RenewAllMoves ==
    ASSUME DisclosureInv, RenewAll
    PROVE  RenewsLive
<1>1. ASSUME NEW d \in Disclosures, Live(d)
      PROVE  LET r == records[d]  s == Renewed(records[d])
             IN  /\ ParseRecord(s) /\ s.kind = "disclosure" /\ Progress(r, s)
                 /\ Phase(s) = Phase(r) /\ ConfirmedOf(s) = ConfirmedOf(r)
                 /\ s.access.version = r.access.version + 1
    <2> DEFINE r == records[d]
               a == InvalidateAuthorization(r.access)
               s == Renewed(r)
    <2>1. /\ RowInv(r) /\ RowShape(r) /\ RowChain(r) /\ r.access \in AccessType
          /\ r.access.version \in 0..MaxVersion /\ r.access.control # "deleted"
        BY <1>1, LiveRow
    <2>2. r.access.version < MaxVersion /\ LeavesRoom(s)
        BY <1>1 DEF RenewAll, LiveDisclosures, CanIncrement
    <2>3. a = [r.access EXCEPT !.version = @ + 1]
        BY DEF InvalidateAuthorization
    <2>4. /\ a \in AccessType /\ a.hash = r.access.hash /\ a.control = r.access.control
          /\ a.version = r.access.version + 1 /\ a.ingest = r.access.ingest
          /\ a.version >= r.access.version /\ a.version - r.access.version \in {0, 1}
        BY <2>1, <2>2, <2>3, MaxVersionAssumption DEF AccessType
    <2>5. s = Audit([r EXCEPT !.access = a], "access") /\ "access" \in AuditActions
        BY DEF Renewed, AuditActions
    <2> HIDE DEF a, s
    <2>6. RowShape(s) /\ RowChain(s)
        BY <2>1, <2>4, <2>5, AccessChange
    <2>7. Progress(r, s)
        BY <2>1, <2>4, <2>5, AdministerProgress
    <2>8. s.access = a /\ s.kind = "disclosure" /\ ConfirmedOf(s) = ConfirmedOf(r)
        BY <2>1, <2>4, <2>5, AccessChangeProgress
    <2>9. Phase(s) = Phase(r)
        <3>1. r.kind = "disclosure"
            BY <2>1 DEF RowShape, LiveType
        <3> QED BY <2>4, <2>8, <3>1 DEF Phase, Absent
    <2>10. ParseRecord(s)
        BY <2>2, <2>6, RowParses DEF RowInv, LeavesRoom
    <2> QED BY <2>4, <2>7, <2>8, <2>9, <2>10 DEF s
<1>2. \A d \in LiveDisclosures : ParseRecord(Renewed(records[d]))
    BY <1>1 DEF LiveDisclosures
<1>3. records' = [d \in Disclosures |-> IF Live(d) THEN Renewed(records[d]) ELSE records[d]]
    BY <1>2 DEF RenewAll
<1> QED BY <1>1, <1>3 DEF RenewsLive

LEMMA StepMoves == DisclosureInv /\ [Next]_vars => Moves
<1> SUFFICES ASSUME DisclosureInv, [Next]_vars PROVE Moves
    OBVIOUS
<1>1. CASE UNCHANGED vars
    BY <1>1 DEF vars, Moves
<1>2. CASE RenewAll
    BY <1>2, RenewAllMoves DEF Moves
<1>3. ASSUME NEW d \in Disclosures, NEW i \in Instances, NEW now \in Times,
             \/ \E s \in Streams, t \in Terms : Register(d, i, s, t, now)
             \/ \E e \in Envelopes : IngestEvent(d, i, e, now)
             \/ \E m \in Markers : IngestCheckpoint(d, i, m, now)
             \/ \E t \in Terms : UpdateTerms(d, i, t, now)
             \/ \E target \in ControlStates : TransitionControl(d, i, target, now)
             \/ Delete(d, i)
             \/ ProcessDeletion(d, now)
      PROVE  Registers(d) \/ Rewrites(d) \/ Erases(d)
    <2>1. ASSUME NEW s \in Streams, NEW t \in Terms, Register(d, i, s, t, now)
          PROVE  Registers(d)
        BY <2>1, RegisterMoves
    <2>2. ASSUME NEW e \in Envelopes, IngestEvent(d, i, e, now)
          PROVE  Rewrites(d)
        BY <2>2, IngestEventMoves
    <2>3. ASSUME NEW m \in Markers, IngestCheckpoint(d, i, m, now)
          PROVE  Rewrites(d)
        BY <2>3, IngestCheckpointMoves
    <2>4. ASSUME NEW t \in Terms, UpdateTerms(d, i, t, now)
          PROVE  Rewrites(d)
        BY <2>4, UpdateTermsMoves
    <2>5. ASSUME NEW target \in ControlStates, TransitionControl(d, i, target, now)
          PROVE  Rewrites(d)
        BY <2>5, TransitionControlMoves
    <2>6. CASE Delete(d, i)
        BY <2>6, EraseMoves DEF Delete
    <2>7. CASE ProcessDeletion(d, now)
        BY <2>7, EraseMoves DEF ProcessDeletion
    <2> QED BY <1>3, <2>1, <2>2, <2>3, <2>4, <2>5, <2>6, <2>7
<1> QED BY <1>1, <1>2, <1>3 DEF Next, Moves

---------------------------------------------------------------------------
(* The audit window of every live row explains its version: the newest entry *)
(* of the log carries the row's version, and no operation that audit() or    *)
(* the trimming of a stop leaves out of the window hides a skipped version.  *)
THEOREM AuditIsComplete == Spec => []AuditExplainsVersion
<1>1. Init => AuditExplainsVersion
    BY DEF Init, AuditExplainsVersion, LiveDisclosures, Live, Absent
<1>2. DisclosureInv /\ AuditExplainsVersion /\ [Next]_vars => AuditExplainsVersion'
    <2> SUFFICES ASSUME DisclosureInv, AuditExplainsVersion, [Next]_vars,
                        NEW d \in Disclosures, records'[d].kind = "disclosure"
                 PROVE  Explains(records'[d].audit, records'[d].access.version)
        BY DEF AuditExplainsVersion, LiveDisclosures, Live, Explains
    <2>1. Live(d) => Explains(records[d].audit, records[d].access.version)
        BY DEF AuditExplainsVersion, LiveDisclosures, Explains
    <2>2. Moves
        BY StepMoves
    <2>3. CASE \E o \in Disclosures : Registers(o) \/ Rewrites(o) \/ Erases(o)
        <3>1. PICK o \in Disclosures : Registers(o) \/ Rewrites(o) \/ Erases(o)
            BY <2>3
        <3>2. CASE o # d
            <4>1. records'[d] = records[d]
                BY <3>1, <3>2 DEF Registers, Rewrites, Erases, KeepsOthers
            <4> QED BY <2>1, <4>1 DEF Live
        <3>3. CASE o = d /\ Registers(d)
            <4> DEFINE log == <<[action |-> "registered", version |-> 0]>>
            <4>1. records'[d].audit = log /\ records'[d].access.version = 0
                BY <3>3 DEF Registers, FreshRecord
            <4>2. Len(log) = 1 /\ log[1].version = 0
                OBVIOUS
            <4> HIDE DEF log
            <4> QED BY <4>1, <4>2 DEF Explains
        <3>4. CASE o = d /\ Rewrites(d)
            BY <2>1, <3>4 DEF Rewrites, Progress
        <3>5. CASE o = d /\ Erases(d)
            BY <3>5 DEF Erases
        <3> QED BY <3>1, <3>2, <3>3, <3>4, <3>5
    <2>4. CASE RenewsLive
        BY <2>1, <2>4 DEF RenewsLive, Progress, Live
    <2>5. CASE UNCHANGED records
        BY <2>1, <2>5 DEF Live
    <2> QED BY <2>2, <2>3, <2>4, <2>5 DEF Moves
<1> QED BY <1>1, <1>2, InvariantHolds, PTL DEF Spec

---------------------------------------------------------------------------
(* A row that stays live under one version keeps what authorization reads.   *)
LEMMA SameVersionKeepsAccess ==
    ASSUME NEW r, NEW s, Progress(r, s), r \in LiveType,
           s.access.version = r.access.version
    PROVE  /\ s.access.control = r.access.control /\ s.access.terms = r.access.terms
           /\ r.access.ingest # "pending" => s.access.ingest # "pending"
           /\ r.access.hash # NoHash => s.access.hash # NoHash
<1>1. r.access \in AccessType /\ r.access.version \in Nat
    BY MaxVersionAssumption DEF LiveType, AccessType
<1>2. ~Administers(r, s)
    BY <1>1 DEF Administers
<1>3. CASE Confirms(r, s)
    BY <1>3 DEF Confirms
<1>4. CASE Seals(r, s)
    BY <1>1, <1>4 DEF Seals, AccessType
<1> QED BY <1>2, <1>3, <1>4 DEF Progress

(* Nobody loses access under a version that may have been cached: a step     *)
(* that leaves a live row its version leaves every admitted reader admitted. *)
THEOREM CachedDecisionsStayRight == Spec => LostAccessChangesVersion
<1> DEFINE Kept ==
        \A d \in Disclosures, s \in Readers, a \in Actions, now \in Times :
          /\ Live(d) /\ Authorized(s, a, records[d].access, now)
          /\ records'[d].kind = "disclosure"
          /\ records'[d].access.version = records[d].access.version
          => Authorized(s, a, records'[d].access, now)
<1>1. DisclosureInv /\ [Next]_vars => [Kept]_vars
    <2> SUFFICES ASSUME DisclosureInv, [Next]_vars,
                        NEW d \in Disclosures, NEW s \in Readers, NEW a \in Actions, NEW now \in Times,
                        Live(d), Authorized(s, a, records[d].access, now),
                        records'[d].kind = "disclosure",
                        records'[d].access.version = records[d].access.version
                 PROVE  Authorized(s, a, records'[d].access, now)
        OBVIOUS
    <2>1. Moves
        BY StepMoves
    <2>2. records'[d] = records[d] \/ Progress(records[d], records'[d])
        <3>1. CASE \E o \in Disclosures : Registers(o) \/ Rewrites(o) \/ Erases(o)
            <4>1. PICK o \in Disclosures : Registers(o) \/ Rewrites(o) \/ Erases(o)
                BY <3>1
            <4>2. CASE o # d
                BY <4>1, <4>2 DEF Registers, Rewrites, Erases, KeepsOthers
            <4>3. CASE o = d
                BY <4>1, <4>3 DEF Registers, Rewrites, Erases, Live, Absent
            <4> QED BY <4>2, <4>3
        <3>2. CASE RenewsLive
            BY <3>2 DEF RenewsLive
        <3>3. CASE UNCHANGED records
            BY <3>3
        <3> QED BY <2>1, <3>1, <3>2, <3>3 DEF Moves
    <2>3. CASE records'[d] = records[d]
        BY <2>3
    <2>4. CASE Progress(records[d], records'[d])
        <3>1. records[d] \in LiveType
            BY LiveRow
        <3>2. /\ records'[d].access.control = records[d].access.control
              /\ records'[d].access.terms = records[d].access.terms
              /\ records[d].access.ingest # "pending" => records'[d].access.ingest # "pending"
              /\ records[d].access.hash # NoHash => records'[d].access.hash # NoHash
            BY <2>4, <3>1, SameVersionKeepsAccess
        <3> QED BY <3>2 DEF Authorized, Accessible
    <2> QED BY <2>2, <2>3, <2>4
<1> QED BY <1>1, InvariantHolds, PTL DEF Spec, LostAccessChangesVersion

---------------------------------------------------------------------------
(* The registry's rows, seen through Phase, ConfirmedOf and VersionOf, take  *)
(* the steps of the abstract promise.                                        *)


LEMMA OthersArePromised ==
    ASSUME NEW d \in Disclosures, KeepsOthers(d)
    PROVE  Promise!OthersKeep(d)
BY DEF KeepsOthers, Promise!OthersKeep

LEMMA RegistersPromise ==
    ASSUME NEW d \in Disclosures, Registers(d)
    PROVE  Promise!Announce(d)
<1>1. PICK i \in Instances, s \in Streams, t \in Terms : records'[d] = FreshRecord(i, s, t)
    BY DEF Registers
<1> DEFINE row == FreshRecord(i, s, t)
<1>2. /\ row.kind = "disclosure" /\ row.access.control = "active" /\ row.access.ingest = "pending"
      /\ row.access.version = 0 /\ row.checkpoints = {}
    BY DEF FreshRecord
<1>3. records'[d] = row
    BY <1>1
<1> HIDE DEF row
<1>4. Phase(row) = "open" /\ ConfirmedOf(row) = <<>> /\ VersionOf(row) = 0
    BY <1>2 DEF Phase, Absent, ConfirmedOf, IsPublished, VersionOf
<1>5. Phase(records[d]) = "absent"
    BY DEF Registers, Phase
<1>6. Promise!OthersKeep(d)
    BY OthersArePromised DEF Registers
<1> QED BY <1>3, <1>4, <1>5, <1>6 DEF Promise!Announce

LEMMA RewritesPromise ==
    ASSUME DisclosureInv, NEW d \in Disclosures, Rewrites(d)
    PROVE  Promise!Confirm(d) \/ Promise!Conflict(d) \/ Promise!Administer(d)
<1> DEFINE r == records[d]
           s == records'[d]
<1>1. /\ r.kind = "disclosure" /\ s.kind = "disclosure" /\ Progress(r, s) /\ r \in LiveType
    BY LiveRow DEF Rewrites, Live
<1>2. Promise!OthersKeep(d)
    BY OthersArePromised DEF Rewrites
<1>3. VersionOf(r) = r.access.version /\ VersionOf(s) = s.access.version
    BY <1>1 DEF VersionOf
<1>4. Phase(r) \in {"open", "held", "sealed"} /\ Phase(s) \in {"open", "held", "sealed"}
    BY <1>1 DEF Phase, Absent
<1>5. r.access \in AccessType
    BY <1>1 DEF LiveType
<1>6. CASE Confirms(r, s)
    BY <1>2, <1>3, <1>6 DEF Confirms, Promise!Confirm
<1>7. CASE Seals(r, s)
    <2>1. s.access.version = r.access.version
        BY <1>5, <1>7 DEF Seals, AccessType
    <2> QED BY <1>2, <1>3, <1>7, <2>1 DEF Seals, Promise!Conflict
<1>8. CASE Administers(r, s)
    BY <1>2, <1>3, <1>4, <1>8 DEF Administers, Promise!Administer
<1> QED BY <1>1, <1>6, <1>7, <1>8 DEF Progress

LEMMA ErasesPromise ==
    ASSUME NEW d \in Disclosures, Erases(d)
    PROVE  Promise!Erase(d)
<1> DEFINE r == records[d]
           s == records'[d]
<1>1. r.kind = "disclosure" /\ s.kind = "tombstone" /\ s.version > r.access.version
    BY DEF Erases, Live
<1>2. Promise!OthersKeep(d)
    BY OthersArePromised DEF Erases
<1>3. Phase(r) \in {"open", "held", "sealed"} /\ Phase(s) = "erased"
    BY <1>1 DEF Phase, Absent
<1>4. ConfirmedOf(s) = <<>> /\ VersionOf(s) = s.version /\ VersionOf(r) = r.access.version
    BY <1>1 DEF ConfirmedOf, VersionOf
<1> QED BY <1>1, <1>2, <1>3, <1>4 DEF Promise!Erase

LEMMA RenewsPromise ==
    ASSUME DisclosureInv, RenewsLive
    PROVE  Promise!Renew
<1>1. ASSUME NEW d \in Disclosures
      PROVE  /\ Phase(records'[d]) = Phase(records[d])
             /\ ConfirmedOf(records'[d]) = ConfirmedOf(records[d])
             /\ VersionOf(records'[d]) = IF Phase(records[d]) \in {"open", "held", "sealed"}
                                         THEN VersionOf(records[d]) + 1
                                         ELSE VersionOf(records[d])
    <2>1. CASE Live(d)
        <3>1. Phase(records[d]) \in {"open", "held", "sealed"}
            BY <2>1 DEF Live, Phase, Absent
        <3> QED BY <2>1, <3>1 DEF RenewsLive, VersionOf, Live
    <2>2. CASE ~Live(d)
        <3>1. records[d] \in {Absent} \cup LiveType \cup TombstoneType
            BY DEF DisclosureInv, TypeOK
        <3>2. records[d] = Absent \/ records[d].kind = "tombstone"
            BY <2>2, <3>1 DEF Live, LiveType, TombstoneType
        <3>3. Phase(records[d]) \notin {"open", "held", "sealed"}
            BY <3>2 DEF Phase
        <3> QED BY <2>2, <3>3 DEF RenewsLive
    <2> QED BY <2>1, <2>2
<1> QED BY <1>1 DEF Promise!Renew

LEMMA StepPromise == DisclosureInv /\ [Next]_vars => [Promise!Next]_(Promise!historyVars)
<1> SUFFICES ASSUME DisclosureInv, [Next]_vars
             PROVE  [Promise!Next]_(Promise!historyVars)
    OBVIOUS
<1>1. Moves
    BY StepMoves
<1>2. CASE \E d \in Disclosures : Registers(d) \/ Rewrites(d) \/ Erases(d)
    <2>1. PICK d \in Disclosures : Registers(d) \/ Rewrites(d) \/ Erases(d)
        BY <1>2
    <2>2. \/ Promise!Announce(d) \/ Promise!Confirm(d) \/ Promise!Conflict(d)
          \/ Promise!Administer(d) \/ Promise!Erase(d)
        BY <2>1, RegistersPromise, RewritesPromise, ErasesPromise
    <2> QED BY <2>2 DEF Promise!Next
<1>3. CASE RenewsLive
    BY <1>3, RenewsPromise DEF Promise!Next
<1>4. CASE UNCHANGED records
    BY <1>4 DEF Promise!historyVars
<1> QED BY <1>1, <1>2, <1>3, <1>4 DEF Moves

(* The registry implements ConfirmedHistory: events, checkpoints, conflicts, *)
(* access and control changes, directory renewals and deletions of any       *)
(* organization only ever extend, seal, renew or erase a confirmed history.  *)
THEOREM RegistryKeepsPromise == Spec => ImplementsPromise
<1>1. Init => Promise!Init
    <2> SUFFICES ASSUME Init PROVE Promise!Init
        OBVIOUS
    <2>1. \A d \in Disclosures : records[d] = Absent
        BY DEF Init
    <2>2. Phase(Absent) = "absent" /\ ConfirmedOf(Absent) = <<>> /\ VersionOf(Absent) = -1
        BY DEF Phase, ConfirmedOf, VersionOf, Absent
    <2> QED BY <2>1, <2>2 DEF Promise!Init
<1>2. DisclosureInv /\ [Next]_vars => [Promise!Next]_(Promise!historyVars)
    BY StepPromise
<1> QED BY <1>1, <1>2, InvariantHolds, PTL DEF Spec, ImplementsPromise, Promise!Spec

===========================================================================
