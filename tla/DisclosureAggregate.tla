------------------------ MODULE DisclosureAggregate ------------------------
(***************************************************************************)
(* One disclosure row of packages/a2a/registry-ingest and the pure         *)
(* mutations of aggregate.ts and record.ts: signed envelopes are appended  *)
(* to a hash chain, signed checkpoints publish a prefix of it, and an      *)
(* authenticated contradiction freezes the row.                            *)
(*                                                                         *)
(* A live row is [kind, access, stream, events, checkpoints, audit], a     *)
(* deleted one a tombstone [kind, instance, version, audit].  Checkpoints  *)
(* are a set: only the hash finds one.  An envelope stands for its         *)
(* authenticated content; `stream` is its conversation and policy, `sig`   *)
(* the signature, which is not covered by `hash`.                          *)
(*                                                                         *)
(* A serialized row is measured in units: one per event, checkpoint and    *)
(* audit entry, the weight of its terms, and the extra width of the longer *)
(* control and ingest names (a stop may lengthen both).                    *)
(***************************************************************************)
EXTENDS DisclosureDomain, Sequences

CONSTANTS
    Envelopes,      \* [id, seq, prev, cursor, stream, hash, sig]: signed event envelopes
    Markers,        \* [hash, eventCount, lastHash, cursor, stream, sig]: signed checkpoints
    Streams,        \* conversation and policy version of a disclosure
    Instances,      \* source instances of the organization
    Terms,          \* [expiresAt, capabilities, grants, bytes]
    MaxEvents, MaxCheckpoints, MaxAuditEntries, MaxAggregateBytes

ASSUME EnvelopeAssumption ==
    \A e \in Envelopes : e.seq \in Nat /\ e.cursor \in Nat /\ e.hash # NoHash
ASSUME MarkerAssumption ==
    \A m \in Markers : m.eventCount \in Nat /\ m.cursor \in Nat /\ m.hash # NoHash
ASSUME TermsAssumption ==
    \A t \in Terms : t.expiresAt \in Nat /\ t.bytes \in Nat
ASSUME LimitAssumption ==
    /\ MaxEvents \in Nat \ {0} /\ MaxCheckpoints \in Nat \ {0}
    /\ MaxAuditEntries \in Nat \ {0} /\ MaxAggregateBytes \in Nat \ {0}

AuditActions == {"registered", "event", "checkpoint", "frozen", "access", "control", "deleted"}

(* The last n entries of a sequence: JavaScript's slice(-n). *)
Recent(s, n) == IF Len(s) <= n THEN s ELSE SubSeq(s, Len(s) - n + 1, Len(s))

(* audit(): remember the operation and the version it left, in a bounded window. *)
Audit(r, action) ==
    [r EXCEPT !.audit =
        Recent(Append(@, [action |-> action, version |-> r.access.version]), MaxAuditEntries)]

LastHash(r) == IF r.events = <<>> THEN NoHash ELSE r.events[Len(r.events)].hash

(* publishedCheckpoint(): the checkpoint the access points at, if it points at one. *)
IsPublished(r) == \E c \in r.checkpoints : c.hash = r.access.hash
Published(r) == CHOOSE c \in r.checkpoints : c.hash = r.access.hash

(* checkpointMatches(): the prefix a marker claims is the one retained, and  *)
(* its cursor falls between the last event it covers and the one after it.   *)
CheckpointMatches(r, m) ==
    /\ m.stream = r.stream
    /\ m.eventCount <= Len(r.events)
    /\ m.lastHash = IF m.eventCount = 0 THEN NoHash ELSE r.events[m.eventCount].hash
    /\ m.eventCount > 0 => m.cursor >= r.events[m.eventCount].cursor
    /\ m.eventCount < Len(r.events) => m.cursor < r.events[m.eventCount + 1].cursor

Frozen(r) == Audit([r EXCEPT !.access.ingest = MoveIngest(@, "frozen")], "frozen")

(* appendEvent(), cut into its verdict and the record that results. *)
SameEventId(r, e) == {i \in 1..Len(r.events) : r.events[i].id = e.id}

EventVerdict(r, e) ==
    IF e.stream # r.stream THEN "frozen"
    ELSE IF SameEventId(r, e) # {} \/ e.seq < Len(r.events)
         THEN IF \E i \in SameEventId(r, e) : r.events[i] = e THEN "unchanged" ELSE "frozen"
    ELSE IF e.seq > Len(r.events) THEN "gap"
    ELSE IF \/ e.prev # LastHash(r)
            \/ r.events # <<>> /\ e.cursor <= r.events[Len(r.events)].cursor
            \/ IsPublished(r) /\ e.cursor <= Published(r).cursor
         THEN "frozen"
    ELSE IF Len(r.events) < MaxEvents THEN "append" ELSE "limit"

AppendEvent(r, e) == Audit([r EXCEPT !.events = Append(@, e)], "event")

(* appendCheckpoint(): a late marker is retained and never becomes the published one. *)
Retained(r, m) == {c \in r.checkpoints : c.hash = m.hash \/ c.cursor = m.cursor}

CheckpointVerdict(r, m) ==
    IF m.eventCount > Len(r.events) THEN "gap"
    ELSE IF ~CheckpointMatches(r, m) THEN "frozen"
    ELSE IF Retained(r, m) # {}
         THEN IF Retained(r, m) = {m} THEN "unchanged" ELSE "frozen"
    ELSE IF Cardinality(r.checkpoints) < MaxCheckpoints THEN "append" ELSE "limit"

AppendCheckpoint(r, m) ==
    LET late == IsPublished(r) /\ m.cursor <= Published(r).cursor
    IN  Audit([r EXCEPT !.checkpoints = @ \cup {m},
                        !.access.ingest = MoveIngest(@, "ready"),
                        !.access.hash = IF late THEN @ ELSE m.hash], "checkpoint")

Tombstone(r, version) ==
    [kind |-> "tombstone", instance |-> r.access.instance, version |-> version,
     audit |-> <<[action |-> "deleted", version |-> version]>>]

(* The versions deletion() consumes: to revoked or expired, to deleting, to deleted. *)
DeletionSteps(r) ==
    IF r.access.control \in {"active", "paused"} THEN 3
    ELSE IF r.access.control \in {"revoked", "expired"} THEN 2 ELSE 1

(* Widths of a serialized row. *)
ControlWidth(control) == IF control \in {"active", "paused"} THEN 0
                         ELSE IF control = "deleting" THEN 2 ELSE 1
IngestWidth(ingest) == IF ingest = "ready" THEN 0 ELSE IF ingest = "frozen" THEN 1 ELSE 2

BodyBytes(r) == Len(r.events) + Cardinality(r.checkpoints) + r.access.terms.bytes

ByteLength(r) ==
    IF r.kind = "tombstone" THEN 1
    ELSE BodyBytes(r) + Len(r.audit)
         + ControlWidth(r.access.control) + IngestWidth(r.access.ingest)

(* Mutant: no room is reserved for the longer names of a stop. *)
StopReserveBytesNarrow(r) ==
    IF r.kind = "tombstone" THEN 1 ELSE BodyBytes(r) + 1

(* stopReserveBytes(): one audit entry and the widest names a stop can write. *)
StopReserveBytes(r) ==
    IF r.kind = "tombstone" THEN 1
    ELSE BodyBytes(r) + 1 + ControlWidth("deleting") + IngestWidth("pending")

(* fitStopRecord(): drop the oldest audit entries until the row fits; the newest stays. *)
FitStopRecord(r) ==
    LET room == MaxAggregateBytes - (ByteLength(r) - Len(r.audit))
    IN  [r EXCEPT !.audit = Recent(@, IF room < 1 THEN 1 ELSE room)]

Fits(r) == ByteLength(r) <= MaxAggregateBytes

(* parseRecord(): what opening the store demands of a row, chain first. *)
ChainParses(r) ==
    /\ Len(r.events) <= MaxEvents
    /\ \A i \in 1..Len(r.events) :
           LET e == r.events[i] IN
           /\ e.stream = r.stream
           /\ e.seq = i - 1
           /\ e.prev = IF i = 1 THEN NoHash ELSE r.events[i - 1].hash
           /\ i > 1 => e.cursor > r.events[i - 1].cursor
    /\ \A i, j \in 1..Len(r.events) : r.events[i].id = r.events[j].id => i = j

CheckpointsParse(r) ==
    /\ Cardinality(r.checkpoints) <= MaxCheckpoints
    /\ \A c \in r.checkpoints : CheckpointMatches(r, c)
    /\ \A c, d \in r.checkpoints : c.hash = d.hash \/ c.cursor = d.cursor => c = d

PublicationParses(r) ==
    IF IsPublished(r)
    THEN /\ r.access.ingest # "pending"
         /\ \A c \in r.checkpoints : /\ c.cursor <= Published(r).cursor
                                     /\ c.eventCount <= Published(r).eventCount
    ELSE r.access.hash = NoHash /\ r.access.ingest # "ready" /\ r.checkpoints = {}

ParseRecord(r) ==
    /\ Fits(r)
    /\ Len(r.audit) \in 1..MaxAuditEntries
    /\ IF r.kind = "tombstone"
       THEN r.audit = <<[action |-> "deleted", version |-> r.version]>>
       ELSE /\ r.access.control # "deleted"
            /\ ChainParses(r)
            /\ CheckpointsParse(r)
            /\ PublicationParses(r)
            /\ \A i \in 1..Len(r.audit) : r.audit[i].version <= r.access.version

(* Mutant: the slice stops one event short. *)
PrefixOfShort(r, c) == SubSeq(r.events, 1, c.eventCount - 1)

(* confirmedPrefix(): the events a reader is given for one retained checkpoint. *)
PrefixOf(r, c) == SubSeq(r.events, 1, c.eventCount)

============================================================================
