------------------------ MODULE DisclosureProperties ------------------------
(***************************************************************************)
(* What makes the disclosure registry correct, over DisclosureRegistry.    *)
(***************************************************************************)
EXTENDS DisclosureRegistry

CONSTANT Readers    \* [member, teams, active]: authenticated subjects

Actions == {"read", "ask"}      \* one action of each capability demand

AccessType ==
    [instance : Instances, control : ControlStates, ingest : IngestStates,
     terms : Terms, version : 0..MaxVersion, hash : {NoHash} \cup {m.hash : m \in Markers}]

AuditType == [action : AuditActions, version : 0..MaxVersion]

LiveType ==
    [kind : {"disclosure"}, access : AccessType, stream : Streams,
     events : Seq(Envelopes), checkpoints : SUBSET Markers, audit : Seq(AuditType)]

TombstoneType ==
    [kind : {"tombstone"}, instance : Instances, version : 0..MaxVersion,
     audit : Seq(AuditType)]

(* Every row is absent, a live disclosure or a tombstone of the shape the   *)
(* store's schema declares, and the owner's flags are flags.                *)
TypeOK ==
    /\ records \in [Disclosures -> {Absent} \cup LiveType \cup TombstoneType]
    /\ isolated \in BOOLEAN
    /\ refused \in BOOLEAN

(* Reopening the store never fails: each row the owner has written satisfies *)
(* every check parseRecord makes when the owner opens, however events, late  *)
(* checkpoints, conflicts, stops and directory changes were ordered.         *)
Reopenable == \A d \in Disclosures : records[d] # Absent => ParseRecord(records[d])

(* A stop can always be written: no pause, revocation, freeze or deletion    *)
(* ever isolates the owner because the row has grown to its byte limit.      *)
StopsAlwaysFit == ~isolated

(* The owner's decoder never refuses a change the transition rules accepted, *)
(* so no legal request is answered with an invalid-storage error.            *)
DecoderAcceptsOwnWrites == ~refused

(* The retained audit window accounts for the row's version: its newest      *)
(* entry carries the current version and no step inside the window skips one.*)
AuditExplainsVersion ==
    \A d \in LiveDisclosures :
        LET log == records[d].audit IN
        /\ log[Len(log)].version = records[d].access.version
        /\ \A i \in 1..Len(log) - 1 : log[i + 1].version - log[i].version \in {0, 1}

(* Whatever checkpoint a reader selects, an admitted reader is given exactly *)
(* the events it counts, ending in the event whose hash it signed: later     *)
(* appends and late checkpoints never tear a confirmed prefix.               *)
ReadersGetWholePrefixes ==
    \A d \in LiveDisclosures, s \in Readers, a \in Actions, now \in Times :
        Authorized(s, a, records[d].access, now) =>
            /\ IsPublished(records[d])
            /\ \A c \in records[d].checkpoints :
                   LET prefix == PrefixOf(records[d], c) IN
                   /\ Len(prefix) = c.eventCount
                   /\ c.lastHash = IF prefix = <<>> THEN NoHash ELSE prefix[Len(prefix)].hash
                   /\ c.eventCount <= Published(records[d]).eventCount

---------------------------------------------------------------------------
(* The inductive invariant: more than the parser asks.  Every stored row     *)
(* keeps room for a stop, and cursors ascend along the whole chain, not only *)
(* between neighbours, which is what orders two checkpoints by their counts. *)

LogUpTo(v) == [action : AuditActions, version : 0..v]

CursorsAscend(r) ==
    \A i, j \in 1..Len(r.events) : i < j => r.events[i].cursor < r.events[j].cursor

RowShape(r) ==
    /\ r \in LiveType
    /\ IsFiniteSet(r.checkpoints)
    /\ r.access.control # "deleted"
    /\ Len(r.audit) \in 1..MaxAuditEntries
    /\ r.audit \in Seq(LogUpTo(r.access.version))

RowChain(r) ==
    /\ ChainParses(r)
    /\ CursorsAscend(r)
    /\ CheckpointsParse(r)
    /\ PublicationParses(r)

RowInv(r) ==
    /\ RowShape(r)
    /\ RowChain(r)
    /\ Fits(r)
    /\ StopReserveBytes(r) <= MaxAggregateBytes

(* Whatever the producer sends, each live row is a well formed chain with    *)
(* whole, ordered checkpoints and room for one more stop, and each tombstone *)
(* is one the store reopens with.                                            *)
DisclosureInv ==
    /\ TypeOK
    /\ StopsAlwaysFit
    /\ DecoderAcceptsOwnWrites
    /\ \A d \in Disclosures :
           /\ Live(d) => RowInv(records[d])
           /\ records[d].kind = "tombstone" => ParseRecord(records[d])

---------------------------------------------------------------------------

(* A cached read decision stays right while its version does: whoever loses  *)
(* access, by a control change, new terms or a directory change, loses it    *)
(* under a version nobody has cached.                                        *)
LostAccessChangesVersion ==
    [][\A d \in Disclosures, s \in Readers, a \in Actions, now \in Times :
          /\ Live(d) /\ Authorized(s, a, records[d].access, now)
          /\ records'[d].kind = "disclosure"
          /\ records'[d].access.version = records[d].access.version
          => Authorized(s, a, records'[d].access, now)]_vars

VersionOf(r) == IF r.kind = "disclosure" THEN r.access.version
                ELSE IF r.kind = "tombstone" THEN r.version ELSE -1

---------------------------------------------------------------------------
(* The registry implements ConfirmedHistory: readers' history is the prefix  *)
(* of the published checkpoint.                                              *)
Phase(r) ==
    IF r = Absent THEN "absent"
    ELSE IF r.kind = "tombstone" THEN "erased"
    ELSE IF r.access.ingest = "frozen" \/ r.access.control \notin {"active", "paused"} THEN "sealed"
    ELSE IF r.access.control = "paused" THEN "held" ELSE "open"

ConfirmedOf(r) ==
    IF r.kind = "disclosure" /\ IsPublished(r) THEN PrefixOf(r, Published(r)) ELSE <<>>

Promise == INSTANCE ConfirmedHistory WITH
    phase <- [d \in Disclosures |-> Phase(records[d])],
    confirmed <- [d \in Disclosures |-> ConfirmedOf(records[d])],
    version <- [d \in Disclosures |-> VersionOf(records[d])]

(* Every run of the registry is a run of the abstract promise. *)
ImplementsPromise == Promise!Spec

=============================================================================
