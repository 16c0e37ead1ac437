------------------------- MODULE DisclosureRegistry -------------------------
(***************************************************************************)
(* The disclosure operations of the RegistryIngest owner                   *)
(* (packages/a2a/registry-ingest/src/index.ts) over a store that never     *)
(* fails: register, event and checkpoint ingestion, access and control     *)
(* changes, deletion by the source and by maintenance, and the renewal of  *)
(* every version by a directory change.  The owner runs one operation at a *)
(* time, so each is one step.  A request that is rejected, or is an exact  *)
(* retry, changes nothing and is not a step.                               *)
(*                                                                         *)
(* Every call carries the clock its adapter observed; nothing makes these  *)
(* clocks monotone, so each step takes any time.                           *)
(***************************************************************************)
EXTENDS DisclosureAggregate

CONSTANTS
    Disclosures,        \* disclosure identifiers of the organization
    Times,              \* clock readings, epoch milliseconds in the code
    MaxDisclosures      \* retained rows, tombstones included

VARIABLES
    records,    \* the disclosures table
    isolated,   \* the owner's `unavailable` flag
    refused     \* history: the owner built a row its own parser refused

vars == <<records, isolated, refused>>

Absent == [kind |-> "absent"]
Live(d) == records[d].kind = "disclosure"
LiveDisclosures == {d \in Disclosures : Live(d)}

Init ==
    /\ records = [d \in Disclosures |-> Absent]
    /\ isolated = FALSE
    /\ refused = FALSE

---------------------------------------------------------------------------
(* updateRecord(): a mutation that is no stop must leave room for a later   *)
(* stop; a stop sheds audit entries instead, and isolates the owner when    *)
(* even that fails.  Either is decoded once more before it is written.      *)

LeavesRoom(next) == Fits(next) /\ StopReserveBytes(next) <= MaxAggregateBytes

(* Mutant: a change is written without its size check and decoding. *)
CommitChangeUnchecked(d, next) ==
    /\ records' = [records EXCEPT ![d] = next]
    /\ UNCHANGED <<isolated, refused>>

CommitChange(d, next) ==
    /\ LeavesRoom(next)
    /\ records' = IF ParseRecord(next) THEN [records EXCEPT ![d] = next] ELSE records
    /\ refused' = (refused \/ ~ParseRecord(next))
    /\ UNCHANGED isolated

CommitStop(d, next) ==
    LET fitted == FitStopRecord(next)
    IN  /\ records' = IF ParseRecord(fitted) THEN [records EXCEPT ![d] = fitted] ELSE records
        /\ isolated' = ~ParseRecord(fitted)
        /\ UNCHANGED refused

---------------------------------------------------------------------------
FreshRecord(instance, stream, terms) ==
    [kind |-> "disclosure",
     access |-> [instance |-> instance, control |-> "active", ingest |-> "pending",
                 terms |-> terms, version |-> 0, hash |-> NoHash],
     stream |-> stream, events |-> <<>>, checkpoints |-> {},
     audit |-> <<[action |-> "registered", version |-> 0]>>]

Register(d, instance, stream, terms, now) ==
    LET fresh == FreshRecord(instance, stream, terms) IN
    /\ ~isolated
    /\ records[d] = Absent
    /\ CanUpload(fresh.access, instance, now)
    /\ Cardinality({o \in Disclosures : records[o] # Absent}) < MaxDisclosures
    /\ ParseRecord(fresh)
    /\ StopReserveBytes(fresh) <= MaxAggregateBytes
    /\ records' = [records EXCEPT ![d] = fresh]
    /\ UNCHANGED <<isolated, refused>>

IngestEvent(d, instance, e, now) ==
    /\ ~isolated /\ Live(d)
    /\ CanUpload(records[d].access, instance, now)
    /\ \/ EventVerdict(records[d], e) = "append" /\ CommitChange(d, AppendEvent(records[d], e))
       \/ EventVerdict(records[d], e) = "frozen" /\ CommitStop(d, Frozen(records[d]))

IngestCheckpoint(d, instance, m, now) ==
    /\ ~isolated /\ Live(d)
    /\ CanUpload(records[d].access, instance, now)
    /\ \/ CheckpointVerdict(records[d], m) = "append"
          /\ CommitChange(d, AppendCheckpoint(records[d], m))
       \/ CheckpointVerdict(records[d], m) = "frozen" /\ CommitStop(d, Frozen(records[d]))

UpdateTerms(d, instance, terms, now) ==
    LET r == records[d] IN
    /\ ~isolated /\ Live(d) /\ r.access.instance = instance
    /\ UpdateAllowed(r.access, terms, now)
    /\ terms # r.access.terms
    /\ CommitChange(d, Audit([r EXCEPT !.access = UpdateAccess(@, terms)], "access"))

TransitionControl(d, instance, target, now) ==
    LET r == records[d]
        next == Audit([r EXCEPT !.access = MoveControl(@, target)], "control")
    IN
    /\ ~isolated /\ Live(d) /\ r.access.instance = instance
    /\ target # "deleted" /\ target # r.access.control
    /\ ControlAllowed(r.access, target, now)
    /\ IF target = "active" THEN CommitChange(d, next) ELSE CommitStop(d, next)

(* deletion(): two or three control steps and the tombstone, in one write. *)
EraseRecord(d) ==
    /\ records[d].access.version + DeletionSteps(records[d]) <= MaxVersion
    /\ CommitStop(d, Tombstone(records[d], records[d].access.version + DeletionSteps(records[d])))

Delete(d, instance) ==
    /\ ~isolated /\ Live(d)
    /\ records[d].access.instance = instance
    /\ EraseRecord(d)

(* processDeletionBatch(): each eligible row of the batch is its own write. *)
PendingDeletion(r, now) ==
    \/ r.access.control \in {"revoked", "expired", "deleting"}
    \/ r.access.control \in {"active", "paused"} /\ now >= r.access.terms.expiresAt

ProcessDeletion(d, now) ==
    /\ ~isolated /\ Live(d)
    /\ PendingDeletion(records[d], now)
    /\ EraseRecord(d)

(* Mutant: the audit entry is taken before the version moves. *)
RenewedAuditFirst(r) ==
    [Audit(r, "access") EXCEPT !.access = InvalidateAuthorization(@)]

(* changeDirectory(): every live row takes a new version in one write, or none does. *)
Renewed(r) == Audit([r EXCEPT !.access = InvalidateAuthorization(@)], "access")

RenewAll ==
    /\ ~isolated
    /\ LiveDisclosures # {}
    /\ \A d \in LiveDisclosures : CanIncrement(records[d].access) /\ LeavesRoom(Renewed(records[d]))
    /\ LET parses == \A d \in LiveDisclosures : ParseRecord(Renewed(records[d]))
       IN  /\ records' = [d \in Disclosures |->
                              IF Live(d) /\ parses THEN Renewed(records[d]) ELSE records[d]]
           /\ refused' = (refused \/ ~parses)
    /\ UNCHANGED isolated

Next ==
    \/ \E d \in Disclosures, i \in Instances, now \in Times :
           \/ \E s \in Streams, t \in Terms : Register(d, i, s, t, now)
           \/ \E e \in Envelopes : IngestEvent(d, i, e, now)
           \/ \E m \in Markers : IngestCheckpoint(d, i, m, now)
           \/ \E t \in Terms : UpdateTerms(d, i, t, now)
           \/ \E target \in ControlStates : TransitionControl(d, i, target, now)
           \/ Delete(d, i)
           \/ ProcessDeletion(d, now)
    \/ RenewAll

Spec == Init /\ [][Next]_vars
=============================================================================
