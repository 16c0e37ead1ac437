----------------------------- MODULE IngestOwner -----------------------------
(***************************************************************************)
(* The serialized owner of packages/a2a/registry-ingest/src/index.ts: one  *)
(* promise chain runs the admitted operations in order, each journals an   *)
(* attempt, awaits its caller's authority, and commits its effect together *)
(* with the journal's completion in one batch of the storage domain        *)
(* (storage/storage-domain/src/domain.ts).  Other callers enqueue, storage *)
(* rejects (having committed or not), the owner closes and the process     *)
(* crashes between any two of these steps.                                 *)
(*                                                                         *)
(* What an operation does to a row is DisclosureRegistry's subject; here a *)
(* row is its authorization version and whether it is live, retired (to be *)
(* deleted by maintenance) or erased, the directory its active members.    *)
(***************************************************************************)
EXTENDS Integers, Sequences, FiniteSets

CONSTANTS
    Callers,        \* concurrent callers, one call of each outstanding
    Disclosures, Members,
    Admin,          \* the bootstrap owner, never suspended
    Operations,     \* the calls made: see OperationType
    Journaled,      \* an operation journal is configured
    MaxOperations,  \* journal capacity
    MaxVersion

ASSUME OwnerAssumption ==
    /\ Admin \in Members /\ Journaled \in BOOLEAN
    /\ IsFiniteSet(Disclosures)
    /\ MaxOperations \in Nat \ {0} /\ MaxVersion \in Nat \ {0}

VARIABLES
    disk,           \* what the backend holds: [rows, directory, journal]
    memory,         \* what the opened domain's tables answer
    cache,          \* directoryMembers: the members credentials are checked against
    queue,          \* callers whose operation waits in the promise chain
    current,        \* the running operation
    calls,          \* [Callers -> [status, op]]
    phase,          \* "open", "closing", "closed" or "down"
    unavailable,    \* isolated until reopened
    heard           \* the version of each row an invalidation subscriber last knew

vars == <<disk, memory, cache, queue, current, calls, phase, unavailable, heard>>

OperationType ==
    [kind : {"read"}, member : Members, row : Disclosures]
    \cup [kind : {"credential"}, member : Members]      \* authenticateBindingCredential
    \cup [kind : {"change"}, member : Members, row : Disclosures,
          target : {"live", "retired"}, expected : 0..MaxVersion]
    \cup [kind : {"directory"}, expected : 0..MaxVersion, active : SUBSET Members]
    \cup [kind : {"sweep", "malformed"}]    \* processDeletionBatch, rejectInput

ASSUME OperationsAssumption ==
    Operations \subseteq {op \in OperationType : op.kind = "directory" => Admin \in op.active}

Idle == [pc |-> "idle"]
Versions(store) == [d \in Disclosures |-> store.rows[d].version]
Nothing == [kind |-> "none"]
Answer(c, status) == calls' = [calls EXCEPT ![c] = [status |-> status, op |-> Nothing]]

Init ==
    /\ disk = [rows |-> [d \in Disclosures |-> [version |-> 0, state |-> "live"]],
               directory |-> [revision |-> 0, active |-> Members],
               journal |-> <<>>]
    /\ memory = disk
    /\ cache = disk.directory.active
    /\ queue = <<>>
    /\ current = Idle
    /\ calls = [c \in Callers |-> [status |-> "idle", op |-> Nothing]]
    /\ phase = "open"
    /\ unavailable = FALSE
    /\ heard = Versions(disk)

---------------------------------------------------------------------------
(* enqueue(): the input is captured and the operation takes its place in the *)
(* chain.  A call after close() is rejected at once and is not a step.       *)
Submit(c, op) ==
    /\ phase = "open" /\ calls[c].status # "waiting"
    /\ calls' = [calls EXCEPT ![c] = [status |-> "waiting", op |-> op]]
    /\ queue' = Append(queue, c)
    /\ UNCHANGED <<disk, memory, cache, current, phase, unavailable, heard>>

JournalHasRoom == Len(memory.journal) < MaxOperations

Audited(op) == Journaled /\ op.kind # "credential"

Retired(store) == {d \in Disclosures : store.rows[d].state = "retired"}

At(pc, c, d) == [pc |-> pc, caller |-> c, row |-> d]

(* audited() up to its first await, for one operation or one row of a sweep. *)
(* A sweep ends when nothing is eligible, at its bound, or when cancelled.   *)
Admit(c) ==
    LET op == calls[c].op
        targets == IF op.kind = "sweep" THEN Retired(memory)
                   ELSE IF op.kind \in {"read", "change"} THEN {op.row} ELSE Disclosures
    IN
    \/ op.kind = "sweep" /\ Answer(c, "ok") /\ current' = Idle
    \/ /\ Audited(op) /\ ~JournalHasRoom
       /\ targets # {}
       /\ Answer(c, "rejected") /\ current' = Idle
    \/ \E d \in targets :
           /\ Audited(op) => JournalHasRoom
           /\ current' = At(IF Audited(op) THEN "attempt" ELSE "decide", c, d)
           /\ UNCHANGED calls

(* Mutant: what waits behind a failed operation is never run, nor answered. *)
BeginAvailable ==
    /\ current = Idle /\ queue # <<>> /\ ~unavailable
    /\ queue' = Tail(queue)
    /\ Admit(Head(queue))
    /\ UNCHANGED <<disk, memory, cache, phase, unavailable, heard>>

(* The head of the chain runs; behind a failed write it is refused instead. *)
Begin ==
    /\ current = Idle /\ queue # <<>>
    /\ queue' = Tail(queue)
    /\ IF unavailable THEN Answer(Head(queue), "unknown") /\ UNCHANGED current
       ELSE Admit(Head(queue))
    /\ UNCHANGED <<disk, memory, cache, phase, unavailable, heard>>

---------------------------------------------------------------------------
(* durable(): a batch lands in the backend and then in memory.  A rejected   *)
(* write leaves memory alone, may have landed all the same, and isolates.    *)

Landed(next) == disk' = next /\ memory' = next /\ UNCHANGED unavailable

(* Mutant: the owner keeps serving after a rejected write. *)
FailedUnisolated(next) ==
    /\ disk' \in {disk, next} /\ UNCHANGED memory
    /\ UNCHANGED unavailable

Failed(next) ==
    /\ disk' \in {disk, next} /\ UNCHANGED memory
    /\ unavailable' = TRUE

Attempted(store, op) ==
    [store EXCEPT !.journal = Append(@, [kind |-> op.kind, outcome |-> "unfinished", versions |-> 0])]

WriteAttempt ==
    /\ current.pc = "attempt"
    /\ LET next == Attempted(memory, calls[current.caller].op) IN
       \/ /\ Landed(next)
          /\ current' = [current EXCEPT !.pc = "decide"] /\ UNCHANGED calls
       \/ /\ Failed(next)
          /\ current' = Idle /\ Answer(current.caller, "unknown")
    /\ UNCHANGED <<cache, queue, phase, heard>>

---------------------------------------------------------------------------
(* The authority callback has answered and the transform runs on the tables  *)
(* of this instant, without another await before the write is issued.        *)

(* Mutant: the transform trusts the caller's version. *)
ChangeAllowedAtAnyVersion(op) ==
    /\ op.member \in memory.directory.active
    /\ memory.rows[op.row].version <= op.expected
    /\ \/ memory.rows[op.row].state = op.target
       \/ memory.rows[op.row].state = "live" /\ op.expected < MaxVersion

ChangeAllowed(op) ==
    /\ op.member \in memory.directory.active
    /\ memory.rows[op.row].version = op.expected
    /\ \/ memory.rows[op.row].state = op.target
       \/ memory.rows[op.row].state = "live" /\ op.expected < MaxVersion

Unerased == {d \in Disclosures : memory.rows[d].state # "erased"}

DirectoryAllowed(op) ==
    /\ Admin \in memory.directory.active
    /\ memory.directory.revision = op.expected
    /\ op.active # memory.directory.active =>
           /\ op.expected < MaxVersion
           /\ \A d \in Unerased : memory.rows[d].version < MaxVersion

DeletionAllowed(d) == memory.rows[d].version + 2 <= MaxVersion

Allowed(op, d) ==
    CASE op.kind = "read"      -> op.member \in memory.directory.active
                                  /\ memory.rows[op.row].state # "erased"
      [] op.kind = "change"    -> ChangeAllowed(op)
      [] op.kind = "directory" -> DirectoryAllowed(op)
      [] op.kind = "sweep"     -> DeletionAllowed(d)
      [] OTHER                 -> FALSE

(* The rows whose authorization version the operation moves. *)
Touched(op, d) ==
    IF op.kind = "sweep" \/ (op.kind = "change" /\ memory.rows[d].state # op.target) THEN {d}
    ELSE IF op.kind = "directory" /\ op.active # memory.directory.active THEN Unerased
    ELSE {}

Changed(op, d) ==
    [memory EXCEPT
        !.rows = [r \in Disclosures |->
            IF r \notin Touched(op, d) THEN @[r]
            ELSE IF op.kind = "sweep" THEN [version |-> @[r].version + 2, state |-> "erased"]
            ELSE [version |-> @[r].version + 1,
                  state |-> IF op.kind = "change" THEN op.target ELSE @[r].state]],
        !.directory = IF op.kind = "directory" /\ op.active # @.active
                      THEN [revision |-> op.expected + 1, active |-> op.active] ELSE @]

OutcomeOf(op, d) ==
    IF op.kind = "read" THEN "observed"
    ELSE IF Changed(op, d) = memory THEN "unchanged" ELSE "committed"

(* completeAuditAttempt(): the last journal entry is the running operation's. *)
Completed(store, outcome, versions) ==
    IF ~Journaled THEN store
    ELSE LET n == Len(store.journal) IN
         [store EXCEPT !.journal[n].outcome = outcome, !.journal[n].versions = versions]

(* Mutant: a directory change also counts the tombstones it leaves alone. *)
VersionsTakenByAll(op, d) ==
    IF op.kind = "sweep" THEN 2
    ELSE IF Touched(op, d) = {} THEN 0
    ELSE IF op.kind = "directory" THEN Cardinality(Disclosures) ELSE 1

VersionsTaken(op, d) ==
    IF op.kind = "sweep" THEN 2 ELSE Cardinality(Touched(op, d))

(* A refusal, a read or a directory retry writes its journal entry only. *)
OnlyJournaled(op, outcome) ==
    \/ outcome \in {"rejected", "observed"}
    \/ op.kind = "directory" /\ outcome = "unchanged"

(* Issue the batch, or answer at once when there is nothing to write. *)
Prepare(next, outcome, touched) ==
    IF ~Journaled /\ OnlyJournaled(calls[current.caller].op, outcome)
    THEN /\ current' = Idle
         /\ Answer(current.caller, IF outcome = "rejected" THEN "rejected" ELSE "ok")
    ELSE /\ current' = [pc |-> "write", caller |-> current.caller, next |-> next,
                        outcome |-> outcome, touched |-> touched]
         /\ UNCHANGED calls

Refuse == Prepare(Completed(memory, "rejected", 0), "rejected", {})

CheckCredential(op) ==
    /\ current' = Idle
    /\ Answer(current.caller, IF op.member \in cache THEN "ok" ELSE "rejected")

Decide ==
    /\ current.pc = "decide"
    /\ LET op == calls[current.caller].op
           d == current.row
       IN  \/ op.kind = "credential" /\ CheckCredential(op)
           \/ op.kind # "credential" /\ ~Allowed(op, d) /\ Refuse
           \/ op.kind \notin {"sweep", "credential"} /\ Refuse  \* the authority callback threw
           \/ /\ op.kind # "credential" /\ Allowed(op, d)
              /\ Prepare(Completed(Changed(op, d), OutcomeOf(op, d), VersionsTaken(op, d)),
                         OutcomeOf(op, d), Touched(op, d))
    /\ UNCHANGED <<disk, memory, cache, queue, phase, unavailable, heard>>

(* complete(): the effect and the journal's completion are one atomic batch. *)
WriteOutcome ==
    /\ current.pc = "write"
    /\ \/ /\ Landed(current.next)
          /\ current' = [current EXCEPT !.pc = "publish"] /\ UNCHANGED calls
       \/ /\ Failed(current.next)
          /\ current' = Idle /\ Answer(current.caller, "unknown")
    /\ UNCHANGED <<cache, queue, phase, heard>>

(* Mutant: a directory change does not refresh the cached members. *)
RefreshedCacheNever == cache

RefreshedCache ==
    IF calls[current.caller].op.kind = "directory" /\ current.outcome = "committed"
    THEN memory.directory.active ELSE cache

(* Mutant: only the operation's own row is announced. *)
AnnouncedOwnRow ==
    [d \in Disclosures |->
        IF d \in current.touched /\ calls[current.caller].op.kind # "directory"
        THEN memory.rows[d].version ELSE heard[d]]

Announced ==
    [d \in Disclosures |->
        IF d \in current.touched THEN memory.rows[d].version ELSE heard[d]]

(* After the commit: refresh the cache, announce, and answer or sweep on. *)
Publish ==
    /\ current.pc = "publish"
    /\ cache' = RefreshedCache
    /\ heard' = Announced
    /\ IF calls[current.caller].op.kind = "sweep" /\ current.outcome = "committed"
       THEN Admit(current.caller)
       ELSE /\ current' = Idle
            /\ Answer(current.caller, IF current.outcome = "rejected" THEN "rejected" ELSE "ok")
    /\ UNCHANGED <<disk, memory, queue, phase, unavailable>>

---------------------------------------------------------------------------
Close ==
    /\ phase = "open" /\ phase' = "closing"
    /\ UNCHANGED <<disk, memory, cache, queue, current, calls, unavailable, heard>>

(* A released or dead owner answers nothing; what it held is as good as reread. *)
Forget ==
    /\ memory' = disk' /\ cache' = disk'.directory.active /\ heard' = Versions(disk')
    /\ unavailable' = FALSE

(* The domain is released once the admitted work has drained. *)
Drained ==
    /\ phase = "closing" /\ queue = <<>> /\ current = Idle
    /\ phase' = "closed"
    /\ UNCHANGED <<disk, queue, current, calls>>
    /\ Forget

(* The process dies: no caller is answered, a batch in flight lands or not. *)
Crash ==
    /\ phase # "down" /\ phase' = "down"
    /\ disk' \in {disk} \cup (IF current.pc = "write" THEN {current.next}
                              ELSE IF current.pc = "attempt"
                                   THEN {Attempted(memory, calls[current.caller].op)} ELSE {})
    /\ queue' = <<>> /\ current' = Idle
    /\ calls' = [c \in Callers |-> IF calls[c].status = "waiting"
                                   THEN [status |-> "lost", op |-> Nothing] ELSE calls[c]]
    /\ Forget

(* openRegistryIngest() over what the backend holds; subscribers start anew. *)
Reopen ==
    /\ phase \in {"closed", "down"}
    /\ Len(disk.journal) <= MaxOperations
    /\ phase' = "open"
    /\ UNCHANGED <<disk, queue, current, calls>>
    /\ Forget

Step == Begin \/ WriteAttempt \/ Decide \/ WriteOutcome \/ Publish \/ Drained

Next ==
    \/ \E c \in Callers, op \in Operations : Submit(c, op)
    \/ Step
    \/ Close \/ Crash \/ Reopen

(* The event loop runs what the chain holds, and every awaited authority and *)
(* storage promise settles.  Nothing makes a caller call or the owner close. *)
Spec == Init /\ [][Next]_vars /\ WF_vars(Step)
=============================================================================
