------------------------------- MODULE Mailbox -------------------------------
(***************************************************************************)
(* The encrypted question queue of packages/a2a/mailbox: one owner runs    *)
(* the admitted operations in turn over a table of request records.  An    *)
(* operation takes an authorization lease (the clock and the access at     *)
(* that instant), awaits the codec and the storage, and passes a fence     *)
(* after every await: the owner must still be live and the access version  *)
(* unchanged.  Storage rejects (having committed or not), leases abort,    *)
(* the access moves, execution leases run out, and the process crashes     *)
(* between any two of these steps.                                         *)
(*                                                                         *)
(* A refused call changes nothing and is not a step.  A text is a model    *)
(* value, its ciphertext and its digest are that value.  A reply is named  *)
(* for the executor (a worker process of the source instance) that wrote   *)
(* it, so that a reply tells whose execution it came from.                 *)
(***************************************************************************)
EXTENDS Integers, FiniteSets, DisclosureDomain

CONSTANTS
    Requests, Texts, Executors,
    Null,                   \* no record, text, reply or lease
    ExpiresAt,              \* [Requests -> Nat], fixed when the request is made
    ExecutionLease,         \* executionLeaseMs
    MaxLifetime, MaxRequests, MaxRetained, MaxItems,
    KeyOrder,               \* the requests in the order of their keys
    ClockSteps,             \* {1}, or {-1, 1} for a wall clock that is set back
    MaxTime, MaxAuthority,  \* bounds of the clock and of the access version
    MaxGranted              \* bound: no version beyond it is granted to an executor

ASSUME MailboxAssumption ==
    /\ ExpiresAt \in [Requests -> Nat] /\ ExecutionLease \in Nat \ {0}
    /\ MaxRequests \in Nat \ {0} /\ MaxRetained \in Nat /\ MaxRequests <= MaxRetained
    /\ MaxItems \in Nat \ {0} /\ MaxGranted + 2 <= MaxVersion
    /\ KeyOrder \in [Requests -> Nat] /\ IsFiniteSet(Requests)

Pending == {"queued", "delivered", "running"}
Terminal == {"completed", "expired", "cancelled", "failed"}

Record ==
    [state : Pending \cup Terminal, version : Nat,
     bound : Nat, authorization : Nat,
     text : Texts, answered : Executors \cup {Null}, updatedAt : Nat,
     question : Texts \cup {Null}, reply : Executors \cup {Null}]

ASSUME NullAssumption == Null \notin Texts /\ Null \notin Executors /\ Null \notin Record

VARIABLES
    disk,           \* [Requests -> Null or a record]: what the backend holds
    memory,         \* what the opened table answers
    now,            \* the Registry clock
    access,         \* [version, allowed]: the asker's current authorization
    current,        \* the running operation
    status,         \* "open", "unavailable" (isolated), "closing" or "down"
    worker,         \* the expiry worker: "running" or "stopped"
    holds,          \* [Executors -> [Requests -> version granted, 0 for none]]
    answer          \* what the last completed operation told its caller

vars == <<disk, memory, now, access, current, status, worker, holds, answer>>

---------------------------------------------------------------------------
(* Records *)

Present(store) == {r \in Requests : store[r] # Null}

Tombstone(record) ==
    record.state \in Terminal /\ record.question = Null /\ record.reply = Null

(* The records that count against maxRequests. *)
Occupied(store) == {r \in Present(store) : ~Tombstone(store[r])}

HasBody(record) == record # Null /\ (record.question # Null \/ record.reply # Null)

Parses(record) ==
    /\ record.authorization >= record.bound /\ record.version > 0
    /\ record.state \in Pending \cup Terminal
    /\ (record.question # Null) = (record.state \in Pending)
    /\ record.reply = Null \/ record.state = "completed"
    /\ (record.answered # Null) = (record.state = "completed")

(* openOwner(): what a durable table must satisfy to be opened again. *)
Opens(store) ==
    /\ Cardinality(Present(store)) <= MaxRetained
    /\ Cardinality(Occupied(store)) <= MaxRequests
    /\ \A r \in Present(store) : Parses(store[r])

LeaseExpired(record, at) ==
    record.state = "running" /\ at >= record.updatedAt /\ at - record.updatedAt >= ExecutionLease

(* stoppedRecord(): a stop ends pending work and purges a kept reply. *)
Stopped(record, reason, at) ==
    IF record.state \in Terminal /\ record.reply = Null THEN record
    ELSE [record EXCEPT
            !.state = CASE @ = "queued"                  -> IF reason = "cancel" THEN "cancelled" ELSE "expired"
                        [] @ \in {"delivered", "running"} -> "failed"
                        [] OTHER                         -> @,
            !.version = @ + 1, !.updatedAt = at, !.question = Null, !.reply = Null]

(* change(): every committed change takes the next version; an ended request *)
(* loses its question.                                                        *)
Changed(record, state, authorization, at) ==
    [record EXCEPT !.state = state, !.authorization = authorization, !.updatedAt = at,
                   !.version = @ + 1,
                   !.question = IF state \in Pending THEN @ ELSE Null]

---------------------------------------------------------------------------
(* Leases: the decision evaluateA2aDispatch() takes on a record, "allow"     *)
(* standing for deliver and wait.                                            *)

Decision(r, authorization) ==
    IF now >= ExpiresAt[r] THEN "expire"
    ELSE IF ~access.allowed \/ authorization > access.version THEN "cancel"
    ELSE "allow"

Allowed(r) == memory[r] # Null /\ Decision(r, memory[r].authorization) = "allow"

Idle == [pc |-> "idle"]
Nothing == [kind |-> "nothing"]

Ready == status = "open" /\ current = Idle

(* An operation that will write `next` and go on as `then` says. *)
Run(pc, r, next, then) ==
    current' = [pc |-> pc, request |-> r, next |-> next, then |-> then, by |-> Null,
                at |-> now, version |-> access.version, victim |-> Null, left |-> 0]

RunBy(x, pc, r, next, then) ==
    current' = [pc |-> pc, request |-> r, next |-> next, then |-> then, by |-> x,
                at |-> now, version |-> access.version, victim |-> Null, left |-> 0]

Tell(r, record) ==
    answer' = [kind |-> "receipt", request |-> r, version |-> record.version, state |-> record.state]

Still == UNCHANGED <<disk, memory, now, access, status, worker, holds>>

(* An answer read from the table, without a write. *)
Observe(r) == Still /\ UNCHANGED current /\ Tell(r, memory[r])

(* A write is issued: the answer comes once it has settled. *)
Issue == Still /\ UNCHANGED answer

---------------------------------------------------------------------------
(* Enqueue *)

Evictable == {r \in Occupied(memory) : memory[r].state = "completed"}

(* Mutant: the first by key is evicted, whatever its age. *)
OlderByKey(a, b) == KeyOrder[a] <= KeyOrder[b]

Older(a, b) ==
    \/ memory[a].updatedAt < memory[b].updatedAt
    \/ memory[a].updatedAt = memory[b].updatedAt /\ KeyOrder[a] <= KeyOrder[b]

(* Mutant: one more body than maxRequests is retained. *)
RoomBeyondLimit == Cardinality(Occupied(memory)) <= MaxRequests

HasRoom == Cardinality(Occupied(memory)) < MaxRequests

(* Mutant: an identity seen before is admitted as a new request. *)
FreshOrEnded(r) == memory[r] # Null => memory[r].state \in Terminal

Fresh(r) == memory[r] = Null

Question(r, t) ==
    [state |-> "queued", version |-> 1, bound |-> access.version, authorization |-> access.version,
     text |-> t, answered |-> Null, updatedAt |-> now, question |-> t, reply |-> Null]

(* A new request is sealed and written, after the oldest kept reply has been *)
(* evicted when no room is left (makeRoom).                                   *)
Enqueue(r, t) ==
    /\ Ready /\ Fresh(r)
    /\ access.allowed /\ now < ExpiresAt[r] /\ ExpiresAt[r] - now <= MaxLifetime
    /\ Cardinality(Present(memory)) < MaxRetained
    /\ \/ HasRoom /\ Run("seal", r, Question(r, t), "receipt")
       \/ /\ ~HasRoom
          /\ \E v \in Evictable :
                /\ \A other \in Evictable : Older(v, other)
                /\ current' = [pc |-> "evict", request |-> r, next |-> Question(r, t), then |-> "receipt",
                               by |-> Null, at |-> now, version |-> access.version, victim |-> v, left |-> 0]
    /\ Issue

(* An exact retry answers with the record as it is and encrypts nothing. *)
EnqueueAgain(r, t) ==
    /\ Ready /\ Allowed(r)
    /\ memory[r].text = t
    /\ Observe(r)

---------------------------------------------------------------------------
(* Reads that may stop the request they read: dispatch, status, reply *)

(* A stop would leave the record as it is: dispatch answers with a receipt. *)
AlreadyStopped(r) == memory[r].state \in Terminal /\ memory[r].reply = Null

(* stop(): what a lost authorization or a passed expiry leaves of a record. *)
Stop(r, then) ==
    /\ memory[r] # Null /\ ~Allowed(r) /\ ~AlreadyStopped(r)
    /\ Run("write", r, Stopped(memory[r], Decision(r, memory[r].authorization), now), then)
    /\ Issue

(* dispatch(): `x` is an executor when the source asks, Null for the requester. *)
Dispatch(x, r) ==
    /\ Ready /\ memory[r] # Null
    /\ \/ Stop(r, "receipt")
       \/ (AlreadyStopped(r) \/ (Allowed(r) /\ memory[r].state = "completed")) /\ Observe(r)
       \/ /\ Allowed(r) /\ memory[r].state = "queued"
          /\ x # Null \/ memory[r].authorization # access.version
          /\ RunBy(x, "write", r,
                   Changed(memory[r], IF x = Null THEN "queued" ELSE "delivered", access.version, now),
                   IF x = Null THEN "receipt" ELSE "open")
          /\ Issue
       \/ /\ Allowed(r) /\ x # Null /\ memory[r].state \in {"delivered", "running"}
          /\ RunBy(x, "open", r, memory[r], "open")
          /\ Issue

(* status(): a stopped request is hidden from its reader. *)
Status(r) ==
    /\ Ready /\ memory[r] # Null
    /\ Stop(r, "hidden") \/ (Allowed(r) /\ Observe(r))

(* reply(): the text while it is kept, its receipt for ever. *)
ReadReply(r) ==
    /\ Ready /\ memory[r] # Null
    /\ \/ Stop(r, "hidden")
       \/ /\ Allowed(r) /\ memory[r].state = "completed"
          /\ \/ memory[r].reply # Null /\ Run("open", r, memory[r], "open") /\ Issue
             \/ memory[r].reply = Null /\ Observe(r)

---------------------------------------------------------------------------
(* Execution *)

Acquirable(r) == memory[r].state = "delivered" \/ LeaseExpired(memory[r], now)

(* startExecution(), started: the caller becomes the executor.  Otherwise the *)
(* call only reads the receipt, as Status does.                               *)
StartExecution(x, r) ==
    /\ Ready /\ Allowed(r) /\ Acquirable(r) /\ memory[r].version < MaxGranted
    /\ RunBy(x, "write", r, Changed(memory[r], "running", access.version, now), "grant")
    /\ Issue

(* Mutant: an executor may act on a version that has been superseded. *)
HoldsNewestOrOlder(x, r) == holds[x][r] # 0 /\ holds[x][r] <= memory[r].version

(* The version an executor passes is the one it was last granted. *)
HoldsNewest(x, r) == holds[x][r] # 0 /\ holds[x][r] = memory[r].version

InTime(r) == memory[r].state = "running" /\ ~LeaseExpired(memory[r], now)

RenewExecution(x, r) ==
    /\ Ready /\ Allowed(r) /\ HoldsNewest(x, r) /\ InTime(r) /\ memory[r].version < MaxGranted
    /\ RunBy(x, "write", r, Changed(memory[r], "running", access.version, now), "grant")
    /\ Issue

(* transition(completed): the reply is sealed first, and replaces the question. *)
Complete(x, r) ==
    /\ Ready /\ Allowed(r) /\ HoldsNewest(x, r) /\ InTime(r)
    /\ RunBy(x, "seal", r,
             [Changed(memory[r], "completed", access.version, now) EXCEPT !.answered = x, !.reply = x],
             "receipt")
    /\ Issue

(* transition() to any other state, at the version the record now has. *)
Move(r, target) ==
    /\ Ready /\ Allowed(r) /\ memory[r].state # target
    /\ RequestMayBecome(memory[r].state, target)
    /\ memory[r].state = "running" => InTime(r)
    /\ Run("write", r, Changed(memory[r], target, access.version, now), "receipt")
    /\ Issue

---------------------------------------------------------------------------
(* Expiry *)

(* Mutant: only pending work is expired, a kept reply never. *)
NeedsExpiryPendingOnly(r, at) == memory[r] # Null /\ at >= ExpiresAt[r] /\ memory[r].state \in Pending

NeedsExpiry(r, at) ==
    /\ memory[r] # Null /\ at >= ExpiresAt[r]
    /\ memory[r].state \in Pending \/ memory[r].reply # Null

(* processExpiryBatch(): the first write of a round of the worker. *)
Sweep ==
    /\ Ready /\ worker = "running"
    /\ \E r \in Requests :
          /\ NeedsExpiry(r, now)
          /\ current' = [pc |-> "write", request |-> r, next |-> Stopped(memory[r], "expire", now),
                         then |-> "sweep", by |-> Null, at |-> now, version |-> access.version,
                         victim |-> Null, left |-> MaxItems - 1]
    /\ Issue

(* The batch goes on with its captured clock until its bound or nothing is left. *)
SweepOn(store) ==
    LET eligible == {r \in Requests : NeedsExpiry(r, current.at) /\ r # current.request} IN
    IF eligible = {} \/ current.left = 0 THEN current' = Idle
    ELSE \E r \in eligible :
            current' = [current EXCEPT !.request = r, !.left = @ - 1,
                                       !.next = Stopped(store[r], "expire", current.at)]

(* The worker ends for good on the first round that is refused: the owner is *)
(* isolated or closing, or its admission limit is reached.                    *)
RoundRefused ==
    /\ worker = "running" /\ status # "down"
    /\ worker' = "stopped"
    /\ UNCHANGED <<disk, memory, now, access, current, status, holds, answer>>

---------------------------------------------------------------------------
(* What an await returns to *)

(* Mutant: the fence looks at the owner only. *)
FenceWithoutAccess == status = "open"

Fence == status = "open" /\ access.version = current.version

(* A fence fails, or the lease aborts: the caller learns nothing, and the     *)
(* owner is isolated unless the authority reported a released caller.         *)
Abandon ==
    /\ current' = Idle /\ answer' = Nothing
    /\ status' \in {status, IF status = "open" THEN "unavailable" ELSE status}
    /\ UNCHANGED <<worker, holds>>

Written ==
    IF current.pc = "evict"
    THEN [memory EXCEPT ![current.victim] = Stopped(@, "expire", current.at)]
    ELSE [memory EXCEPT ![current.request] = current.next]

Sealed ==
    /\ current.pc = "seal"
    /\ \/ Fence /\ current' = [current EXCEPT !.pc = "write"] /\ UNCHANGED <<answer, status, worker, holds>>
       \/ current' = Idle /\ answer' = Nothing /\ UNCHANGED <<status, worker, holds>>   \* codec-failed
       \/ Abandon
    /\ UNCHANGED <<disk, memory, now, access>>

(* The answer of an operation whose write has landed under a valid fence. *)
Proceed ==
    /\ UNCHANGED <<status, worker>>
    /\ \/ /\ current.pc = "evict"
          /\ current' = [current EXCEPT !.pc = "seal"] /\ UNCHANGED <<answer, holds>>
       \/ /\ current.pc = "write" /\ current.then = "open"
          /\ current' = [current EXCEPT !.pc = "open"] /\ UNCHANGED <<answer, holds>>
       \/ /\ current.pc = "write" /\ current.then # "open"
          /\ current' = Idle
          /\ IF current.then = "hidden" THEN answer' = Nothing
             ELSE Tell(current.request, current.next)
          /\ holds' = IF current.then = "grant"
                      THEN [holds EXCEPT ![current.by][current.request] = current.next.version]
                      ELSE holds

WriteLands ==
    /\ current.pc \in {"evict", "write"}
    /\ disk' = Written /\ memory' = Written
    /\ IF current.then = "sweep"
       THEN /\ IF status = "open" THEN SweepOn(Written) ELSE current' = Idle
            /\ UNCHANGED <<answer, status, worker, holds>>
       ELSE (Fence /\ Proceed) \/ Abandon
    /\ UNCHANGED <<now, access>>

Isolated == IF status = "open" THEN "unavailable" ELSE status

(* A rejected write may have landed; the owner serves nothing any more. *)
WriteFails ==
    /\ current.pc \in {"evict", "write"}
    /\ disk' \in {disk, Written} /\ UNCHANGED memory
    /\ status' = Isolated
    /\ worker' = IF current.then = "sweep" THEN "stopped" ELSE worker
    /\ current' = Idle /\ answer' = Nothing
    /\ UNCHANGED <<now, access, holds>>

(* The body leaves the mailbox, to the source or to the requester. *)
Opened ==
    /\ current.pc = "open"
    /\ \/ /\ Fence /\ current' = Idle
          /\ answer' = [kind |-> "body", request |-> current.request, version |-> current.next.version,
                        body |-> IF current.next.state = "completed" THEN current.next.reply
                                 ELSE current.next.question]
          /\ UNCHANGED <<status, worker, holds>>
       \/ current' = Idle /\ answer' = Nothing /\ UNCHANGED <<status, worker, holds>>   \* codec-failed
       \/ Abandon
    /\ UNCHANGED <<disk, memory, now, access>>

---------------------------------------------------------------------------
(* The world *)

Tick ==
    /\ \E step \in ClockSteps : now + step \in 0..MaxTime /\ now' = now + step
    /\ UNCHANGED <<disk, memory, access, current, status, worker, holds, answer>>

AccessMoves ==
    /\ access.version < MaxAuthority
    /\ \E allowed \in BOOLEAN : access' = [version |-> access.version + 1, allowed |-> allowed]
    /\ UNCHANGED <<disk, memory, now, current, status, worker, holds, answer>>

Close ==
    /\ status = "open" /\ status' = "closing"
    /\ UNCHANGED <<disk, memory, now, access, current, worker, holds, answer>>

(* The owner has drained and its domain is released. *)
Released ==
    /\ status \in {"unavailable", "closing"} /\ current = Idle
    /\ status' = "down" /\ worker' = "stopped" /\ answer' = Nothing /\ memory' = disk
    /\ UNCHANGED <<disk, now, access, current, holds>>

(* A write in flight lands or not; nobody is answered. *)
Crash ==
    /\ status # "down" /\ status' = "down" /\ worker' = "stopped"
    /\ disk' \in {disk} \cup (IF current.pc \in {"evict", "write"} THEN {Written} ELSE {})
    /\ memory' = disk' /\ current' = Idle /\ answer' = Nothing
    /\ UNCHANGED <<now, access, holds>>

Reopen ==
    /\ status = "down" /\ Opens(disk)
    /\ status' = "open" /\ worker' = "running"
    /\ UNCHANGED <<disk, memory, now, access, current, holds, answer>>

---------------------------------------------------------------------------
Init ==
    /\ disk = [r \in Requests |-> Null] /\ memory = disk
    /\ now = 0 /\ access = [version |-> 0, allowed |-> TRUE]
    /\ current = Idle /\ status = "open" /\ worker = "running"
    /\ holds = [x \in Executors |-> [r \in Requests |-> 0]]
    /\ answer = Nothing

Operation ==
    \E r \in Requests :
        \/ \E t \in Texts : Enqueue(r, t) \/ EnqueueAgain(r, t)
        \/ \E x \in Executors \cup {Null} : Dispatch(x, r)
        \/ \E x \in Executors : StartExecution(x, r) \/ RenewExecution(x, r) \/ Complete(x, r)
        \/ \E target \in {"running", "failed", "cancelled"} : Move(r, target)
        \/ Status(r) \/ ReadReply(r)

Settle == Sealed \/ WriteLands \/ WriteFails \/ Opened

Next ==
    \/ Operation \/ Sweep \/ RoundRefused \/ Settle
    \/ Tick \/ AccessMoves \/ Close \/ Released \/ Crash \/ Reopen

(* Awaited promises settle; the chain is first in, first out, so a round that *)
(* finds work is not overtaken for ever; a refused round is a rejected        *)
(* promise the worker awaits.                                                 *)
Spec ==
    /\ Init /\ [][Next]_vars
    /\ WF_vars(Settle) /\ SF_vars(Sweep)
    /\ WF_vars(RoundRefused /\ status # "open")
=============================================================================
