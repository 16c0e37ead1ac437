----------------------------- MODULE ImportQueue -----------------------------
(***************************************************************************)
(* The import queue of one organization: RegistrySaasImportQueue of        *)
(* packages/bundle/registry-app/src/saas-import-queue.ts.                  *)
(*                                                                         *)
(* A member's import is kept before it is answered; the target device      *)
(* fetches it later, and may fetch a newer state of what it imported.      *)
(* Operations run one at a time, but each awaits the registry, the key     *)
(* provider, the device and the storage, while access moves, bindings are  *)
(* revoked and connections drop.  The registry is asked three times per    *)
(* delivery: before keys are granted, before the sending, and when the     *)
(* device has answered; this last time the record is written before the    *)
(* registry runs anything else (withAuthorizedPrefix).                     *)
(*                                                                         *)
(* One disclosure at one checkpoint stands for all; the device is external *)
(* and imports an operation at most once, under the session id derived     *)
(* from it.                                                                *)
(***************************************************************************)
EXTENDS Integers, Sequences, FiniteSets

CONSTANTS
    Imports,        \* operation ids: of one member under one idempotency key
    Targets,        \* device instances
    Calls,          \* callers: browser requests and device requests
    MaxOperations,
    MaxVersion,     \* bounds the authorization version
    None

ASSUME ImportQueueAssumption ==
    MaxOperations \in Nat \ {0} /\ MaxVersion \in Nat /\ None \notin Imports \cup Targets

VARIABLES
    disk,       \* [Imports -> record]: the durable table
    owner,      \* "open", "unavailable", "closing", "closed"
    chain,      \* calls that wait for their turn
    calls,      \* [Calls -> what the call holds]
    access,     \* [version, allowed]: what the member may import
    receives,   \* [Targets -> BOOLEAN]: one confirmed binding with the receive scope
    device      \* [Imports -> "none", "delivered", "imported"]

authority == <<access, receives>>
vars == <<disk, owner, chain, calls, access, receives, device>>

Absent == [status |-> "none", target |-> None, version |-> 0, created |-> 0, updated |-> 0]
Away == [pc |-> "idle", kind |-> "none", import |-> None, target |-> None, version |-> 0, outcome |-> "none"]

Kept == {o \in Imports : disk[o] # Absent}
For(t, status) == {o \in Kept : disk[o].status = status /\ disk[o].target = t}

Running == {c \in Calls : calls[c].pc \notin {"idle", "queued"}}

Becomes(c, next) == calls' = [calls EXCEPT ![c] = next]
Ends(c) == Becomes(c, Away)
At(c, pc) == [calls[c] EXCEPT !.pc = pc]

(* put(): after a failed write, which may have landed, nothing is served. *)
PutDone(o, row) == disk' = [disk EXCEPT ![o] = row] /\ UNCHANGED owner
PutFails(o, row) ==
    /\ disk' \in {disk, [disk EXCEPT ![o] = row]}
    /\ owner' = IF owner = "open" THEN "unavailable" ELSE owner
Put(o, row) == PutDone(o, row) \/ PutFails(o, row)

(* The next value of Date.now(), which does not run backwards here. *)
Now(field(_)) == 1 + Cardinality({o \in Kept : field(o) # 0})

Settled(o, status) ==
    [disk[o] EXCEPT !.status = status, !.updated = Now(LAMBDA p : disk[p].updated)]

---------------------------------------------------------------------------
(* run(): refused at once, or queued behind the operations before it. *)

(* A browser request was authorized for a version before it is queued. *)
AskImport(c, o, t) ==
    /\ calls[c] = Away /\ owner = "open" /\ access.allowed
    /\ Becomes(c, [Away EXCEPT !.pc = "queued", !.kind = "import", !.import = o, !.target = t,
                               !.version = access.version])
    /\ chain' = Append(chain, c)
    /\ UNCHANGED <<disk, owner, authority, device>>

AskAsDevice(c, kind, t) ==
    /\ calls[c] = Away /\ owner = "open"
    /\ Becomes(c, [Away EXCEPT !.pc = "queued", !.kind = kind, !.target = t])
    /\ chain' = Append(chain, c)
    /\ UNCHANGED <<disk, owner, authority, device>>

(* The same key must stand for the same import. *)
SameRequest(o, call) == disk[o].target = call.target /\ disk[o].version = call.version

(* The oldest import waiting for the target; the newest it has completed. *)
Selected(kind, t) ==
    IF kind = "dispatch"
    THEN {o \in For(t, "queued") : \A p \in For(t, "queued") : disk[o].created <= disk[p].created}
    ELSE {o \in For(t, "completed") : \A p \in For(t, "completed") : disk[o].updated >= disk[p].updated}

Begin(c) ==
    LET call == calls[c] IN
    /\ chain # <<>> /\ Head(chain) = c /\ chain' = Tail(chain)
    /\ \/ owner # "open" /\ Ends(c)
       \/ /\ owner = "open" /\ call.kind = "import"
          /\ IF call.import \in Kept /\ ~SameRequest(call.import, call)
             THEN Ends(c) ELSE Becomes(c, At(c, "admit"))
       \/ /\ owner = "open" /\ call.kind # "import"
          /\ IF Selected(call.kind, call.target) = {} THEN Ends(c)
             ELSE \E o \in Selected(call.kind, call.target) :
                      Becomes(c, [At(c, "read") EXCEPT !.import = o])
    /\ UNCHANGED <<disk, owner, authority, device>>

(* Mutant: operations do not wait for one another. *)
TurnAtOnce(c) == Begin(c)

Turn(c) == Running = {} /\ Begin(c)

(* importDisclosure(), once the target is authorized or refused; a retry is  *)
(* answered with what became of the import.                                  *)
Admit(c) ==
    LET o == calls[c].import
        row == [status |-> "queued", target |-> calls[c].target, version |-> calls[c].version,
                created |-> Now(LAMBDA p : disk[p].created), updated |-> 0]
    IN
    /\ calls[c].pc = "admit"
    /\ IF receives[calls[c].target] /\ o \notin Kept /\ Cardinality(Kept) < MaxOperations
       THEN Put(o, row) ELSE UNCHANGED <<disk, owner>>
    /\ Ends(c)
    /\ UNCHANGED <<chain, authority, device>>

---------------------------------------------------------------------------
(* dispatch() and withRefreshAuthorization() *)

(* A refused delivery ends a queued import for good; a refresh just fails. *)
Refuse(c) ==
    /\ IF calls[c].kind = "dispatch" THEN Put(calls[c].import, Settled(calls[c].import, "failed"))
       ELSE UNCHANGED <<disk, owner>>
    /\ Ends(c)

(* What withAuthorizedPrefix finds, and detachedSnapshot accepts. *)
Authorized(o) == access.allowed /\ receives[disk[o].target] /\ access.version >= disk[o].version

(* requireSameSnapshot *)
AsRead(c) == Authorized(calls[c].import) /\ access.version = calls[c].version

(* The registry may refuse for reasons of its own as well. *)
Read(c) ==
    /\ calls[c].pc = "read"
    /\ \/ /\ Authorized(calls[c].import)
          /\ Becomes(c, [At(c, "grant") EXCEPT !.version = access.version])
          /\ UNCHANGED <<disk, owner>>
       \/ Refuse(c)
    /\ UNCHANGED <<chain, authority, device>>

(* issueAuthorizedGrant, and the bounds of what is delivered. *)
Grant(c) ==
    /\ calls[c].pc = "grant"
    /\ \/ Becomes(c, At(c, "check")) /\ UNCHANGED <<disk, owner>>
       \/ Refuse(c)
    /\ UNCHANGED <<chain, authority, device>>

Check(c) ==
    /\ calls[c].pc = "check"
    /\ \/ AsRead(c) /\ Becomes(c, At(c, "send")) /\ UNCHANGED <<disk, owner>>
       \/ Refuse(c)
    /\ UNCHANGED <<chain, authority, device>>

Send(c) ==
    /\ calls[c].pc = "send"
    /\ Becomes(c, At(c, "wait"))
    /\ device' = [device EXCEPT ![calls[c].import] = IF @ = "none" THEN "delivered" ELSE @]
    /\ UNCHANGED <<disk, owner, chain, authority>>

(* External: the device works through what it was sent, awaited or not. *)
DeviceImports(o) ==
    /\ device[o] = "delivered"
    /\ device' = [device EXCEPT ![o] = "imported"]
    /\ UNCHANGED <<disk, owner, chain, calls, authority>>

(* The release frame; a session id other than the derived one is "wrong". *)
Answer(c, outcome) ==
    /\ calls[c].pc = "wait"
    /\ outcome = "completed" => device[calls[c].import] = "imported"
    /\ Becomes(c, [At(c, "confirm") EXCEPT !.outcome = outcome])
    /\ UNCHANGED <<disk, owner, chain, authority, device>>

(* Mutant: the queue waits for the device as long as it takes. *)
TimeoutNever(c) == FALSE /\ UNCHANGED vars

(* deliveryTimeoutMs *)
Timeout(c) ==
    /\ calls[c].pc = "wait" /\ Ends(c)
    /\ UNCHANGED <<disk, owner, chain, authority, device>>

(* The record is written within the confirmation; only then is it released. *)
Settles(c, status) ==
    LET row == Settled(calls[c].import, status) IN
    \/ PutDone(calls[c].import, row) /\ Becomes(c, At(c, "released"))
    \/ PutFails(calls[c].import, row) /\ Ends(c)

(* Mutant: an answer to retry later counts as an import. *)
RecordAny(c) ==
    \/ calls[c].kind = "dispatch" /\ calls[c].outcome # "wrong" /\ Settles(c, "completed")
    \/ /\ calls[c].kind = "refresh" \/ calls[c].outcome = "wrong"
       /\ Becomes(c, At(c, "released")) /\ UNCHANGED <<disk, owner>>

(* What a confirmed answer leaves of the record. *)
Record(c) ==
    LET o == calls[c].import IN
    \/ calls[c].kind = "dispatch" /\ calls[c].outcome = "completed" /\ Settles(c, "completed")
    \/ /\ calls[c].kind = "dispatch" /\ calls[c].outcome = "wrong"
       /\ Put(o, Settled(o, "failed")) /\ Ends(c)
    \/ /\ calls[c].kind = "refresh" \/ calls[c].outcome = "retry"
       /\ Becomes(c, At(c, "released")) /\ UNCHANGED <<disk, owner>>

(* Mutant: the answer is taken without asking the registry again. *)
ConfirmUnasked(c) ==
    /\ calls[c].pc = "confirm" /\ Record(c)
    /\ UNCHANGED <<chain, authority, device>>

(* Without its authority a refresh ends in an error, an import in a failed  *)
(* record; but the device, which has imported by then, is answered as ever. *)
Confirm(c) ==
    /\ calls[c].pc = "confirm"
    /\ IF AsRead(c) THEN Record(c)
       ELSE IF calls[c].kind = "dispatch" THEN Settles(c, "failed")
       ELSE Refuse(c)
    /\ UNCHANGED <<chain, authority, device>>

(* The release is confirmed to the device. *)
Released(c) ==
    /\ calls[c].pc = "released" /\ Ends(c)
    /\ UNCHANGED <<disk, owner, chain, authority, device>>

(* The connection drops, a refresh runs out of time, the target or the       *)
(* registry refuses: the call ends and the record stays as it is.            *)
Lost(c) ==
    /\ c \in Running /\ Ends(c)
    /\ UNCHANGED <<disk, owner, chain, authority, device>>

---------------------------------------------------------------------------
AccessMoves ==
    /\ access.version < MaxVersion
    /\ \E allowed \in BOOLEAN : access' = [version |-> access.version + 1, allowed |-> allowed]
    /\ UNCHANGED <<disk, owner, chain, calls, receives, device>>

BindingRevoked(t) ==
    /\ receives[t] /\ receives' = [receives EXCEPT ![t] = FALSE]
    /\ UNCHANGED <<disk, owner, chain, calls, access, device>>

(* close(): no new work; what waits is refused, what runs is awaited. *)
Close ==
    /\ owner \in {"open", "unavailable"} /\ owner' = "closing"
    /\ UNCHANGED <<disk, chain, calls, authority, device>>

Closed ==
    /\ owner = "closing" /\ chain = <<>> /\ Running = {}
    /\ owner' = "closed"
    /\ UNCHANGED <<disk, chain, calls, authority, device>>

Crash ==
    /\ owner # "closed" /\ owner' = "closed"
    /\ chain' = <<>> /\ calls' = [c \in Calls |-> Away]
    /\ UNCHANGED <<disk, authority, device>>

(* open(): a queue beyond its bound would not open. *)
Reopen ==
    /\ owner = "closed" /\ Cardinality(Kept) <= MaxOperations
    /\ owner' = "open"
    /\ UNCHANGED <<disk, chain, calls, authority, device>>

---------------------------------------------------------------------------
Init ==
    /\ disk = [o \in Imports |-> Absent] /\ owner = "open"
    /\ chain = <<>> /\ calls = [c \in Calls |-> Away]
    /\ access = [version |-> 0, allowed |-> TRUE]
    /\ receives = [t \in Targets |-> TRUE]
    /\ device = [o \in Imports |-> "none"]

Ask(c) ==
    \E t \in Targets :
        \/ \E o \in Imports : AskImport(c, o, t)
        \/ \E kind \in {"dispatch", "refresh"} : AskAsDevice(c, kind, t)

(* What the queue itself does next for a call. *)
Step(c) ==
    Turn(c) \/ Admit(c) \/ Read(c) \/ Grant(c) \/ Check(c) \/ Send(c) \/ Timeout(c)
        \/ Confirm(c) \/ Released(c)

Next ==
    \/ \E c \in Calls :
           Ask(c) \/ Step(c) \/ Lost(c) \/ \E outcome \in {"completed", "retry", "wrong"} : Answer(c, outcome)
    \/ \E o \in Imports : DeviceImports(o)
    \/ \E t \in Targets : BindingRevoked(t)
    \/ AccessMoves \/ Close \/ Closed \/ Crash \/ Reopen

(* Awaited promises settle, and a delivery's timer fires; a device need not *)
(* answer.                                                                  *)
Spec == Init /\ [][Next]_vars /\ \A c \in Calls : WF_vars(Step(c))
=============================================================================
