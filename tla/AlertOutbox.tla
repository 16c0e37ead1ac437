------------------------------ MODULE AlertOutbox ------------------------------
(***************************************************************************)
(* The crash-durable outbox of operational alerts: the SQLite file of      *)
(* operational-alert-outbox-sqlite.ts and the exporters of                 *)
(* operational-alerts.ts (packages/bundle/registry-app/src) that share it, *)
(* one per process.                                                        *)
(*                                                                         *)
(* An exporter claims the first alert that is due, for the length of a     *)
(* lease, sends it, and completes or fails its claim.  Every transaction   *)
(* is one step; sending is awaited.  Leases run out, transactions fail,    *)
(* exporters close, crash and restart in between.                          *)
(*                                                                         *)
(* Times are abstracted to the order they put alerts in: the clock of the  *)
(* host is not set back, so an alert put down for a retry is due after     *)
(* those put down before.  A lease token is drawn for every claim; as an   *)
(* exporter has one claim at a time, its name stands for it.               *)
(***************************************************************************)
EXTENDS Integers, SequencesExt

CONSTANTS
    Alerts,             \* one for each enqueue()
    Unreadable,         \* alerts another version wrote: decodePersistedAlert refuses them
    Exporters,
    None,               \* no lease, no alert
    MaxPending,         \* maxPendingAlerts
    DeliveryAttempts,   \* deliveryAttempts
    MaxFaults           \* bounds crashes, failed transactions and leases outlived

ASSUME OutboxAssumption ==
    /\ Unreadable \subseteq Alerts /\ None \notin Exporters \cup Alerts
    /\ MaxPending \in Nat \ {0} /\ DeliveryAttempts \in Nat \ {0} /\ MaxFaults \in Nat

VARIABLES
    accepted,   \* alerts that were inserted
    due,        \* pending alerts whose next_attempt_at has come, in that order
    later,      \* pending alerts put down for a retry, in that order
    failed,     \* alerts given up, the latest last
    attempts,   \* [Alerts -> failed attempts counted]
    lease,      \* [Alerts -> the exporter whose token the row holds, or None]
    expired,    \* alerts whose lease_until has passed
    exporters,  \* [Exporters -> [phase, pc, alert]]
    taken,      \* alerts the endpoint has taken
    refusals,   \* [Alerts -> offers that were refused, unanswered or cut off]
    faults

rows == <<accepted, due, later, failed, attempts, lease, expired>>
vars == <<rows, exporters, taken, refusals, faults>>

Pending == Range(due) \cup Range(later)

Faulty == faults < MaxFaults /\ faults' = faults + 1

At(p, pc) == exporters[p].phase \in {"open", "closing"} /\ exporters[p].pc = pc
WorksOn(p, pc, a) ==
    exporters' = [exporters EXCEPT ![p] = [phase |-> exporters[p].phase, pc |-> pc, alert |-> a]]
Goes(p, pc) == WorksOn(p, pc, exporters[p].alert)
Waits(p) == WorksOn(p, "idle", None)

(* prune(): what is too old, and what exceeds maxPendingAlerts, the oldest   *)
(* first.                                                                    *)
Pruned(seq) == {s \in {SubSeq(seq, n, Len(seq)) : n \in 1..Len(seq) + 1} : Len(s) <= MaxPending}

---------------------------------------------------------------------------
(* A full outbox refuses, and the caller only logs: not a step. *)
Enqueue(p, a) ==
    /\ exporters[p].phase = "open" /\ a \notin accepted
    /\ Cardinality(Pending) < MaxPending
    /\ accepted' = accepted \cup {a}
    /\ due' = Append(due, a)
    /\ failed' \in Pruned(failed)
    /\ UNCHANGED <<later, attempts, lease, expired, exporters, taken, refusals, faults>>

Claimable(a) == lease[a] = None \/ a \in expired

(* claim(): the first that is due and not under a lease.  A row that has     *)
(* used up its attempts is refused, and with it whatever is behind it.       *)
Claim(p) ==
    \E i \in DOMAIN due :
        LET a == due[i] IN
        /\ exporters[p].phase = "open" /\ exporters[p].pc = "idle"
        /\ Claimable(a) /\ \A j \in 1..i - 1 : ~Claimable(due[j])
        /\ attempts[a] < DeliveryAttempts
        /\ lease' = [lease EXCEPT ![a] = p]
        /\ expired' = expired \ {a}
        /\ WorksOn(p, IF a \in Unreadable THEN "reject" ELSE "send", a)
        /\ UNCHANGED <<accepted, due, later, failed, attempts, taken, refusals, faults>>

(* deliver(): whatever the endpoint did, the exporter may see it fail. *)
Send(p) ==
    LET a == exporters[p].alert IN
    /\ At(p, "send")
    /\ \/ taken' = taken \cup {a} /\ Goes(p, "complete") /\ UNCHANGED refusals
       \/ /\ taken' \in {taken, taken \cup {a}}
          /\ refusals' = [refusals EXCEPT ![a] = @ + 1]
          /\ Goes(p, "fail")
    /\ UNCHANGED <<rows, faults>>

(* The row goes out of the pending ones. *)
Leaves(a) ==
    /\ \E i \in DOMAIN due : due[i] = a /\ due' = RemoveAt(due, i)
    /\ lease' = [lease EXCEPT ![a] = None]
    /\ expired' = expired \ {a}

Holds(p) == lease[exporters[p].alert] = p

(* complete(): a claim that was taken over changes nothing. *)
Complete(p) ==
    /\ At(p, "complete") /\ Waits(p)
    /\ IF Holds(p) THEN Leaves(exporters[p].alert) ELSE UNCHANGED <<due, lease, expired>>
    /\ UNCHANGED <<accepted, later, failed, attempts, taken, refusals, faults>>

(* Mutant: one attempt less than the policy says. *)
ExhaustedEarly(n) == n + 1 >= DeliveryAttempts

(* Mutant: one attempt more than the policy says. *)
ExhaustedLate(n) == n > DeliveryAttempts

Exhausted(n) == n >= DeliveryAttempts

(* failClaim(), terminal for what could not be decoded. *)
FailClaim(p) ==
    LET a == exporters[p].alert IN
    /\ At(p, "fail") \/ At(p, "reject")
    /\ Waits(p)
    /\ IF Holds(p)
       THEN /\ Leaves(a)
            /\ attempts' = [attempts EXCEPT ![a] = @ + 1]
            /\ IF exporters[p].pc = "reject" \/ Exhausted(attempts[a] + 1)
               THEN failed' \in Pruned(Append(failed, a)) \ {<<>>} /\ UNCHANGED later
               ELSE later' = Append(later, a) /\ UNCHANGED failed
       ELSE UNCHANGED <<due, later, failed, attempts, lease, expired>>
    /\ UNCHANGED <<accepted, taken, refusals, faults>>

---------------------------------------------------------------------------
(* The database is locked or out of order: the row stays under its lease. *)
TransactionFails(p) ==
    /\ At(p, "complete") \/ At(p, "fail") \/ At(p, "reject")
    /\ Waits(p) /\ Faulty
    /\ UNCHANGED <<rows, taken, refusals>>

DelayPasses ==
    /\ later # <<>>
    /\ due' = Append(due, Head(later)) /\ later' = Tail(later)
    /\ UNCHANGED <<accepted, failed, attempts, lease, expired, exporters, taken, refusals, faults>>

(* leaseMs exceeds timeoutMs, but not the time a credential may take: an     *)
(* exporter that still works on its claim may find that it has run out.      *)
LeaseExpires(a) ==
    /\ lease[a] # None /\ a \notin expired
    /\ IF exporters[lease[a]].alert = a THEN Faulty ELSE UNCHANGED faults
    /\ expired' = expired \cup {a}
    /\ UNCHANGED <<accepted, due, later, failed, attempts, lease, exporters, taken, refusals>>

(* close(): the claim at hand is finished, the file is left as it is. *)
Close(p) ==
    /\ exporters[p].phase = "open"
    /\ exporters' = [exporters EXCEPT ![p].phase = "closing"]
    /\ UNCHANGED <<rows, taken, refusals, faults>>

Closed(p) ==
    /\ exporters[p].phase = "closing" /\ exporters[p].pc = "idle"
    /\ exporters' = [exporters EXCEPT ![p].phase = "closed"]
    /\ UNCHANGED <<rows, taken, refusals, faults>>

Crash(p) ==
    /\ exporters[p].phase \in {"open", "closing"} /\ Faulty
    /\ exporters' = [exporters EXCEPT ![p] = [phase |-> "closed", pc |-> "idle", alert |-> None]]
    /\ UNCHANGED <<rows, taken, refusals>>

Restart(p) ==
    /\ exporters[p].phase = "closed"
    /\ exporters' = [exporters EXCEPT ![p].phase = "open"]
    /\ UNCHANGED <<rows, taken, refusals, faults>>

---------------------------------------------------------------------------
Init ==
    /\ accepted = {} /\ due = <<>> /\ later = <<>> /\ failed = <<>>
    /\ attempts = [a \in Alerts |-> 0]
    /\ lease = [a \in Alerts |-> None] /\ expired = {}
    /\ exporters = [p \in Exporters |-> [phase |-> "open", pc |-> "idle", alert |-> None]]
    /\ taken = {} /\ refusals = [a \in Alerts |-> 0]
    /\ faults = 0

Work(p) == Claim(p) \/ Send(p) \/ Complete(p) \/ FailClaim(p)

Next ==
    \/ \E p \in Exporters :
           \/ Work(p) \/ TransactionFails(p) \/ Close(p) \/ Closed(p) \/ Crash(p) \/ Restart(p)
           \/ \E a \in Alerts : Enqueue(p, a)
    \/ DelayPasses
    \/ \E a \in Alerts : LeaseExpires(a)

(* An exporter polls, and what it sends is answered or times out; time goes  *)
(* on.                                                                       *)
Spec ==
    /\ Init /\ [][Next]_vars
    /\ \A p \in Exporters : WF_vars(Work(p))
    /\ WF_vars(DelayPasses)
    /\ \A a \in Alerts :
           WF_vars(LeaseExpires(a) /\ (lease[a] # None => exporters[lease[a]].alert # a))
=============================================================================
