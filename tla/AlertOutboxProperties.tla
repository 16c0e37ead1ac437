------------------------ MODULE AlertOutboxProperties ------------------------
(***************************************************************************)
(* What must hold of alerts that were accepted.                            *)
(***************************************************************************)
EXTENDS AlertOutbox

Stage ==
    [a \in Alerts |->
        IF a \notin accepted THEN "new"
        ELSE IF a \in Pending THEN "pending"
        ELSE IF a \in Range(failed) THEN "failed" ELSE "gone"]

Promise == INSTANCE AlertPromise WITH stage <- Stage

(* No accepted alert is lost: whatever leases run out, transactions fail    *)
(* and exporters crash, it stays until the endpoint took it, or until as    *)
(* many offers as the policy says have failed; an attempt is not counted    *)
(* twice by exporters that followed one another                             *)
(* (operational-alert-outbox-sqlite.ts:236-269).                            *)
ImplementsAlertPromise == Promise!Spec

(* Every accepted alert reaches its end, behind alerts that fail, lost      *)
(* leases and rows nobody can read, if an exporter stays open from some     *)
(* time on (operational-alerts.ts:314).                                     *)
AcceptedAlertsSettle ==
    (\E p \in Exporters : <>[](exporters[p].phase = "open"))
        => \A a \in Alerts : a \in Pending ~> a \notin Pending

(* The file keeps within the bounds of its policy, and no pending row has   *)
(* used up its attempts: such a row would be refused by every claim, and    *)
(* all that is due behind it with it                                        *)
(* (operational-alert-outbox-sqlite.ts:202, 221, 278).                      *)
OutboxKeepsBounds ==
    /\ Cardinality(Pending) <= MaxPending /\ Len(failed) <= MaxPending
    /\ \A a \in Pending : attempts[a] < DeliveryAttempts
=============================================================================
