---------------------------- MODULE BillingOrders ----------------------------
(***************************************************************************)
(* Billing orders of one organization: the owner's checkout requests       *)
(* (packages/bundle/registry-app/src/browser-api.ts), the provider's event *)
(* deliveries, and the transactions of PostgresRegistryTenancy             *)
(* (tenancy-postgres.ts) both are made of.                                 *)
(*                                                                         *)
(* A transaction locks the row or the key it decides on, so it is one      *)
(* step; it may also have committed when its caller hears of a failure, or *)
(* is gone.  The provider is external: it may make several checkouts for   *)
(* one order, and delivers an event until it is acknowledged, in any order *)
(* and as often as it likes.  One provider is configured; events for an    *)
(* order of another one are refused.                                       *)
(***************************************************************************)
EXTENDS Integers, FiniteSets

CONSTANTS
    Orders,      \* an order is named by its idempotency key
    Terms,       \* provider, plan, amount, currency and interval: what request_hash covers
    Checkouts,   \* identifiers the provider gives to its hosted checkouts
    Events,      \* [id, order, kind, at]: what the provider may have to say
    Requests,    \* checkout requests of the owner
    None

ASSUME BillingAssumption ==
    /\ \A e \in Events : e.order \in Orders /\ e.at \in Nat \ {0}
                         /\ e.kind \in {"failed", "expired", "paid", "disputed", "refunded"}
    /\ \A e, f \in Events : e.id = f.id => e = f
    /\ None \notin Checkouts

VARIABLES
    orders,         \* billing_orders: [Orders -> row]
    recorded,       \* billing_provider_events
    requests,       \* [Requests -> [pc, order, checkout]]
    answers,        \* <<order, checkout>> pairs requests were redirected to
    owner,          \* whether the member still is an active owner
    sessions,       \* provider: [Orders -> its checkouts]
    sent,           \* provider: events it delivers
    acknowledged    \* provider: events it was told are received

table == <<orders, recorded>>
provider == <<sessions, sent, acknowledged>>
vars == <<orders, recorded, requests, answers, owner, sessions, sent, acknowledged>>

(* BILLING_STATE_PRIORITY *)
Priority ==
    [creating |-> 0, pending |-> 1, failed |-> 2, expired |-> 3,
     paid |-> 4, disputed |-> 5, refunded |-> 6]

Settled == {"paid", "disputed", "refunded"}

(* A time of 0 is null. *)
NoRow == [state |-> "none", terms |-> None, checkout |-> None,
          paidAt |-> 0, refundedAt |-> 0, disputedAt |-> 0, lastEventAt |-> 0]

Least(a, b) == IF a = 0 \/ b < a THEN b ELSE a
Greatest(a, b) == IF b > a THEN b ELSE a
Coalesce(a, b) == IF a = 0 THEN b ELSE a

(* The CHECK constraints of billing_orders. *)
RowAllowed(row) ==
    /\ (row.paidAt # 0) <=> (row.state \in Settled)
    /\ row.refundedAt # 0 => row.state = "refunded"
    /\ row.disputedAt # 0 => row.paidAt # 0

---------------------------------------------------------------------------
(* The owner's checkout request. *)

Idle == [pc |-> "idle", order |-> None, checkout |-> None]
Pending == {"creating", "pending"}

(* A request goes on, or is cut off after what its step did. *)
Continues(q, next) ==
    requests' = [requests EXCEPT ![q] = next] \/ requests' = [requests EXCEPT ![q] = Idle]

(* reserveBillingOrder: the key names one order, under the terms it was     *)
(* first asked for; a settled order takes no further checkout.              *)
Reserve(q, o, terms) ==
    /\ requests[q] = Idle /\ owner
    /\ \/ /\ orders[o] = NoRow
          /\ orders' = [orders EXCEPT ![o] = [NoRow EXCEPT !.state = "creating", !.terms = terms]]
       \/ /\ orders[o].terms = terms /\ orders[o].state \in Pending
          /\ UNCHANGED orders
    /\ Continues(q, [pc |-> "checkout", order |-> o, checkout |-> None])
    /\ UNCHANGED <<recorded, answers, owner, provider>>

(* createCheckout, external: another checkout, or one the order has.        *)
CreateCheckout(q) ==
    LET o == requests[q].order IN
    /\ requests[q].pc = "checkout"
    /\ \E c \in Checkouts :
           /\ \A other \in Orders \ {o} : c \notin sessions[other]
           /\ sessions' = [sessions EXCEPT ![o] = @ \cup {c}]
           /\ Continues(q, [pc |-> "attach", order |-> o, checkout |-> c])
    /\ UNCHANGED <<table, answers, owner, sent, acknowledged>>

(* Mutant: the checkout made last takes the place of the attached one. *)
AttachLatest(q) ==
    LET o == requests[q].order
        c == requests[q].checkout
    IN
    /\ requests[q].pc = "attach"
    /\ orders' = [orders EXCEPT ![o].checkout = c,
                                ![o].state = IF @ = "creating" THEN "pending" ELSE @]
    /\ answers' = answers \cup {<<o, c>>}
    /\ requests' = [requests EXCEPT ![q] = Idle]
    /\ UNCHANGED <<recorded, owner, provider>>

(* attachBillingCheckout: the first checkout stays, whatever state an event *)
(* has brought the order to meanwhile.                                      *)
Attach(q) ==
    LET o == requests[q].order
        c == requests[q].checkout
    IN
    /\ requests[q].pc = "attach"
    /\ IF orders[o].checkout = None /\ \A other \in Orders : orders[other].checkout # c
       THEN orders' = [orders EXCEPT ![o].checkout = c,
                                     ![o].state = IF @ = "creating" THEN "pending" ELSE @]
       ELSE UNCHANGED orders
    /\ answers' \in {answers} \cup
                    (IF orders'[o].checkout = c THEN {answers \cup {<<o, c>>}} ELSE {})
    /\ requests' = [requests EXCEPT ![q] = Idle]
    /\ UNCHANGED <<recorded, owner, provider>>

---------------------------------------------------------------------------
(* The provider's events. *)

(* Mutant: the event delivered last sets the state. *)
StateAfterLatest(row, e) == e.kind

(* advancesBillingState *)
StateAfter(row, e) == IF Priority[e.kind] > Priority[row.state] THEN e.kind ELSE row.state

(* Mutant: only a payment event sets the time of payment. *)
PaidAtWhenPaid(row, e, state) == IF e.kind = "paid" THEN Least(row.paidAt, e.at) ELSE row.paidAt

PaidAtAfter(row, e, state) ==
    IF e.kind = "paid" THEN Least(row.paidAt, e.at)
    ELSE IF state \in Settled THEN Coalesce(row.paidAt, e.at)
    ELSE row.paidAt

Projected(row, e) ==
    LET state == StateAfter(row, e) IN
    [row EXCEPT !.state = state,
                !.paidAt = PaidAtAfter(row, e, state),
                !.refundedAt = IF e.kind = "refunded" THEN Least(@, e.at) ELSE @,
                !.disputedAt = IF e.kind = "disputed" THEN Least(@, e.at) ELSE @,
                !.lastEventAt = Greatest(@, e.at)]

(* applyVerifiedBillingEvent and the webhook's answer: the event is kept    *)
(* first, then projected, in one transaction that the table's checks may    *)
(* refuse; one kept already changes nothing.  The answer may be lost.       *)
Deliver(e) ==
    /\ e \in sent \ acknowledged
    /\ orders[e.order] # NoRow
    /\ IF e \in recorded THEN UNCHANGED table
       ELSE /\ RowAllowed(Projected(orders[e.order], e))
            /\ recorded' = recorded \cup {e}
            /\ orders' = [orders EXCEPT ![e.order] = Projected(@, e)]
    /\ acknowledged' \in {acknowledged, acknowledged \cup {e}}
    /\ UNCHANGED <<requests, answers, owner, sessions, sent>>

(* External: what happens to a checkout of the order becomes an event. *)
Happens(e) ==
    /\ sessions[e.order] # {} /\ e \notin sent
    /\ sent' = sent \cup {e}
    /\ UNCHANGED <<table, requests, answers, owner, sessions, acknowledged>>

(* The directory takes the ownership away, or gives it back. *)
OwnershipChanges ==
    /\ owner' = ~owner
    /\ UNCHANGED <<table, requests, answers, provider>>

---------------------------------------------------------------------------
Init ==
    /\ orders = [o \in Orders |-> NoRow] /\ recorded = {}
    /\ requests = [q \in Requests |-> Idle] /\ answers = {}
    /\ owner = TRUE
    /\ sessions = [o \in Orders |-> {}] /\ sent = {} /\ acknowledged = {}

Next ==
    \/ \E q \in Requests : \/ \E o \in Orders, terms \in Terms : Reserve(q, o, terms)
                           \/ CreateCheckout(q) \/ Attach(q)
    \/ \E e \in Events : Deliver(e) \/ Happens(e)
    \/ OwnershipChanges

(* The provider goes on delivering what was not acknowledged. *)
Spec == Init /\ [][Next]_vars /\ \A e \in Events : WF_vars(Deliver(e))
=============================================================================
