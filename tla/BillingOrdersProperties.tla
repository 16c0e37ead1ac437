----------------------- MODULE BillingOrdersProperties -----------------------
(***************************************************************************)
(* What must hold of billing orders.                                       *)
(***************************************************************************)
EXTENDS BillingOrders

Ledger == INSTANCE OrderLedger WITH
    reserved <- {o \in Orders : orders[o] # NoRow},
    attached <- {o \in Orders : orders[o].checkout # None},
    ledger <- recorded,
    shown <- [o \in Orders |-> [state |-> orders[o].state,
                                refundedAt |-> orders[o].refundedAt,
                                disputedAt |-> orders[o].disputedAt,
                                lastEventAt |-> orders[o].lastEventAt]]

(* Whatever the order in which events arrive, and however a checkout is     *)
(* attached between them, an order shows what its set of kept events        *)
(* determines: duplicates and late events neither set it back nor change a  *)
(* time, and only kept events are acknowledged (tenancy-postgres.ts:1612).  *)
ImplementsOrderLedger == Ledger!Spec

(* Everyone who asks for a checkout under one key, from several tabs or     *)
(* after a failure, is sent to the same one, whether or not the provider    *)
(* made another (attachBillingCheckout, tenancy-postgres.ts:1513).          *)
AnswersAgree ==
    \A first, second \in answers : first[1] = second[1] => first = second

(* Every event the provider goes on delivering is kept and acknowledged in  *)
(* the end: no order of arrival builds a row the table's own checks would   *)
(* refuse for ever (tenancy-postgres.ts:1615, CHECKs at 1966).              *)
EventsAreRecorded ==
    \A e \in Events : e \in sent ~> e \in acknowledged

=============================================================================
