----------------------------- MODULE OrderLedger -----------------------------
(***************************************************************************)
(* What a billing order promises: its state and its times are a function   *)
(* of the checkout stage it reached and of the set of verified events it   *)
(* has kept, so neither the order of their arrival nor how often they      *)
(* arrive can matter, and a provider is told "received" only of an event   *)
(* that is kept.                                                           *)
(***************************************************************************)
EXTENDS Integers, FiniteSetsExt

CONSTANTS Orders,
          Events    \* [id, order, kind, at]

VARIABLES
    reserved,       \* the orders that exist
    attached,       \* those with a checkout at the provider
    ledger,         \* the events kept
    acknowledged,   \* the events the provider knows to be kept
    shown           \* [Orders -> what an order shows]

ledgerVars == <<reserved, attached, ledger, acknowledged, shown>>

(* BILLING_STATE_PRIORITY *)
Severity ==
    [creating |-> 0, pending |-> 1, failed |-> 2, expired |-> 3,
     paid |-> 4, disputed |-> 5, refunded |-> 6]

Earliest(times) == IF times = {} THEN 0 ELSE Min(times)
Latest(times) == IF times = {} THEN 0 ELSE Max(times)

Shows(o, hasCheckout, kept) ==
    LET of == {e \in kept : e.order = o}
        states == {e.kind : e \in of} \cup {IF hasCheckout THEN "pending" ELSE "creating"}
        At(kind) == {e.at : e \in {f \in of : f.kind = kind}}
    IN  [state |-> CHOOSE s \in states : \A other \in states : Severity[other] <= Severity[s],
         refundedAt |-> Earliest(At("refunded")),
         disputedAt |-> Earliest(At("disputed")),
         lastEventAt |-> Latest({e.at : e \in of})]

Unknown == [state |-> "none", refundedAt |-> 0, disputedAt |-> 0, lastEventAt |-> 0]

Init ==
    /\ reserved = {} /\ attached = {} /\ ledger = {} /\ acknowledged = {}
    /\ shown = [o \in Orders |-> Unknown]

Reserve(o) ==
    /\ o \notin reserved
    /\ reserved' = reserved \cup {o}
    /\ shown' = [shown EXCEPT ![o] = Shows(o, FALSE, {})]
    /\ UNCHANGED <<attached, ledger, acknowledged>>

Attach(o) ==
    /\ o \in reserved \ attached
    /\ attached' = attached \cup {o}
    /\ shown' = [shown EXCEPT ![o] = Shows(o, TRUE, ledger)]
    /\ UNCHANGED <<reserved, ledger, acknowledged>>

(* Kept once, and in the same step acknowledged or not. *)
Keep(e) ==
    /\ e.order \in reserved /\ e \notin ledger
    /\ ledger' = ledger \cup {e}
    /\ acknowledged' \in {acknowledged, acknowledged \cup {e}}
    /\ shown' = [shown EXCEPT ![e.order] = Shows(e.order, e.order \in attached, ledger')]
    /\ UNCHANGED <<reserved, attached>>

Acknowledge(e) ==
    /\ e \in ledger
    /\ acknowledged' = acknowledged \cup {e}
    /\ UNCHANGED <<reserved, attached, ledger, shown>>

Next ==
    \/ \E o \in Orders : Reserve(o) \/ Attach(o)
    \/ \E e \in Events : Keep(e) \/ Acknowledge(e)

Spec == Init /\ [][Next]_ledgerVars
=============================================================================
