--------------------------- MODULE MCBillingOrders ---------------------------
(* One order, asked for twice at the same time, is paid, refunded and        *)
(* disputed while one of its two checkouts expires.                          *)
EXTENDS BillingOrdersProperties

MCEvents ==
    {[id |-> 1, order |-> "k1", kind |-> "expired", at |-> 2],
     [id |-> 2, order |-> "k1", kind |-> "paid", at |-> 1],
     [id |-> 3, order |-> "k1", kind |-> "refunded", at |-> 3],
     [id |-> 4, order |-> "k1", kind |-> "disputed", at |-> 2]}
=============================================================================
