-------------------------- MODULE BillingOrdersProofs --------------------------
(***************************************************************************)
(* Proofs, for any number of orders, checkouts and events, that an order's *)
(* row is a function of the events it has kept, that the table's checks    *)
(* never refuse an event, and that everyone is sent to one checkout.       *)
(***************************************************************************)
EXTENDS BillingOrdersProperties, TLAPS

Stages == {"creating", "pending", "failed", "expired", "paid", "disputed", "refunded"}

Row == [state : Stages \cup {"none"}, terms : Terms \cup {None}, checkout : Checkouts \cup {None},
        paidAt : Nat, refundedAt : Nat, disputedAt : Nat, lastEventAt : Nat]

Request == [pc : {"idle", "checkout", "attach"}, order : Orders \cup {None}, checkout : Checkouts \cup {None}]

TypeOK ==
    /\ orders \in [Orders -> Row]
    /\ recorded \subseteq Events
    /\ requests \in [Requests -> Request]
    /\ answers \subseteq Orders \X Checkouts

(* Requests under way are about orders that exist.                           *)
RequestsKnow ==
    \A q \in Requests :
        /\ requests[q].pc # "idle" => requests[q].order \in Orders /\ orders[requests[q].order] # NoRow
        /\ requests[q].pc = "attach" => requests[q].checkout \in Checkouts

(* The checkout somebody was sent to is the order's.                         *)
AnswersKept == \A a \in answers : orders[a[1]].checkout = a[2]

---------------------------------------------------------------------------
(* What a row is to the events it has kept. *)

Of(o) == {e \in recorded : e.order = o}
Times(o, kind) == {e.at : e \in {f \in Of(o) : f.kind = kind}}
Reached(o) == {e.kind : e \in Of(o)} \cup {IF orders[o].checkout # None THEN "pending" ELSE "creating"}

Furthest(s, S) == s \in S /\ \A other \in S : Priority[other] <= Priority[s]
First(t, T) == (T = {} /\ t = 0) \/ (t \in T /\ \A u \in T : t <= u)
Last(t, T) == (T = {} /\ t = 0) \/ (t \in T /\ \A u \in T : u <= t)

Accounts(o) ==
    LET row == orders[o] IN
    IF row = NoRow THEN Of(o) = {}
    ELSE /\ row.state \in Stages
         /\ Furthest(row.state, Reached(o))
         /\ First(row.refundedAt, Times(o, "refunded"))
         /\ First(row.disputedAt, Times(o, "disputed"))
         /\ Last(row.lastEventAt, {e.at : e \in Of(o)})

BillingInv ==
    /\ TypeOK /\ RequestsKnow /\ AnswersKept
    /\ \A o \in Orders : RowAllowed(orders[o])
    /\ \A o \in Orders : Accounts(o)

---------------------------------------------------------------------------
(* Rows *)

LEMMA EventFacts ==
    ASSUME NEW e \in Events
    PROVE  /\ e.order \in Orders /\ e.at \in Nat /\ e.at # 0
           /\ e.kind \in {"failed", "expired", "paid", "disputed", "refunded"}
BY BillingAssumption

LEMMA PriorityFacts ==
    /\ \A s \in Stages : Priority[s] \in Nat
    /\ \A s, t \in Stages : Priority[s] = Priority[t] => s = t
    /\ \A s \in Stages : s \in Settled <=> Priority[s] >= 4
    /\ \A s \in Stages : Priority[s] <= Priority["refunded"]
    /\ Priority["creating"] < Priority["pending"]
    /\ \A s \in Stages \ {"creating"} : Priority["pending"] <= Priority[s]
BY DEF Priority, Stages, Settled

LEMMA NoRowFacts ==
    /\ NoRow \in Row /\ NoRow.state = "none" /\ NoRow.checkout = None
    /\ NoRow.paidAt = 0 /\ NoRow.refundedAt = 0 /\ NoRow.disputedAt = 0 /\ NoRow.lastEventAt = 0
    /\ RowAllowed(NoRow)
BY DEF NoRow, Row, RowAllowed, Settled

(* The projection of an event, field by field.                               *)
LEMMA ProjectedFacts ==
    ASSUME NEW row \in Row, NEW e \in Events, row.state \in Stages
    PROVE  LET p == Projected(row, e) IN
           /\ p \in Row /\ p.state \in Stages /\ p.state = StateAfter(row, e)
           /\ p.paidAt = PaidAtAfter(row, e, StateAfter(row, e))
           /\ p.refundedAt = (IF e.kind = "refunded" THEN Least(row.refundedAt, e.at) ELSE row.refundedAt)
           /\ p.disputedAt = (IF e.kind = "disputed" THEN Least(row.disputedAt, e.at) ELSE row.disputedAt)
           /\ p.lastEventAt = Greatest(row.lastEventAt, e.at)
           /\ p.checkout = row.checkout
<1> DEFINE s == StateAfter(row, e)
           paid == PaidAtAfter(row, e, s)
           refunded == IF e.kind = "refunded" THEN Least(row.refundedAt, e.at) ELSE row.refundedAt
           disputed == IF e.kind = "disputed" THEN Least(row.disputedAt, e.at) ELSE row.disputedAt
           last == Greatest(row.lastEventAt, e.at)
<1>1. s \in Stages
    BY EventFacts DEF StateAfter, Stages
<1>2. /\ row.paidAt \in Nat /\ row.refundedAt \in Nat /\ row.disputedAt \in Nat /\ row.lastEventAt \in Nat
      /\ e.at \in Nat
    BY EventFacts DEF Row
<1>3. paid \in Nat /\ refunded \in Nat /\ disputed \in Nat /\ last \in Nat
    BY <1>2 DEF PaidAtAfter, Least, Greatest, Coalesce
<1>4. Projected(row, e) = [row EXCEPT !.state = s, !.paidAt = paid, !.refundedAt = refunded,
                                      !.disputedAt = disputed, !.lastEventAt = last]
    BY DEF Projected
<1> HIDE DEF s, paid, refunded, disputed, last
<1>5. /\ Projected(row, e) \in Row /\ Projected(row, e).state = s /\ Projected(row, e).paidAt = paid
      /\ Projected(row, e).refundedAt = refunded /\ Projected(row, e).disputedAt = disputed
      /\ Projected(row, e).lastEventAt = last /\ Projected(row, e).checkout = row.checkout
    BY <1>1, <1>3, <1>4 DEF Row, Stages
<1> QED BY <1>1, <1>5 DEF s, paid, refunded, disputed, last

(* No event makes a row the table would refuse.                              *)
LEMMA ProjectedAllowed ==
    ASSUME NEW row \in Row, NEW e \in Events, row.state \in Stages, RowAllowed(row)
    PROVE  RowAllowed(Projected(row, e))
<1> DEFINE p == Projected(row, e)
<1>1. /\ p.state = StateAfter(row, e) /\ p.state \in Stages
      /\ p.paidAt = PaidAtAfter(row, e, StateAfter(row, e))
      /\ p.refundedAt = (IF e.kind = "refunded" THEN Least(row.refundedAt, e.at) ELSE row.refundedAt)
      /\ p.disputedAt = (IF e.kind = "disputed" THEN Least(row.disputedAt, e.at) ELSE row.disputedAt)
    BY ProjectedFacts
<1>2. /\ row.paidAt \in Nat /\ e.at \in Nat /\ e.at # 0
      /\ e.kind \in {"failed", "expired", "paid", "disputed", "refunded"}
    BY EventFacts DEF Row
<1> HIDE DEF p
<1>3. \A s \in Stages : s \in Settled <=> s \in {"paid", "disputed", "refunded"}
    BY DEF Settled
<1>4. (p.paidAt # 0) <=> (p.state \in Settled)
    <2>1. CASE e.kind \in {"paid", "disputed", "refunded"}
        <3>1. p.state \in Settled
            BY <1>1, <2>1 DEF StateAfter, Priority, Stages, Settled
        <3>2. p.paidAt # 0
            BY <1>1, <1>2, <2>1, <3>1 DEF PaidAtAfter, Least, Coalesce
        <3> QED BY <3>1, <3>2
    <2>2. CASE e.kind \in {"failed", "expired"}
        <3>1. p.state \in Settled <=> row.state \in Settled
            BY <1>1, <2>2 DEF StateAfter, Priority, Stages, Settled
        <3>2. p.paidAt # 0 <=> row.paidAt # 0 \/ p.state \in Settled
            BY <1>1, <1>2, <2>2 DEF PaidAtAfter, Coalesce
        <3> QED BY <3>1, <3>2 DEF RowAllowed
    <2> QED BY <1>2, <2>1, <2>2
<1>5. p.refundedAt # 0 => p.state = "refunded"
    <2>1. CASE e.kind = "refunded"
        BY <1>1, <2>1 DEF StateAfter, Priority, Stages
    <2>2. CASE e.kind # "refunded"
        BY <1>1, <1>2, <2>2 DEF StateAfter, Priority, Stages, RowAllowed
    <2> QED BY <2>1, <2>2
<1>6. p.disputedAt # 0 => p.paidAt # 0
    <2>1. CASE e.kind = "disputed"
        <3>1. p.state \in Settled
            BY <1>1, <2>1 DEF StateAfter, Priority, Stages, Settled
        <3> QED BY <1>4, <3>1
    <2>2. CASE e.kind # "disputed"
        <3>1. row.disputedAt # 0 => row.state \in Settled
            BY DEF RowAllowed
        <3>2. row.state \in Settled => p.state \in Settled
            BY <1>1, <1>2 DEF StateAfter, Priority, Stages, Settled
        <3> QED BY <1>1, <1>4, <2>2, <3>1, <3>2
    <2> QED BY <2>1, <2>2
<1> QED BY <1>4, <1>5, <1>6 DEF RowAllowed, p

---------------------------------------------------------------------------
(* One more time among those seen.                                           *)
LEMMA LeastFirst ==
    ASSUME NEW t \in Nat, NEW a \in Nat, a # 0, NEW T, \A u \in T : u \in Nat /\ u # 0, First(t, T)
    PROVE  First(Least(t, a), T \cup {a})
<1>1. CASE t = 0
    <2>1. T = {}
        BY <1>1 DEF First
    <2> QED BY <1>1, <2>1 DEF First, Least
<1>2. CASE t # 0
    <2>1. t \in T /\ \A u \in T : t <= u
        BY <1>2 DEF First
    <2>2. CASE a < t
        <3>1. Least(t, a) = a /\ \A u \in T \cup {a} : a <= u
            BY <2>1, <2>2 DEF Least
        <3> QED BY <3>1 DEF First
    <2>3. CASE ~(a < t)
        <3>1. Least(t, a) = t /\ \A u \in T \cup {a} : t <= u
            BY <1>2, <2>1, <2>3 DEF Least
        <3> QED BY <2>1, <3>1 DEF First
    <2> QED BY <2>2, <2>3
<1> QED BY <1>1, <1>2

LEMMA GreatestLast ==
    ASSUME NEW t \in Nat, NEW a \in Nat, NEW T, \A u \in T : u \in Nat, Last(t, T)
    PROVE  Last(Greatest(t, a), T \cup {a})
<1>1. CASE a > t
    <2>1. Greatest(t, a) = a /\ \A u \in T \cup {a} : u <= a
        BY <1>1 DEF Greatest, Last
    <2> QED BY <2>1 DEF Last
<1>2. CASE ~(a > t)
    <2>1. Greatest(t, a) = t /\ \A u \in T \cup {a} : u <= t
        BY <1>2 DEF Greatest, Last
    <2>2. t \in T \cup {a}
        <3>1. CASE T = {}
            BY <1>2, <3>1 DEF Last
        <3>2. CASE T # {}
            BY <3>2 DEF Last
        <3> QED BY <3>1, <3>2
    <2> QED BY <2>1, <2>2 DEF Last
<1> QED BY <1>1, <1>2

---------------------------------------------------------------------------
(* The steps *)

(* The projection accounts for one more event.                               *)
LEMMA KeepAccounts ==
    ASSUME BillingInv, NEW e \in Events \ recorded, orders[e.order] # NoRow,
           recorded' = recorded \cup {e},
           orders' = [orders EXCEPT ![e.order] = Projected(@, e)]
    PROVE  /\ orders' \in [Orders -> Row] /\ \A o \in Orders : orders'[o].checkout = orders[o].checkout
           /\ \A o \in Orders : (orders'[o] = NoRow) <=> (orders[o] = NoRow)
           /\ \A o \in Orders : Accounts(o)'
<1> DEFINE o == e.order
           row == orders[o]
           new == Projected(row, e)
<1>1. /\ o \in Orders /\ row \in Row /\ row # NoRow /\ row.state \in Stages /\ Accounts(o)
      /\ e.kind \in {"failed", "expired", "paid", "disputed", "refunded"} /\ e.at \in Nat /\ e.at # 0
    BY EventFacts DEF BillingInv, TypeOK, Accounts
<1>2. /\ new \in Row /\ new.state \in Stages /\ new.state = StateAfter(row, e)
      /\ new.refundedAt = (IF e.kind = "refunded" THEN Least(row.refundedAt, e.at) ELSE row.refundedAt)
      /\ new.disputedAt = (IF e.kind = "disputed" THEN Least(row.disputedAt, e.at) ELSE row.disputedAt)
      /\ new.lastEventAt = Greatest(row.lastEventAt, e.at)
      /\ new.checkout = row.checkout
    BY <1>1, ProjectedFacts
<1>3. new # NoRow
    BY <1>2, NoRowFacts DEF Stages
<1>4. orders' = [orders EXCEPT ![o] = new]
    OBVIOUS
<1>5. row \in Row /\ row = orders[o]
    BY <1>1
<1> HIDE DEF new, row
<1>6. /\ orders' \in [Orders -> Row] /\ orders'[o] = new
      /\ \A p \in Orders \ {o} : orders'[p] = orders[p]
    BY <1>1, <1>2, <1>4 DEF BillingInv, TypeOK
<1> HIDE DEF o
<1>7. \A p \in Orders : orders'[p].checkout = orders[p].checkout /\ ((orders'[p] = NoRow) <=> (orders[p] = NoRow))
    BY <1>1, <1>2, <1>3, <1>5, <1>6
<1>8. /\ Of(o)' = Of(o) \cup {e}
      /\ \A p \in Orders \ {o} : Of(p)' = Of(p)
    BY DEF Of, o
<1>9. ASSUME NEW p \in Orders \ {o} PROVE Accounts(p)'
    <2>1. Accounts(p) /\ orders'[p] = orders[p] /\ Of(p)' = Of(p)
        BY <1>6, <1>8 DEF BillingInv
    <2> QED BY <2>1 DEF Accounts, Reached, Times
<1>10. Accounts(o)'
    <2>1. Of(o) = {f \in recorded : f.order = o} /\ Of(o) \subseteq Events
        BY DEF Of, BillingInv, TypeOK
    <2>2. \A f \in Of(o) : f.at \in Nat
        BY <2>1, EventFacts
    <2>3. /\ Furthest(row.state, Reached(o))
          /\ First(row.refundedAt, Times(o, "refunded"))
          /\ First(row.disputedAt, Times(o, "disputed"))
          /\ Last(row.lastEventAt, {f.at : f \in Of(o)})
        BY <1>1, <1>5 DEF Accounts
    <2>4. Reached(o)' = Reached(o) \cup {e.kind}
        BY <1>2, <1>5, <1>6, <1>8 DEF Reached
    <2>5. Reached(o) \subseteq Stages
        BY <2>1, EventFacts DEF Reached, Stages
    <2>6. Furthest(new.state, Reached(o)')
        <3>1. Priority[e.kind] \in Nat /\ Priority[row.state] \in Nat
              /\ \A s \in Reached(o) : Priority[s] \in Nat
            BY <1>1, <2>5, PriorityFacts DEF Stages
        <3> QED BY <1>2, <2>3, <2>4, <3>1 DEF Furthest, StateAfter
    <2>7. ASSUME NEW kind \in {"refunded", "disputed"}, NEW t \in Nat, First(t, Times(o, kind))
          PROVE  First(IF e.kind = kind THEN Least(t, e.at) ELSE t, Times(o, kind)')
        <3>1. Times(o, kind)' = IF e.kind = kind THEN Times(o, kind) \cup {e.at} ELSE Times(o, kind)
            BY <1>8 DEF Times
        <3>3. CASE e.kind # kind
            BY <2>7, <3>1, <3>3
        <3>4. CASE e.kind = kind
            <4>1. Times(o, kind)' = Times(o, kind) \cup {e.at}
                BY <3>1, <3>4
            <4>2. \A u \in Times(o, kind) : u \in Nat /\ u # 0
                BY <2>1, EventFacts DEF Times
            <4>3. First(Least(t, e.at), Times(o, kind)')
                BY <1>1, <2>7, <4>1, <4>2, LeastFirst
            <4> QED BY <3>4, <4>3
        <3> QED BY <3>3, <3>4
    <2>8. row.refundedAt \in Nat /\ row.disputedAt \in Nat /\ row.lastEventAt \in Nat
        BY <1>5 DEF Row
    <2>9. First(new.refundedAt, Times(o, "refunded")') /\ First(new.disputedAt, Times(o, "disputed")')
        BY <1>2, <2>3, <2>7, <2>8
    <2>10. Last(new.lastEventAt, {f.at : f \in Of(o)'})
        <3>1. {f.at : f \in Of(o)'} = {f.at : f \in Of(o)} \cup {e.at}
            BY <1>8
        <3>2. \A u \in {f.at : f \in Of(o)} : u \in Nat
            BY <2>2
        <3> QED BY <1>1, <1>2, <2>3, <2>8, <3>1, <3>2, GreatestLast
    <2> QED BY <1>2, <1>3, <1>6, <2>6, <2>9, <2>10 DEF Accounts, Reached, Times
<1> QED BY <1>6, <1>7, <1>9, <1>10

LEMMA IdleType == Idle \in Request /\ Idle.pc = "idle"
BY DEF Idle, Request

(* Nothing but requests moves.                                               *)
LEMMA RequestMoves ==
    ASSUME BillingInv, NEW q \in Requests, NEW next \in Request,
           requests' \in {[requests EXCEPT ![q] = next], [requests EXCEPT ![q] = Idle]},
           next.pc # "idle" => next.order \in Orders /\ orders[next.order] # NoRow,
           next.pc = "attach" => next.checkout \in Checkouts,
           UNCHANGED <<orders, recorded, answers>>
    PROVE  BillingInv'
<1>1. TypeOK'
    BY IdleType DEF BillingInv, TypeOK
<1>2. RequestsKnow'
    <2>1. \A p \in Requests : requests'[p] \in {requests[p], next, Idle}
        BY DEF BillingInv, TypeOK
    <2> QED BY <2>1, IdleType DEF BillingInv, RequestsKnow
<1>3. \A o \in Orders : Accounts(o)'
    BY DEF BillingInv, Accounts, Reached, Of, Times
<1> QED BY <1>1, <1>2, <1>3 DEF BillingInv, AnswersKept

(* A new order.                                                              *)
LEMMA ReserveStep ==
    ASSUME BillingInv, NEW q \in Requests, NEW o \in Orders, NEW terms \in Terms, Reserve(q, o, terms)
    PROVE  BillingInv'
<1> DEFINE next == [pc |-> "checkout", order |-> o, checkout |-> None]
           row == [NoRow EXCEPT !.state = "creating", !.terms = terms]
<1>1. next \in Request /\ next.pc = "checkout" /\ next.order = o
    BY DEF Request
<1>2. /\ row \in Row /\ row.state = "creating" /\ row.checkout = None /\ row # NoRow
      /\ row.paidAt = 0 /\ row.refundedAt = 0 /\ row.disputedAt = 0 /\ row.lastEventAt = 0
    BY NoRowFacts DEF Row, Stages
<1>3. /\ requests' \in {[requests EXCEPT ![q] = next], [requests EXCEPT ![q] = Idle]}
      /\ UNCHANGED <<recorded, answers>>
    BY DEF Reserve, Continues
<1> HIDE DEF next, row
<1>4. CASE UNCHANGED orders /\ orders[o].state \in Pending
    <2>1. orders[o] # NoRow
        BY <1>4, NoRowFacts DEF Pending
    <2> QED BY <1>1, <1>3, <1>4, <2>1, RequestMoves
<1>5. CASE orders[o] = NoRow /\ orders' = [orders EXCEPT ![o] = row]
    <2>1. /\ orders' \in [Orders -> Row] /\ orders'[o] = row
          /\ \A p \in Orders \ {o} : orders'[p] = orders[p]
        BY <1>2, <1>5 DEF BillingInv, TypeOK
    <2>2. TypeOK'
        BY <1>1, <1>3, <2>1, IdleType DEF BillingInv, TypeOK
    <2>3. RequestsKnow'
        <3>1. \A p \in Requests : requests'[p] \in {requests[p], next, Idle}
            BY <1>3 DEF BillingInv, TypeOK
        <3> QED BY <1>1, <1>2, <2>1, <3>1, IdleType DEF BillingInv, RequestsKnow
    <2>4. AnswersKept'
        <3>1. ASSUME NEW a \in answers PROVE orders'[a[1]].checkout = a[2]
            <4>1. a[1] \in Orders /\ a[2] \in Checkouts /\ orders[a[1]].checkout = a[2]
                BY DEF BillingInv, TypeOK, AnswersKept
            <4>2. a[1] # o
                BY <1>5, <4>1, NoRowFacts, BillingAssumption
            <4> QED BY <2>1, <4>1, <4>2
        <3> QED BY <1>3, <3>1 DEF AnswersKept
    <2>5. \A p \in Orders : RowAllowed(orders'[p])
        <3>1. RowAllowed(row)
            BY <1>2 DEF RowAllowed, Settled
        <3> QED BY <2>1, <3>1 DEF BillingInv
    <2>6. ASSUME NEW p \in Orders PROVE Accounts(p)'
        <3>1. Accounts(p) /\ Of(p)' = Of(p)
            BY <1>3 DEF BillingInv, Of
        <3>2. CASE p # o
            BY <2>1, <3>1, <3>2 DEF Accounts, Reached, Times
        <3>3. CASE p = o
            <4>1. Of(o)' = {}
                BY <1>5, <3>1, <3>3 DEF Accounts
            <4>2. Reached(o)' = {"creating"}
                BY <1>2, <2>1, <4>1 DEF Reached
            <4>3. Furthest(row.state, Reached(o)')
                BY <1>2, <4>2 DEF Furthest, Priority
            <4> QED BY <1>2, <2>1, <3>3, <4>1, <4>3 DEF Accounts, Times, First, Last, Stages
        <3> QED BY <3>2, <3>3
    <2> QED BY <2>2, <2>3, <2>4, <2>5, <2>6 DEF BillingInv
<1> QED BY <1>4, <1>5 DEF Reserve, row, next

(* The first checkout is attached, whatever stage events brought the order   *)
(* to.                                                                       *)
LEMMA AttachStep ==
    ASSUME BillingInv, NEW q \in Requests, Attach(q)
    PROVE  BillingInv'
<1> DEFINE o == requests[q].order
           c == requests[q].checkout
           stage == IF orders[o].state = "creating" THEN "pending" ELSE orders[o].state
           row == [orders[o] EXCEPT !.checkout = c, !.state = stage]
<1>1. /\ o \in Orders /\ c \in Checkouts /\ orders[o] # NoRow /\ orders[o] \in Row
      /\ orders[o].state \in Stages /\ Accounts(o) /\ RowAllowed(orders[o])
    BY DEF Attach, BillingInv, RequestsKnow, Accounts, TypeOK
<1>2. /\ requests' = [requests EXCEPT ![q] = Idle] /\ UNCHANGED recorded
      /\ answers' \in {answers, answers \cup {<<o, c>>}}
      /\ answers' # answers => orders'[o].checkout = c
    BY DEF Attach
<1>3. orders' = orders \/ (orders[o].checkout = None /\ orders' = [orders EXCEPT ![o] = row])
    BY <1>1 DEF Attach, BillingInv, TypeOK
<1>4. /\ row \in Row /\ row.state = stage /\ row.checkout = c /\ row # NoRow
      /\ row.paidAt = orders[o].paidAt /\ row.refundedAt = orders[o].refundedAt
      /\ row.disputedAt = orders[o].disputedAt /\ row.lastEventAt = orders[o].lastEventAt
    BY <1>1, NoRowFacts DEF Row, Stages
<1>5. stage \in Stages /\ stage # "creating"
    BY <1>1 DEF Stages
<1> HIDE DEF row
<1>6. /\ orders' \in [Orders -> Row] /\ \A p \in Orders \ {o} : orders'[p] = orders[p]
      /\ orders'[o] \in {orders[o], row}
    BY <1>1, <1>3, <1>4 DEF BillingInv, TypeOK
<1> HIDE DEF o, c
<1>7. TypeOK'
    BY <1>1, <1>2, <1>6, IdleType DEF BillingInv, TypeOK
<1>8. RequestsKnow'
    <2>1. \A p \in Requests : requests'[p] \in {requests[p], Idle}
        BY <1>2 DEF BillingInv, TypeOK
    <2> QED BY <1>1, <1>4, <1>6, <2>1, IdleType DEF BillingInv, RequestsKnow
<1>9. AnswersKept'
    <2>1. ASSUME NEW a \in answers PROVE orders'[a[1]].checkout = a[2]
        <3>1. a[1] \in Orders /\ a[2] \in Checkouts /\ orders[a[1]].checkout = a[2]
            BY DEF BillingInv, TypeOK, AnswersKept
        <3>2. a[2] # None
            BY <3>1, BillingAssumption
        <3> QED BY <1>3, <1>6, <3>1, <3>2
    <2>2. CASE answers' = answers
        BY <2>1, <2>2 DEF AnswersKept
    <2>3. CASE answers' # answers
        BY <1>2, <2>1, <2>3 DEF AnswersKept
    <2> QED BY <2>2, <2>3
<1>10. \A p \in Orders : RowAllowed(orders'[p])
    <2>1. RowAllowed(row)
        BY <1>1, <1>4 DEF RowAllowed, Settled
    <2> QED BY <1>6, <2>1 DEF BillingInv
<1>11. ASSUME NEW p \in Orders PROVE Accounts(p)'
    <2>1. Accounts(p) /\ Of(p)' = Of(p)
        BY <1>2 DEF BillingInv, Of
    <2>2. CASE orders'[p] = orders[p]
        BY <2>1, <2>2 DEF Accounts, Reached, Times
    <2>3. CASE orders'[p] # orders[p]
        <3>1. /\ p = o /\ orders'[p] = row /\ orders[p].checkout = None
              /\ orders[p] # NoRow /\ orders[p].state \in Stages
            BY <1>1, <1>3, <1>6, <2>3
        <3>2. Furthest(row.state, Reached(p)')
            <4>1. Reached(p)' = {e.kind : e \in Of(p)} \cup {"pending"}
                BY <1>1, <1>4, <2>1, <3>1, BillingAssumption DEF Reached
            <4>2. Reached(p) = {e.kind : e \in Of(p)} \cup {"creating"}
                BY <3>1 DEF Reached
            <4>3. Furthest(orders[p].state, Reached(p))
                BY <2>1, <3>1 DEF Accounts
            <4>4. {e.kind : e \in Of(p)} \subseteq Stages \ {"creating", "pending"}
                BY EventFacts DEF Of, BillingInv, TypeOK, Stages
            <4>5. CASE orders[p].state = "creating"
                <5>1. {e.kind : e \in Of(p)} = {}
                    <6>1. \A s \in Stages \ {"creating"} : ~(Priority[s] <= Priority["creating"])
                        BY DEF Stages, Priority
                    <6> QED BY <4>2, <4>3, <4>4, <4>5, <6>1 DEF Furthest
                <5> QED BY <1>4, <3>1, <4>1, <4>5, <5>1, PriorityFacts DEF Furthest, Stages
            <4>6. CASE orders[p].state # "creating"
                BY <1>4, <3>1, <4>1, <4>2, <4>3, <4>6, PriorityFacts DEF Furthest, Stages
            <4> QED BY <4>5, <4>6
        <3> QED BY <1>1, <1>4, <1>5, <2>1, <3>1, <3>2 DEF Accounts, Times
    <2> QED BY <2>2, <2>3
<1> QED BY <1>7, <1>8, <1>9, <1>10, <1>11 DEF BillingInv

LEMMA DeliverStep ==
    ASSUME BillingInv, NEW e \in Events, Deliver(e)
    PROVE  BillingInv'
<1>1. UNCHANGED <<requests, answers>>
    BY DEF Deliver
<1>2. CASE UNCHANGED table
    BY <1>1, <1>2 DEF table, BillingInv, TypeOK, RequestsKnow, AnswersKept, Accounts, Reached, Of, Times
<1>3. CASE /\ e \notin recorded /\ recorded' = recorded \cup {e}
           /\ orders' = [orders EXCEPT ![e.order] = Projected(@, e)]
    <2>1. orders[e.order] # NoRow /\ RowAllowed(Projected(orders[e.order], e))
        BY <1>3 DEF Deliver, table
    <2>2. /\ orders' \in [Orders -> Row] /\ \A o \in Orders : orders'[o].checkout = orders[o].checkout
          /\ \A o \in Orders : (orders'[o] = NoRow) <=> (orders[o] = NoRow)
          /\ \A o \in Orders : Accounts(o)'
        BY <1>3, <2>1, KeepAccounts
    <2>3. \A o \in Orders : RowAllowed(orders'[o])
        BY <1>3, <2>1 DEF BillingInv, TypeOK
    <2>4. TypeOK' /\ RequestsKnow'
        BY <1>1, <1>3, <2>2 DEF BillingInv, TypeOK, RequestsKnow
    <2>5. AnswersKept'
        BY <1>1, <2>2 DEF BillingInv, TypeOK, AnswersKept
    <2> QED BY <2>2, <2>3, <2>4, <2>5 DEF BillingInv
<1> QED BY <1>2, <1>3 DEF Deliver

LEMMA BillingInit == Init => BillingInv
<1> SUFFICES ASSUME Init PROVE BillingInv
    OBVIOUS
<1>1. TypeOK
    BY NoRowFacts, IdleType DEF Init, TypeOK
<1>2. \A o \in Orders : orders[o] = NoRow
    BY DEF Init
<1>3. \A o \in Orders : Accounts(o)
    BY <1>2 DEF Init, Accounts, Of
<1> QED BY <1>1, <1>2, <1>3, NoRowFacts, IdleType DEF BillingInv, RequestsKnow, AnswersKept, Init

LEMMA BillingStep == BillingInv /\ [Next]_vars => BillingInv'
<1> SUFFICES ASSUME BillingInv, [Next]_vars PROVE BillingInv'
    OBVIOUS
<1>1. ASSUME NEW q \in Requests, NEW o \in Orders, NEW terms \in Terms, Reserve(q, o, terms)
      PROVE  BillingInv'
    BY <1>1, ReserveStep
<1>2. ASSUME NEW q \in Requests, CreateCheckout(q) PROVE BillingInv'
    <2>1. PICK c \in Checkouts :
              Continues(q, [pc |-> "attach", order |-> requests[q].order, checkout |-> c])
        BY <1>2 DEF CreateCheckout
    <2> DEFINE next == [pc |-> "attach", order |-> requests[q].order, checkout |-> c]
    <2>2. /\ requests[q].order \in Orders /\ orders[requests[q].order] # NoRow
          /\ UNCHANGED <<orders, recorded, answers>>
        BY <1>2 DEF CreateCheckout, BillingInv, RequestsKnow, table
    <2>3. next \in Request /\ next.pc = "attach" /\ next.checkout = c /\ next.order = requests[q].order
        BY <2>2 DEF Request
    <2>4. requests' \in {[requests EXCEPT ![q] = next], [requests EXCEPT ![q] = Idle]}
        BY <2>1 DEF Continues
    <2> HIDE DEF next
    <2> QED BY <2>2, <2>3, <2>4, RequestMoves
<1>3. ASSUME NEW q \in Requests, Attach(q) PROVE BillingInv'
    BY <1>3, AttachStep
<1>4. ASSUME NEW e \in Events, Deliver(e) PROVE BillingInv'
    BY <1>4, DeliverStep
<1>5. CASE UNCHANGED <<orders, recorded, requests, answers>>
    BY <1>5 DEF BillingInv, TypeOK, RequestsKnow, AnswersKept, Accounts, Reached, Of, Times
<1> QED BY <1>1, <1>2, <1>3, <1>4, <1>5 DEF Next, Happens, OwnershipChanges, table, provider, vars

---------------------------------------------------------------------------
(* The ledger *)

LEMMA SeverityIsPriority == Ledger!Severity = Priority
BY DEF Ledger!Severity, Priority

LEMMA EarliestIsFirst ==
    ASSUME NEW T, \A u \in T : u \in Nat, NEW t, First(t, T)
    PROVE  Ledger!Earliest(T) = t
<1>1. CASE T = {}
    BY <1>1 DEF First, Ledger!Earliest
<1>2. CASE T # {}
    <2>1. t \in T /\ \A u \in T : t <= u
        BY <1>2 DEF First
    <2>2. ASSUME NEW m \in T, \A u \in T : m <= u PROVE m = t
        BY <2>1, <2>2
    <2>3. (CHOOSE m \in T : \A u \in T : m <= u) = t
        BY <2>1, <2>2
    <2> QED BY <1>2, <2>3 DEF Ledger!Earliest, Ledger!Min
<1> QED BY <1>1, <1>2

LEMMA LatestIsLast ==
    ASSUME NEW T, \A u \in T : u \in Nat, NEW t, Last(t, T)
    PROVE  Ledger!Latest(T) = t
<1>1. CASE T = {}
    BY <1>1 DEF Last, Ledger!Latest
<1>2. CASE T # {}
    <2>1. t \in T /\ \A u \in T : u <= t
        BY <1>2 DEF Last
    <2>2. ASSUME NEW m \in T, \A u \in T : m >= u PROVE m = t
        BY <2>1, <2>2
    <2>3. (CHOOSE m \in T : \A u \in T : m >= u) = t
        BY <2>1, <2>2
    <2> QED BY <1>2, <2>3 DEF Ledger!Latest, Ledger!Max
<1> QED BY <1>1, <1>2

(* What an order shows is what the ledger computes.                          *)
LEMMA ShowsFacts ==
    ASSUME NEW o, NEW kept \in SUBSET Events, NEW attached \in BOOLEAN, NEW s, NEW r, NEW d, NEW l,
           Furthest(s, {e.kind : e \in {f \in kept : f.order = o}}
                           \cup {IF attached THEN "pending" ELSE "creating"}),
           First(r, {e.at : e \in {f \in {g \in kept : g.order = o} : f.kind = "refunded"}}),
           First(d, {e.at : e \in {f \in {g \in kept : g.order = o} : f.kind = "disputed"}}),
           Last(l, {e.at : e \in {f \in kept : f.order = o}})
    PROVE  Ledger!Shows(o, attached, kept) =
               [state |-> s, refundedAt |-> r, disputedAt |-> d, lastEventAt |-> l]
<1> DEFINE of == {f \in kept : f.order = o}
           states == {e.kind : e \in of} \cup {IF attached THEN "pending" ELSE "creating"}
           At(kind) == {e.at : e \in {f \in of : f.kind = kind}}
<1>1. \A e \in of : e.at \in Nat /\ e.kind \in Stages
    BY EventFacts DEF Stages
<1>2. states \subseteq Stages
    BY <1>1 DEF Stages
<1>3. (CHOOSE x \in states : \A other \in states : Ledger!Severity[other] <= Ledger!Severity[x]) = s
    <2>1. s \in states /\ \A other \in states : Priority[other] <= Priority[s]
        BY DEF Furthest
    <2>2. ASSUME NEW x \in states, \A other \in states : Priority[other] <= Priority[x] PROVE x = s
        <3>1. x \in Stages /\ s \in Stages /\ Priority[x] \in Nat /\ Priority[s] \in Nat
            BY <1>2, <2>1, PriorityFacts
        <3>2. Priority[x] = Priority[s]
            BY <2>1, <2>2, <3>1
        <3> QED BY <3>1, <3>2, PriorityFacts
    <2> HIDE DEF states
    <2> QED BY <2>1, <2>2, SeverityIsPriority
<1>4. Ledger!Earliest(At("refunded")) = r
    BY <1>1, EarliestIsFirst
<1>5. Ledger!Earliest(At("disputed")) = d
    BY <1>1, EarliestIsFirst
<1>6. Ledger!Latest({e.at : e \in of}) = l
    BY <1>1, LatestIsLast
<1>7. Ledger!Shows(o, attached, kept) =
          [state |-> CHOOSE x \in states : \A other \in states : Ledger!Severity[other] <= Ledger!Severity[x],
           refundedAt |-> Ledger!Earliest(At("refunded")),
           disputedAt |-> Ledger!Earliest(At("disputed")),
           lastEventAt |-> Ledger!Latest({e.at : e \in of})]
    BY DEF Ledger!Shows
<1> QED BY <1>3, <1>4, <1>5, <1>6, <1>7

Showing == [o \in Orders |-> [state |-> orders[o].state, refundedAt |-> orders[o].refundedAt,
                             disputedAt |-> orders[o].disputedAt, lastEventAt |-> orders[o].lastEventAt]]
Existing == {o \in Orders : orders[o] # NoRow}
Attached == {o \in Orders : orders[o].checkout # None}

(* After a step that touches one order, what that order shows.               *)
LEMMA ShowingAfter ==
    ASSUME BillingInv', NEW o \in Orders, orders'[o] # NoRow,
           \A p \in Orders \ {o} : orders'[p] = orders[p]
    PROVE  Showing' = [Showing EXCEPT ![o] = Ledger!Shows(o, orders'[o].checkout # None, recorded')]
<1> DEFINE row == orders'[o]
           attached == row.checkout # None
           new == [state |-> row.state, refundedAt |-> row.refundedAt,
                   disputedAt |-> row.disputedAt, lastEventAt |-> row.lastEventAt]
<1>1. Accounts(o)' /\ recorded' \in SUBSET Events
    BY DEF BillingInv, TypeOK
<1>2. attached \in BOOLEAN
    OBVIOUS
<1>3. /\ Furthest(row.state, {e.kind : e \in {f \in recorded' : f.order = o}}
                                 \cup {IF attached THEN "pending" ELSE "creating"})
      /\ First(row.refundedAt, {e.at : e \in {f \in {g \in recorded' : g.order = o} : f.kind = "refunded"}})
      /\ First(row.disputedAt, {e.at : e \in {f \in {g \in recorded' : g.order = o} : f.kind = "disputed"}})
      /\ Last(row.lastEventAt, {e.at : e \in {f \in recorded' : f.order = o}})
    BY <1>1 DEF Accounts, Reached, Times, Of
<1> HIDE DEF attached
<1>4. Ledger!Shows(o, attached, recorded') = new
    BY <1>1, <1>2, <1>3, ShowsFacts
<1>5. Showing' = [Showing EXCEPT ![o] = new]
    BY DEF Showing
<1> QED BY <1>4, <1>5 DEF attached

LEMMA LedgerInit == Init => Ledger!Init
BY NoRowFacts DEF Init, Ledger!Init, Ledger!Unknown

LEMMA LedgerStep == BillingInv /\ BillingInv' /\ [Next]_vars => [Ledger!Next]_(Ledger!ledgerVars)
<1> SUFFICES ASSUME BillingInv, BillingInv', [Next]_vars PROVE [Ledger!Next]_(Ledger!ledgerVars)
    OBVIOUS
<1>1. SUFFICES \/ \E o \in Orders :
                     /\ o \notin Existing /\ Existing' = Existing \cup {o}
                     /\ Showing' = [Showing EXCEPT ![o] = Ledger!Shows(o, FALSE, {})]
                     /\ Attached' = Attached /\ UNCHANGED <<recorded, acknowledged>>
               \/ \E o \in Orders :
                     /\ o \in Existing \ Attached /\ Attached' = Attached \cup {o}
                     /\ Showing' = [Showing EXCEPT ![o] = Ledger!Shows(o, TRUE, recorded)]
                     /\ Existing' = Existing /\ UNCHANGED <<recorded, acknowledged>>
               \/ \E e \in Events :
                     /\ e.order \in Existing /\ e \notin recorded
                     /\ recorded' = recorded \cup {e}
                     /\ acknowledged' \in {acknowledged, acknowledged \cup {e}}
                     /\ Showing' = [Showing EXCEPT ![e.order] =
                                       Ledger!Shows(e.order, e.order \in Attached, recorded')]
                     /\ Existing' = Existing /\ Attached' = Attached
               \/ \E e \in Events :
                     /\ e \in recorded /\ acknowledged' = acknowledged \cup {e}
                     /\ UNCHANGED <<orders, recorded>>
               \/ UNCHANGED <<orders, recorded, acknowledged>>
    BY DEF Ledger!Next, Ledger!Reserve, Ledger!Attach, Ledger!Keep, Ledger!Acknowledge, Ledger!ledgerVars,
           Showing, Existing, Attached
<1>2. ASSUME NEW q \in Requests, NEW o \in Orders, NEW terms \in Terms, Reserve(q, o, terms),
             orders[o] = NoRow,
             orders' = [orders EXCEPT ![o] = [NoRow EXCEPT !.state = "creating", !.terms = terms]]
      PROVE  /\ o \notin Existing /\ Existing' = Existing \cup {o}
             /\ Showing' = [Showing EXCEPT ![o] = Ledger!Shows(o, FALSE, {})]
             /\ Attached' = Attached /\ UNCHANGED <<recorded, acknowledged>>
    <2> DEFINE row == [NoRow EXCEPT !.state = "creating", !.terms = terms]
    <2>1. row \in Row /\ row.state = "creating" /\ row.checkout = None /\ row # NoRow
        BY NoRowFacts DEF Row, Stages
    <2> HIDE DEF row
    <2>2. orders'[o] = row /\ \A p \in Orders \ {o} : orders'[p] = orders[p]
        BY <1>2 DEF BillingInv, TypeOK, row
    <2>3. UNCHANGED <<recorded, acknowledged>>
        BY <1>2 DEF Reserve, provider
    <2>4. Showing' = [Showing EXCEPT ![o] = Ledger!Shows(o, FALSE, recorded')]
        <3>1. Showing' = [Showing EXCEPT ![o] = Ledger!Shows(o, orders'[o].checkout # None, recorded')]
            BY <2>1, <2>2, ShowingAfter
        <3>2. (orders'[o].checkout # None) = FALSE
            BY <2>1, <2>2
        <3> QED BY <3>1, <3>2
    <2>5. Ledger!Shows(o, FALSE, recorded') = Ledger!Shows(o, FALSE, {})
        <3>1. {e \in recorded' : e.order = o} = {} /\ {e \in {} : e.order = o} = {}
            BY <1>2, <2>3 DEF BillingInv, Accounts, Of
        <3> QED BY <3>1 DEF Ledger!Shows
    <2>6. Existing' = Existing \cup {o} /\ Attached' = Attached /\ o \notin Existing
        BY <1>2, <2>1, <2>2, NoRowFacts DEF Existing, Attached
    <2> QED BY <2>3, <2>4, <2>5, <2>6
<1>3. ASSUME NEW q \in Requests, NEW o \in Orders, Attach(q), orders' # orders, o = requests[q].order
      PROVE  /\ o \in Existing \ Attached /\ Attached' = Attached \cup {o}
             /\ Showing' = [Showing EXCEPT ![o] = Ledger!Shows(o, TRUE, recorded)]
             /\ Existing' = Existing /\ UNCHANGED <<recorded, acknowledged>>
    <2> DEFINE c == requests[q].checkout
               stage == IF orders[o].state = "creating" THEN "pending" ELSE orders[o].state
               row == [orders[o] EXCEPT !.checkout = c, !.state = stage]
    <2>1. orders[o].checkout = None /\ orders' = [orders EXCEPT ![o] = row]
        BY <1>3 DEF Attach, BillingInv, TypeOK
    <2>2. /\ orders[o] # NoRow /\ orders[o] \in Row /\ orders[o].state \in Stages
          /\ c \in Checkouts /\ c # None
        BY <1>3, BillingAssumption DEF Attach, BillingInv, RequestsKnow, TypeOK, Accounts
    <2>3. row.checkout = c /\ row.state \in Stages
        BY <2>2 DEF Row, Stages
    <2> HIDE DEF row, c
    <2>4. orders'[o] = row /\ \A p \in Orders \ {o} : orders'[p] = orders[p]
        BY <2>1 DEF BillingInv, TypeOK
    <2>5. row # NoRow
        BY <2>3, NoRowFacts DEF Stages
    <2>6. UNCHANGED <<recorded, acknowledged>>
        BY <1>3 DEF Attach, provider
    <2>7. Showing' = [Showing EXCEPT ![o] = Ledger!Shows(o, TRUE, recorded')]
        <3>1. Showing' = [Showing EXCEPT ![o] = Ledger!Shows(o, orders'[o].checkout # None, recorded')]
            BY <2>4, <2>5, ShowingAfter
        <3>2. (orders'[o].checkout # None) = TRUE
            BY <2>2, <2>3, <2>4
        <3> QED BY <3>1, <3>2
    <2>8. Existing' = Existing /\ Attached' = Attached \cup {o} /\ o \in Existing \ Attached
        BY <2>1, <2>2, <2>3, <2>4, <2>5 DEF Existing, Attached
    <2> QED BY <2>6, <2>7, <2>8
<1>4. ASSUME NEW e \in Events, Deliver(e), e \notin recorded
      PROVE  /\ e.order \in Existing /\ recorded' = recorded \cup {e}
             /\ acknowledged' \in {acknowledged, acknowledged \cup {e}}
             /\ Showing' = [Showing EXCEPT ![e.order] =
                               Ledger!Shows(e.order, e.order \in Attached, recorded')]
             /\ Existing' = Existing /\ Attached' = Attached
    <2>1. /\ orders[e.order] # NoRow /\ recorded' = recorded \cup {e}
          /\ orders' = [orders EXCEPT ![e.order] = Projected(@, e)]
          /\ acknowledged' \in {acknowledged, acknowledged \cup {e}}
        BY <1>4 DEF Deliver
    <2>2. e.order \in Orders
        BY EventFacts
    <2>3. /\ \A o \in Orders : orders'[o].checkout = orders[o].checkout
          /\ \A o \in Orders : (orders'[o] = NoRow) <=> (orders[o] = NoRow)
        BY <1>4, <2>1, KeepAccounts
    <2>4. \A p \in Orders \ {e.order} : orders'[p] = orders[p]
        BY <2>1, <2>2 DEF BillingInv, TypeOK
    <2>5. Showing' = [Showing EXCEPT ![e.order] = Ledger!Shows(e.order, e.order \in Attached, recorded')]
        <3>1. Showing' = [Showing EXCEPT ![e.order] =
                  Ledger!Shows(e.order, orders'[e.order].checkout # None, recorded')]
            BY <2>1, <2>2, <2>3, <2>4, ShowingAfter
        <3>2. (orders'[e.order].checkout # None) = (e.order \in Attached)
            BY <2>2, <2>3 DEF Attached
        <3> QED BY <3>1, <3>2
    <2>6. Existing' = Existing /\ Attached' = Attached /\ e.order \in Existing
        BY <2>1, <2>2, <2>3 DEF Existing, Attached
    <2> QED BY <2>1, <2>5, <2>6
<1>5. ASSUME NEW e \in Events, Deliver(e), e \in recorded
      PROVE  /\ acknowledged' = acknowledged \cup {e} \/ UNCHANGED acknowledged
             /\ UNCHANGED <<orders, recorded>>
    BY <1>5 DEF Deliver, table
<1>6. CASE \E q \in Requests, o \in Orders, terms \in Terms : Reserve(q, o, terms)
    <2>1. PICK q \in Requests, o \in Orders, terms \in Terms : Reserve(q, o, terms)
        BY <1>6
    <2>2. CASE orders' = orders
        BY <2>1, <2>2 DEF Reserve, provider
    <2>3. CASE orders' # orders
        <3>1. /\ orders[o] = NoRow
              /\ orders' = [orders EXCEPT ![o] = [NoRow EXCEPT !.state = "creating", !.terms = terms]]
            BY <2>1, <2>3 DEF Reserve
        <3> QED BY <1>2, <2>1, <3>1
    <2> QED BY <2>2, <2>3
<1>7. CASE \E q \in Requests : Attach(q)
    <2>1. PICK q \in Requests : Attach(q)
        BY <1>7
    <2>2. CASE orders' = orders
        BY <2>1, <2>2 DEF Attach, provider
    <2>3. CASE orders' # orders
        <3>1. requests[q].order \in Orders
            BY <2>1 DEF Attach, BillingInv, RequestsKnow
        <3> QED BY <1>3, <2>1, <2>3, <3>1
    <2> QED BY <2>2, <2>3
<1>8. CASE \E e \in Events : Deliver(e)
    <2>1. PICK e \in Events : Deliver(e)
        BY <1>8
    <2>2. CASE e \in recorded
        BY <1>5, <2>1, <2>2
    <2>3. CASE e \notin recorded
        BY <1>4, <2>1, <2>3
    <2> QED BY <2>2, <2>3
<1>9. CASE UNCHANGED <<orders, recorded, acknowledged>>
    BY <1>9
<1> QED BY <1>6, <1>7, <1>8, <1>9 DEF Next, CreateCheckout, Happens, OwnershipChanges, table, provider, vars

---------------------------------------------------------------------------
(* The invariant: types, requests about orders that exist, answers that name *)
(* the attached checkout, rows the table accepts, and rows that account for  *)
(* the events kept.                                                          *)
THEOREM BillingInvariant == Spec => []BillingInv
<1> QED BY BillingInit, BillingStep, PTL DEF Spec

(* Whoever asks for a checkout of an order is sent to the same one.          *)
THEOREM OneCheckout == Spec => []AnswersAgree
<1>1. BillingInv => AnswersAgree
    <2> SUFFICES ASSUME BillingInv, NEW first \in answers, NEW second \in answers, first[1] = second[1]
                 PROVE  first = second
        BY DEF AnswersAgree
    <2>1. first[2] = second[2] /\ first \in Orders \X Checkouts /\ second \in Orders \X Checkouts
        BY DEF BillingInv, TypeOK, AnswersKept
    <2> QED BY <2>1
<1> QED BY <1>1, BillingInvariant, PTL

(* No event a provider can send for an order is ever refused by the checks   *)
(* of billing_orders (tenancy-postgres.ts:1966): a delivery of it always     *)
(* ends in the ledger.                                                       *)
EventsAlwaysFit ==
    \A e \in Events : orders[e.order] # NoRow => RowAllowed(Projected(orders[e.order], e))

THEOREM NoEventRefused == Spec => []EventsAlwaysFit
<1>1. BillingInv => EventsAlwaysFit
    <2> SUFFICES ASSUME BillingInv, NEW e \in Events, orders[e.order] # NoRow
                 PROVE  RowAllowed(Projected(orders[e.order], e))
        BY DEF EventsAlwaysFit
    <2>1. e.order \in Orders
        BY EventFacts
    <2>2. orders[e.order] \in Row /\ orders[e.order].state \in Stages /\ RowAllowed(orders[e.order])
        BY <2>1 DEF BillingInv, TypeOK, Accounts
    <2> QED BY <2>2, ProjectedAllowed
<1> QED BY <1>1, BillingInvariant, PTL

(* The orders implement the ledger: their state and times are those the set  *)
(* of kept events determines, in whatever order and however often they came. *)
THEOREM OrdersKeepLedger == Spec => ImplementsOrderLedger
<1>1. Init => Ledger!Init
    BY LedgerInit
<1>2. BillingInv /\ BillingInv' /\ [Next]_vars => [Ledger!Next]_(Ledger!ledgerVars)
    BY LedgerStep
<1> QED BY <1>1, <1>2, BillingInvariant, PTL DEF Spec, ImplementsOrderLedger, Ledger!Spec
=============================================================================
