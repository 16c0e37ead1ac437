--------------------------- MODULE AlertOutboxProofs ---------------------------
(***************************************************************************)
(* Proofs, for any number of alerts and exporters and any policy, that the *)
(* outbox keeps within its bounds, that no pending alert can block it, and *)
(* that it implements the promise given to whoever raised the alerts.      *)
(***************************************************************************)
EXTENDS AlertOutboxProperties, FiniteSetTheorems, SequenceTheorems, TLAPS

Distinct(s) == \A i, j \in DOMAIN s : s[i] = s[j] => i = j

ExporterType ==
    [phase : {"open", "closing", "closed"}, pc : {"idle", "send", "complete", "fail", "reject"},
     alert : Alerts \cup {None}]

TypeInv ==
    /\ accepted \subseteq Alerts
    /\ due \in Seq(Alerts) /\ later \in Seq(Alerts) /\ failed \in Seq(Alerts)
    /\ attempts \in [Alerts -> Nat] /\ refusals \in [Alerts -> Nat]
    /\ lease \in [Alerts -> Exporters \cup {None}]
    /\ exporters \in [Exporters -> ExporterType]
    /\ taken \subseteq Alerts

(* A pending alert has one place, and what was never accepted has none.      *)
RowsInv ==
    /\ Distinct(due) /\ Distinct(later) /\ Range(due) \cap Range(later) = {}
    /\ Pending \subseteq accepted /\ Range(failed) \subseteq accepted
    /\ Range(failed) \cap Pending = {}
    /\ IsFiniteSet(Pending)
    /\ \A a \in Alerts \ accepted : attempts[a] = 0

(* Attempts are counted after refusals, and once for each: whoever still     *)
(* holds the lease of a refused alert is about to count that refusal.        *)
ClaimsInv ==
    /\ \A a \in Alerts \ Unreadable : attempts[a] <= refusals[a]
    /\ \A p \in Exporters :
          LET a == exporters[p].alert IN
          exporters[p].pc # "idle" =>
              /\ a \in accepted
              /\ exporters[p].pc = "reject" <=> a \in Unreadable
              /\ exporters[p].pc = "complete" => a \in taken
              /\ exporters[p].pc = "fail" /\ lease[a] = p => attempts[a] + 1 <= refusals[a]

OutboxInv == TypeInv /\ RowsInv /\ ClaimsInv /\ OutboxKeepsBounds

---------------------------------------------------------------------------
(* Sequences of distinct alerts *)

LEMMA AppendFacts ==
    ASSUME NEW s \in Seq(Alerts), NEW a \in Alerts
    PROVE  /\ Append(s, a) \in Seq(Alerts) /\ Range(Append(s, a)) = Range(s) \cup {a}
           /\ Distinct(s) /\ a \notin Range(s) => Distinct(Append(s, a))
<1> DEFINE t == Append(s, a)
<1>1. /\ t \in Seq(Alerts) /\ DOMAIN t = 1..Len(s) + 1 /\ t[Len(s) + 1] = a
      /\ DOMAIN s = 1..Len(s) /\ \A i \in 1..Len(s) : t[i] = s[i]
    OBVIOUS
<1> HIDE DEF t
<1>2. Range(t) = Range(s) \cup {a}
    BY <1>1 DEF Range
<1>3. Distinct(s) /\ a \notin Range(s) => Distinct(t)
    BY <1>1 DEF Range, Distinct
<1> QED BY <1>1, <1>2, <1>3 DEF t

LEMMA HeadFacts ==
    ASSUME NEW s \in Seq(Alerts), s # <<>>, Distinct(s)
    PROVE  /\ Tail(s) \in Seq(Alerts) /\ Head(s) \in Range(s)
           /\ Range(Tail(s)) = Range(s) \ {Head(s)} /\ Distinct(Tail(s))
<1> DEFINE t == Tail(s)
<1>1. /\ t \in Seq(Alerts) /\ DOMAIN t = 1..Len(s) - 1 /\ Head(s) = s[1]
      /\ DOMAIN s = 1..Len(s) /\ Len(s) \in Nat \ {0} /\ \A i \in 1..Len(s) - 1 : t[i] = s[i + 1]
    OBVIOUS
<1> HIDE DEF t
<1>2. Head(s) \in Range(s)
    BY <1>1 DEF Range
<1>3. Range(t) \subseteq Range(s) \ {Head(s)}
    <2>1. ASSUME NEW i \in DOMAIN t PROVE t[i] \in Range(s) /\ t[i] # Head(s)
        <3>1. i + 1 \in DOMAIN s /\ 1 \in DOMAIN s /\ i + 1 # 1 /\ t[i] = s[i + 1]
            BY <1>1
        <3> QED BY <1>1, <3>1 DEF Range, Distinct
    <2> QED BY <2>1 DEF Range
<1>4. ASSUME NEW i \in DOMAIN s, s[i] # Head(s) PROVE s[i] \in Range(t)
    <2>1. i - 1 \in 1..Len(s) - 1 /\ t[i - 1] = s[i]
        BY <1>1, <1>4
    <2> QED BY <1>1, <2>1 DEF Range
<1>5. Range(t) = Range(s) \ {Head(s)}
    BY <1>3, <1>4 DEF Range
<1>6. Distinct(t)
    <2>1. ASSUME NEW i \in DOMAIN t, NEW j \in DOMAIN t, t[i] = t[j] PROVE i = j
        <3>1. i \in Int /\ j \in Int /\ i + 1 \in DOMAIN s /\ j + 1 \in DOMAIN s
            BY <1>1
        <3>2. s[i + 1] = s[j + 1]
            BY <1>1, <2>1
        <3>3. i + 1 = j + 1
            BY <3>1, <3>2 DEF Distinct
        <3> QED BY <3>1, <3>3
    <2> QED BY <2>1 DEF Distinct
<1> QED BY <1>1, <1>2, <1>5, <1>6 DEF t

LEMMA RemoveFacts ==
    ASSUME NEW s \in Seq(Alerts), Distinct(s), NEW k \in DOMAIN s
    PROVE  /\ RemoveAt(s, k) \in Seq(Alerts)
           /\ Range(RemoveAt(s, k)) = Range(s) \ {s[k]} /\ Distinct(RemoveAt(s, k))
<1> DEFINE t == RemoveAt(s, k)
<1>1. /\ t \in Seq(Alerts) /\ DOMAIN t = 1..Len(s) - 1 /\ DOMAIN s = 1..Len(s) /\ Len(s) \in Nat
      /\ \A i \in 1..Len(s) - 1 : t[i] = IF i < k THEN s[i] ELSE s[i + 1]
    <2> DEFINE u == SubSeq(s, 1, k - 1)
               v == SubSeq(s, k + 1, Len(s))
    <2>1. k \in 1..Len(s) /\ Len(s) \in Nat /\ DOMAIN s = 1..Len(s)
        OBVIOUS
    <2>2. u \in Seq(Alerts) /\ Len(u) = k - 1 /\ \A i \in 1..k - 1 : u[i] = s[i]
        BY <2>1
    <2>3. v \in Seq(Alerts) /\ Len(v) = Len(s) - k /\ \A i \in 1..Len(s) - k : v[i] = s[k + i]
        BY <2>1
    <2> HIDE DEF u, v
    <2>4. t = u \o v
        BY DEF RemoveAt, u, v
    <2>5. /\ u \o v \in Seq(Alerts) /\ Len(u \o v) = Len(u) + Len(v)
          /\ \A i \in 1..Len(u) + Len(v) : (u \o v)[i] = IF i <= Len(u) THEN u[i] ELSE v[i - Len(u)]
        BY <2>2, <2>3, ConcatProperties
    <2>6. PICK m \in Nat : m = k - 1 /\ m + 1 \in 1..Len(s) /\ Len(u) = m /\ Len(v) = Len(s) - m - 1
        BY <2>1, <2>2, <2>3
    <2>7. ASSUME NEW i \in 1..Len(s) - 1 PROVE (u \o v)[i] = IF i < k THEN s[i] ELSE s[i + 1]
        <3>0. PICK n \in Nat : n = Len(s)
            BY <2>1
        <3>1. i \in 1..Len(u) + Len(v)
            <4>1. Len(u) + Len(v) = n - 1
                BY <2>6, <3>0
            <4> QED BY <3>0, <4>1
        <3>2. CASE i <= m
            <4>1. (u \o v)[i] = u[i]
                BY <2>5, <2>6, <3>1, <3>2
            <4>2. i \in 1..k - 1 /\ i < k
                BY <2>6, <3>2
            <4> QED BY <2>2, <4>1, <4>2
        <3>3. CASE i > m
            <4>0. ~(i <= Len(u)) /\ i - Len(u) = i - m
                BY <2>6, <3>3
            <4>1. (u \o v)[i] = v[i - m]
                BY <2>5, <3>1, <4>0
            <4>2. k \in Int /\ i \in Int /\ Len(s) \in Int /\ k = m + 1 /\ i <= Len(s) - 1
                BY <2>1, <2>6
            <4>3. i - m \in 1..Len(s) - k
                <5>1. i - m \in Int /\ 1 <= i - m /\ i - m <= n - k
                    BY <3>0, <3>3, <4>2
                <5> QED BY <3>0, <4>2, <5>1
            <4>4. k + (i - m) = i + 1 /\ ~(i < k)
                BY <2>6, <3>3, <4>2
            <4>5. v[i - m] = s[k + (i - m)]
                BY <2>3, <4>3
            <4> QED BY <4>1, <4>4, <4>5
        <3>4. i <= m \/ i > m
            OBVIOUS
        <3> QED BY <3>2, <3>3, <3>4
    <2>8. Len(t) = Len(s) - 1 /\ t \in Seq(Alerts)
        BY <2>1, <2>4, <2>5, <2>6
    <2>9. \A i \in 1..Len(s) - 1 : t[i] = IF i < k THEN s[i] ELSE s[i + 1]
        BY <2>4, <2>7
    <2> HIDE DEF t
    <2>10. DOMAIN t = 1..Len(s) - 1
        BY <2>8
    <2> QED BY <2>1, <2>8, <2>9, <2>10
<1> HIDE DEF t
<1>2. Range(t) \subseteq Range(s) \ {s[k]}
    <2>1. ASSUME NEW i \in DOMAIN t PROVE t[i] \in Range(s) /\ t[i] # s[k]
        <3>1. \E j \in DOMAIN s : j # k /\ t[i] = s[j]
            <4>1. CASE i < k
                BY <1>1, <4>1
            <4>2. CASE ~(i < k)
                <5>1. i + 1 \in DOMAIN s /\ i + 1 # k /\ t[i] = s[i + 1]
                    BY <1>1, <4>2
                <5> QED BY <5>1
            <4> QED BY <4>1, <4>2
        <3> QED BY <3>1 DEF Range, Distinct
    <2> QED BY <2>1 DEF Range
<1>3. ASSUME NEW i \in DOMAIN s, i # k PROVE s[i] \in Range(t)
    <2>1. CASE i < k
        <3>1. i \in 1..Len(s) - 1 /\ t[i] = s[i]
            BY <1>1, <2>1
        <3> QED BY <1>1, <3>1 DEF Range
    <2>2. CASE i > k
        <3>1. i - 1 \in 1..Len(s) - 1 /\ t[i - 1] = s[i]
            BY <1>1, <2>2
        <3> QED BY <1>1, <3>1 DEF Range
    <2> QED BY <1>1, <1>3, <2>1, <2>2
<1>4. Range(t) = Range(s) \ {s[k]}
    BY <1>2, <1>3 DEF Range
<1>5. Distinct(t)
    <2> DEFINE Place(i) == IF i < k THEN i ELSE i + 1
    <2>1. ASSUME NEW i \in DOMAIN t PROVE i \in Int /\ Place(i) \in DOMAIN s /\ t[i] = s[Place(i)]
        BY <1>1
    <2>2. ASSUME NEW i \in DOMAIN t, NEW j \in DOMAIN t, t[i] = t[j] PROVE i = j
        <3>1. Place(i) = Place(j)
            <4> HIDE DEF Place
            <4> QED BY <2>1, <2>2 DEF Distinct
        <3>2. k \in Int
            BY <1>1
        <3> QED BY <2>1, <3>1, <3>2
    <2> QED BY <2>2 DEF Distinct
<1> QED BY <1>1, <1>4, <1>5 DEF t

LEMMA PrunedFacts ==
    ASSUME NEW s \in Seq(Alerts), NEW t \in Pruned(s)
    PROVE  /\ t \in Seq(Alerts) /\ Len(t) <= MaxPending /\ Range(t) \subseteq Range(s)
           /\ t # <<>> => s[Len(s)] \in Range(t)
<1>1. PICK n \in 1..Len(s) + 1 : t = SubSeq(s, n, Len(s)) /\ Len(t) <= MaxPending
    BY DEF Pruned
<1>2. /\ t \in Seq(Alerts) /\ Len(t) = Len(s) + 1 - n /\ DOMAIN t = 1..Len(t) /\ DOMAIN s = 1..Len(s)
      /\ \A i \in 1..Len(t) : t[i] = s[n + i - 1] /\ n + i - 1 \in 1..Len(s)
    BY <1>1
<1>3. Range(t) \subseteq Range(s)
    BY <1>2 DEF Range
<1>4. ASSUME t # <<>> PROVE s[Len(s)] \in Range(t)
    <2>1. Len(t) \in 1..Len(t)
        BY <1>2, <1>4
    <2>2. t[Len(t)] = s[Len(s)]
        BY <1>2, <2>1
    <2> QED BY <1>2, <2>1, <2>2 DEF Range
<1> QED BY <1>1, <1>2, <1>3, <1>4

---------------------------------------------------------------------------
(* Steps *)

LEMMA InitOutbox == Init => OutboxInv
<1> SUFFICES ASSUME Init PROVE OutboxInv
    OBVIOUS
<1>1. TypeInv
    BY DEF Init, TypeInv, ExporterType
<1>2. Range(<<>>) = {} /\ Distinct(<<>>)
    BY DEF Range, Distinct
<1>3. Pending = {} /\ Range(failed) = {} /\ Cardinality({}) = 0
    BY <1>2, FS_EmptySet DEF Init, Pending
<1>4. RowsInv
    BY <1>2, <1>3, FS_EmptySet DEF Init, RowsInv
<1>5. ClaimsInv
    BY DEF Init, ClaimsInv
<1>6. OutboxKeepsBounds
    BY <1>3, OutboxAssumption DEF Init, OutboxKeepsBounds
<1> QED BY <1>1, <1>4, <1>5, <1>6 DEF OutboxInv

(* The rows stay as they are but for their leases.                           *)
LEMMA RowsKept ==
    ASSUME OutboxInv, UNCHANGED <<accepted, due, later, failed, attempts>>
    PROVE  RowsInv' /\ OutboxKeepsBounds'
BY DEF OutboxInv, RowsInv, OutboxKeepsBounds, Pending

LEMMA EnqueueStep ==
    ASSUME OutboxInv, NEW p \in Exporters, NEW a \in Alerts, Enqueue(p, a)
    PROVE  OutboxInv'
<1>1. /\ due \in Seq(Alerts) /\ failed \in Seq(Alerts) /\ a \notin accepted
      /\ accepted' = accepted \cup {a} /\ due' = Append(due, a) /\ failed' \in Pruned(failed)
      /\ UNCHANGED <<later, attempts, lease, expired, exporters, taken, refusals, faults>>
      /\ a \notin Pending /\ Cardinality(Pending) < MaxPending /\ IsFiniteSet(Pending)
    BY DEF OutboxInv, TypeInv, RowsInv, Enqueue
<1>2. /\ due' \in Seq(Alerts) /\ Range(due') = Range(due) \cup {a} /\ Distinct(due')
    BY <1>1, AppendFacts DEF OutboxInv, RowsInv, Pending
<1>3. failed' \in Seq(Alerts) /\ Len(failed') <= MaxPending /\ Range(failed') \subseteq Range(failed)
    BY <1>1, PrunedFacts
<1>4. Pending' = Pending \cup {a}
    BY <1>1, <1>2 DEF Pending
<1>5. IsFiniteSet(Pending') /\ Cardinality(Pending') <= MaxPending
    <2>1. IsFiniteSet(Pending') /\ Cardinality(Pending') = Cardinality(Pending) + 1
        BY <1>1, <1>4, FS_AddElement
    <2>2. Cardinality(Pending) \in Nat
        BY <1>1, FS_CardinalityType
    <2> QED BY <1>1, <2>1, <2>2, OutboxAssumption
<1>6. TypeInv'
    BY <1>1, <1>2, <1>3 DEF OutboxInv, TypeInv
<1>7. RowsInv'
    BY <1>1, <1>2, <1>3, <1>4, <1>5 DEF OutboxInv, RowsInv, Pending
<1>8. ClaimsInv'
    BY <1>1 DEF OutboxInv, ClaimsInv
<1>9. OutboxKeepsBounds'
    BY <1>1, <1>3, <1>4, <1>5, OutboxAssumption DEF OutboxInv, RowsInv, OutboxKeepsBounds
<1> QED BY <1>6, <1>7, <1>8, <1>9 DEF OutboxInv

(* An exporter takes a claim up, moves on, or lets go.                       *)
LEMMA WorksOnFacts ==
    ASSUME TypeInv, NEW p \in Exporters, NEW pc \in {"idle", "send", "complete", "fail", "reject"},
           NEW a \in Alerts \cup {None}, WorksOn(p, pc, a)
    PROVE  /\ exporters' \in [Exporters -> ExporterType]
           /\ exporters'[p].pc = pc /\ exporters'[p].alert = a
           /\ \A q \in Exporters \ {p} : exporters'[q] = exporters[q]
BY DEF WorksOn, TypeInv, ExporterType

LEMMA GoesFacts ==
    ASSUME TypeInv, NEW p \in Exporters, NEW pc \in {"idle", "send", "complete", "fail", "reject"}, Goes(p, pc)
    PROVE  /\ exporters' \in [Exporters -> ExporterType]
           /\ exporters'[p].pc = pc /\ exporters'[p].alert = exporters[p].alert
           /\ \A q \in Exporters \ {p} : exporters'[q] = exporters[q]
<1>1. exporters[p].alert \in Alerts \cup {None}
    BY DEF TypeInv, ExporterType
<1> QED BY <1>1, WorksOnFacts DEF Goes

LEMMA WaitsFacts ==
    ASSUME TypeInv, NEW p \in Exporters, Waits(p)
    PROVE  /\ exporters' \in [Exporters -> ExporterType]
           /\ exporters'[p].pc = "idle"
           /\ \A q \in Exporters \ {p} : exporters'[q] = exporters[q]
<1>1. "idle" \in {"idle", "send", "complete", "fail", "reject"} /\ None \in Alerts \cup {None}
    OBVIOUS
<1> QED BY <1>1, WorksOnFacts DEF Waits

LEMMA ClaimStep ==
    ASSUME OutboxInv, NEW p \in Exporters, Claim(p)
    PROVE  OutboxInv'
<1>1. PICK i \in DOMAIN due :
        /\ exporters[p].pc = "idle" /\ lease' = [lease EXCEPT ![due[i]] = p]
        /\ WorksOn(p, IF due[i] \in Unreadable THEN "reject" ELSE "send", due[i])
        /\ UNCHANGED <<accepted, due, later, failed, attempts, taken, refusals, faults>>
    BY DEF Claim
<1>2. PICK a \in Alerts : a = due[i] /\ a \in accepted
    BY DEF OutboxInv, TypeInv, RowsInv, Pending, Range
<1> DEFINE pc == IF due[i] \in Unreadable THEN "reject" ELSE "send"
<1>3. /\ exporters' \in [Exporters -> ExporterType]
      /\ exporters'[p].pc = pc /\ exporters'[p].alert = a
      /\ \A q \in Exporters \ {p} : exporters'[q] = exporters[q]
    <2>1. WorksOn(p, pc, due[i])
        BY <1>1
    <2>2. pc \in {"reject", "send"}
        OBVIOUS
    <2> HIDE DEF pc
    <2> QED BY <1>2, <2>1, <2>2, WorksOnFacts DEF OutboxInv
<1>4. /\ lease' \in [Alerts -> Exporters \cup {None}] /\ \A b \in Alerts \ {a} : lease'[b] = lease[b]
      /\ lease'[a] = p
    BY <1>1, <1>2 DEF OutboxInv, TypeInv
<1>5. TypeInv'
    BY <1>1, <1>3, <1>4 DEF OutboxInv, TypeInv
<1>6. ClaimsInv'
    <2>1. \A b \in Alerts \ Unreadable : attempts'[b] <= refusals'[b]
        BY <1>1 DEF OutboxInv, ClaimsInv
    <2>2. pc # "idle" /\ pc # "complete" /\ pc # "fail" /\ (pc = "reject" <=> a \in Unreadable)
        BY <1>2
    <2> HIDE DEF pc
    <2>3. ASSUME NEW q \in Exporters \ {p}, NEW b \in Alerts, lease'[b] = q PROVE lease[b] = q
        <3>1. q # p
            OBVIOUS
        <3>2. b # a
            BY <1>4, <2>3, <3>1
        <3> QED BY <1>4, <2>3, <3>2
    <2>4. \A q \in Exporters : exporters[q].pc # "idle" => exporters[q].alert \in Alerts
        BY DEF OutboxInv, ClaimsInv, TypeInv
    <2> QED BY <1>1, <1>2, <1>3, <2>1, <2>2, <2>3, <2>4 DEF OutboxInv, ClaimsInv
<1> QED BY <1>1, <1>5, <1>6, RowsKept DEF OutboxInv

LEMMA SendStep ==
    ASSUME OutboxInv, NEW p \in Exporters, Send(p)
    PROVE  OutboxInv'
<1>1. PICK a \in Alerts : a = exporters[p].alert /\ a \in accepted /\ a \notin Unreadable
    BY DEF OutboxInv, TypeInv, ClaimsInv, Send, At
<1>2. UNCHANGED <<accepted, due, later, failed, attempts, lease, expired, faults>>
    BY DEF Send, rows
<1>3. \/ taken' = taken \cup {a} /\ Goes(p, "complete") /\ UNCHANGED refusals
      \/ /\ taken' \in {taken, taken \cup {a}} /\ refusals' = [refusals EXCEPT ![a] = @ + 1]
         /\ Goes(p, "fail")
    BY <1>1 DEF Send
<1>4. /\ refusals' \in [Alerts -> Nat] /\ taken' \subseteq Alerts /\ taken \subseteq taken'
      /\ \A b \in Alerts : refusals[b] <= refusals'[b]
    <2>1. taken' \subseteq Alerts /\ taken \subseteq taken'
        <3>1. taken' = taken \/ taken' = taken \cup {a}
            BY <1>3
        <3> QED BY <3>1 DEF OutboxInv, TypeInv
    <2>2. refusals' = refusals \/ refusals' = [refusals EXCEPT ![a] = @ + 1]
        BY <1>3
    <2>3. refusals' \in [Alerts -> Nat] /\ \A b \in Alerts : refusals[b] <= refusals'[b]
        <3>1. refusals \in [Alerts -> Nat]
            BY DEF OutboxInv, TypeInv
        <3>2. CASE refusals' = refusals
            <4>1. ASSUME NEW b \in Alerts PROVE refusals[b] \in Nat /\ refusals'[b] = refusals[b]
                BY <3>1, <3>2
            <4>2. \A b \in Alerts : refusals[b] <= refusals'[b]
                BY <4>1
            <4> QED BY <3>1, <3>2, <4>2
        <3>3. CASE refusals' = [refusals EXCEPT ![a] = @ + 1]
            BY <3>1, <3>3
        <3> QED BY <2>2, <3>2, <3>3
    <2> QED BY <2>1, <2>3
<1>5. \E pc \in {"complete", "fail"} : Goes(p, pc)
    BY <1>3
<1>6. /\ exporters' \in [Exporters -> ExporterType] /\ exporters'[p].alert = a
      /\ \A q \in Exporters \ {p} : exporters'[q] = exporters[q]
      /\ exporters'[p].pc \in {"complete", "fail"}
    BY <1>1, <1>5, GoesFacts DEF OutboxInv
<1>7. TypeInv'
    BY <1>2, <1>4, <1>6 DEF OutboxInv, TypeInv
<1>8. \A b \in Alerts \ Unreadable : attempts'[b] <= refusals'[b]
    <2>1. \A b \in Alerts : attempts[b] \in Int /\ refusals[b] \in Int /\ refusals'[b] \in Int
        BY <1>4 DEF OutboxInv, TypeInv
    <2> QED BY <1>2, <1>4, <2>1 DEF OutboxInv, ClaimsInv
<1>9. exporters'[p].pc = "complete" => a \in taken'
    BY <1>3, GoesFacts DEF OutboxInv
<1>10. exporters'[p].pc = "fail" => attempts'[a] + 1 <= refusals'[a]
    <2>1. ASSUME exporters'[p].pc = "fail" PROVE refusals'[a] = refusals[a] + 1
        BY <1>3, <2>1, GoesFacts DEF OutboxInv, TypeInv
    <2>2. attempts[a] <= refusals[a] /\ attempts[a] \in Int /\ refusals[a] \in Int
        BY <1>1 DEF OutboxInv, ClaimsInv, TypeInv
    <2> QED BY <1>2, <2>1, <2>2
<1>11. ClaimsInv'
    <2>1. ASSUME NEW q \in Exporters \ {p}, exporters[q].pc = "fail", exporters[q].alert \in Alerts,
                 attempts[exporters[q].alert] + 1 <= refusals[exporters[q].alert]
          PROVE  attempts[exporters[q].alert] + 1 <= refusals'[exporters[q].alert]
        BY <1>4, <2>1 DEF OutboxInv, TypeInv
    <2>2. \A q \in Exporters : exporters[q].pc # "idle" => exporters[q].alert \in Alerts
        BY DEF OutboxInv, ClaimsInv, TypeInv
    <2> QED BY <1>1, <1>2, <1>4, <1>6, <1>8, <1>9, <1>10, <2>1, <2>2 DEF OutboxInv, ClaimsInv
<1> QED BY <1>2, <1>7, <1>11, RowsKept DEF OutboxInv

LEMMA LeavesFacts ==
    ASSUME OutboxInv, NEW a \in Alerts, Leaves(a)
    PROVE  /\ a \in Range(due) /\ a \in Pending /\ a \in accepted /\ a \notin Range(later)
           /\ due' \in Seq(Alerts) /\ Range(due') = Range(due) \ {a} /\ Distinct(due')
           /\ lease' \in [Alerts -> Exporters \cup {None}] /\ lease'[a] = None
           /\ \A b \in Alerts \ {a} : lease'[b] = lease[b]
<1>1. PICK i \in DOMAIN due : due[i] = a /\ due' = RemoveAt(due, i)
    BY DEF Leaves
<1>2. due' \in Seq(Alerts) /\ Range(due') = Range(due) \ {a} /\ Distinct(due')
    BY <1>1, RemoveFacts DEF OutboxInv, TypeInv, RowsInv
<1>3. a \in Range(due)
    BY <1>1 DEF Range
<1>4. a \in Pending /\ a \in accepted /\ a \notin Range(later)
    BY <1>3 DEF OutboxInv, RowsInv, Pending
<1>5. /\ lease' \in [Alerts -> Exporters \cup {None}] /\ lease'[a] = None
      /\ \A b \in Alerts \ {a} : lease'[b] = lease[b]
    BY DEF Leaves, OutboxInv, TypeInv
<1> QED BY <1>2, <1>3, <1>4, <1>5

(* A smaller set of pending rows is within its bound, too.                   *)
LEMMA FewerPending ==
    ASSUME OutboxInv, Pending' \subseteq Pending
    PROVE  IsFiniteSet(Pending') /\ Cardinality(Pending') <= MaxPending
<1>1. IsFiniteSet(Pending) /\ Cardinality(Pending) <= MaxPending
    BY DEF OutboxInv, RowsInv, OutboxKeepsBounds
<1>2. IsFiniteSet(Pending') /\ Cardinality(Pending') <= Cardinality(Pending)
    BY <1>1, FS_Subset
<1>3. Cardinality(Pending) \in Nat /\ Cardinality(Pending') \in Nat
    BY <1>1, <1>2, FS_CardinalityType
<1> QED BY <1>1, <1>2, <1>3, OutboxAssumption

LEMMA CompleteStep ==
    ASSUME OutboxInv, NEW p \in Exporters, Complete(p)
    PROVE  OutboxInv'
<1>1. PICK a \in Alerts : a = exporters[p].alert
    BY DEF OutboxInv, TypeInv, ClaimsInv, Complete, At
<1>2. UNCHANGED <<accepted, later, failed, attempts, taken, refusals>>
    BY DEF Complete
<1>3. /\ exporters' \in [Exporters -> ExporterType] /\ exporters'[p].pc = "idle"
      /\ \A q \in Exporters \ {p} : exporters'[q] = exporters[q]
    BY WaitsFacts DEF Complete, OutboxInv
<1>4. CASE Holds(p)
    <2>1. Leaves(a)
        BY <1>1, <1>4 DEF Complete
    <2>2. /\ due' \in Seq(Alerts) /\ Range(due') = Range(due) \ {a} /\ Distinct(due')
          /\ lease' \in [Alerts -> Exporters \cup {None}] /\ lease'[a] = None
          /\ \A b \in Alerts \ {a} : lease'[b] = lease[b]
        BY <2>1, LeavesFacts
    <2>3. Pending' \subseteq Pending
        BY <1>2, <2>2 DEF Pending
    <2>4. TypeInv'
        BY <1>2, <1>3, <2>2 DEF OutboxInv, TypeInv
    <2>5. RowsInv'
        BY <1>2, <2>2, <2>3, FewerPending DEF OutboxInv, RowsInv
    <2>6. ASSUME NEW q \in Exporters, NEW b \in Alerts, lease'[b] = q PROVE lease[b] = q
        BY <2>2, <2>6, OutboxAssumption
    <2>7. \A q \in Exporters : exporters[q].pc # "idle" => exporters[q].alert \in Alerts
        BY DEF OutboxInv, ClaimsInv, TypeInv
    <2>8. ClaimsInv'
        BY <1>2, <1>3, <2>6, <2>7 DEF OutboxInv, ClaimsInv
    <2>9. OutboxKeepsBounds'
        BY <1>2, <2>3, FewerPending DEF OutboxInv, OutboxKeepsBounds
    <2> QED BY <2>4, <2>5, <2>8, <2>9 DEF OutboxInv
<1>5. CASE ~Holds(p)
    <2>1. UNCHANGED <<due, lease, expired>>
        BY <1>5 DEF Complete
    <2>2. TypeInv'
        BY <1>2, <1>3, <2>1 DEF OutboxInv, TypeInv
    <2>3. ClaimsInv'
        BY <1>2, <1>3, <2>1 DEF OutboxInv, ClaimsInv
    <2> QED BY <1>2, <2>1, <2>2, <2>3, RowsKept DEF OutboxInv
<1> QED BY <1>4, <1>5

(* What the exporters do apart from the rows.                                *)
LEMMA ExportersMove ==
    ASSUME OutboxInv, UNCHANGED <<accepted, due, later, failed, attempts, lease, taken, refusals>>,
           exporters' \in [Exporters -> ExporterType],
           \A q \in Exporters :
               \/ exporters'[q].pc = "idle"
               \/ exporters'[q].pc = exporters[q].pc /\ exporters'[q].alert = exporters[q].alert
    PROVE  OutboxInv'
<1>1. TypeInv'
    BY DEF OutboxInv, TypeInv
<1>2. ClaimsInv'
    BY DEF OutboxInv, ClaimsInv
<1> QED BY <1>1, <1>2, RowsKept DEF OutboxInv

LEMMA QuietStep ==
    ASSUME OutboxInv, NEW p \in Exporters,
           TransactionFails(p) \/ Close(p) \/ Closed(p) \/ Crash(p) \/ Restart(p)
    PROVE  OutboxInv'
<1>1. UNCHANGED <<accepted, due, later, failed, attempts, lease, taken, refusals>>
    BY DEF TransactionFails, Close, Closed, Crash, Restart, rows
<1>2. CASE TransactionFails(p)
    <2>1. Waits(p)
        BY <1>2 DEF TransactionFails
    <2> QED BY <1>1, <2>1, WaitsFacts, ExportersMove DEF OutboxInv
<1>3. ASSUME NEW phase \in {"open", "closing", "closed"}, exporters' = [exporters EXCEPT ![p].phase = phase]
      PROVE  OutboxInv'
    <2>1. /\ exporters' \in [Exporters -> ExporterType]
          /\ \A q \in Exporters :
                exporters'[q].pc = exporters[q].pc /\ exporters'[q].alert = exporters[q].alert
        <3>1. exporters \in [Exporters -> ExporterType]
            BY DEF OutboxInv, TypeInv
        <3>2. [exporters[p] EXCEPT !.phase = phase] \in ExporterType
            BY <3>1 DEF ExporterType
        <3>3. exporters' = [exporters EXCEPT ![p] = [exporters[p] EXCEPT !.phase = phase]]
            BY <1>3
        <3>4. /\ [exporters[p] EXCEPT !.phase = phase].pc = exporters[p].pc
              /\ [exporters[p] EXCEPT !.phase = phase].alert = exporters[p].alert
            BY <3>1 DEF ExporterType
        <3> QED BY <3>1, <3>2, <3>3, <3>4
    <2> QED BY <1>1, <2>1, ExportersMove
<1>4. CASE Crash(p)
    <2>1. /\ exporters' \in [Exporters -> ExporterType] /\ exporters'[p].pc = "idle"
          /\ \A q \in Exporters \ {p} : exporters'[q] = exporters[q]
        BY <1>4 DEF Crash, OutboxInv, TypeInv, ExporterType
    <2> QED BY <1>1, <2>1, ExportersMove
<1> QED BY <1>2, <1>3, <1>4 DEF Close, Closed, Restart

LEMMA DelayPassesStep ==
    ASSUME OutboxInv, DelayPasses
    PROVE  OutboxInv'
<1>1. /\ due \in Seq(Alerts) /\ later \in Seq(Alerts) /\ later # <<>> /\ Distinct(due) /\ Distinct(later)
      /\ Range(due) \cap Range(later) = {}
    BY DEF OutboxInv, TypeInv, RowsInv, DelayPasses
<1>2. /\ Tail(later) \in Seq(Alerts) /\ Head(later) \in Range(later)
      /\ Range(Tail(later)) = Range(later) \ {Head(later)} /\ Distinct(Tail(later))
    BY <1>1, HeadFacts
<1>3. PICK a : a = Head(later)
    OBVIOUS
<1>4. a \in Alerts /\ a \notin Range(due)
    BY <1>1, <1>2, <1>3
<1>5. /\ Append(due, a) \in Seq(Alerts) /\ Range(Append(due, a)) = Range(due) \cup {a}
      /\ Distinct(Append(due, a))
    BY <1>1, <1>4, AppendFacts
<1>6. due' = Append(due, a) /\ later' = Tail(later)
      /\ UNCHANGED <<accepted, failed, attempts, lease, expired, exporters, taken, refusals>>
    BY <1>3 DEF DelayPasses
<1>7. Pending' = Pending
    BY <1>2, <1>3, <1>5, <1>6 DEF Pending
<1>8. TypeInv'
    BY <1>2, <1>5, <1>6 DEF OutboxInv, TypeInv
<1>9. Range(due') \cap Range(later') = {}
    BY <1>1, <1>2, <1>3, <1>5, <1>6
<1>10. RowsInv'
    BY <1>2, <1>5, <1>6, <1>7, <1>9 DEF OutboxInv, RowsInv
<1>11. ClaimsInv'
    BY <1>6 DEF OutboxInv, ClaimsInv
<1>12. OutboxKeepsBounds'
    BY <1>6, <1>7 DEF OutboxInv, OutboxKeepsBounds
<1> QED BY <1>8, <1>10, <1>11, <1>12 DEF OutboxInv

(* A counted attempt stays behind the refusals: the claim that is failed     *)
(* was the only one that could count this one.                               *)
LEMMA FailedClaimKeepsClaims ==
    ASSUME OutboxInv, NEW p \in Exporters, NEW a \in Alerts, a = exporters[p].alert,
           FailClaim(p), Holds(p), TypeInv'
    PROVE  ClaimsInv'
<1>1. /\ Leaves(a) /\ attempts' = [attempts EXCEPT ![a] = @ + 1]
      /\ UNCHANGED <<accepted, taken, refusals>> /\ lease[a] = p /\ Waits(p)
      /\ exporters[p].pc \in {"fail", "reject"}
    BY DEF FailClaim, Holds, At
<1>2. /\ lease'[a] = None /\ \A b \in Alerts \ {a} : lease'[b] = lease[b]
    BY <1>1, LeavesFacts
<1>3. /\ exporters'[p].pc = "idle" /\ \A q \in Exporters \ {p} : exporters'[q] = exporters[q]
    BY <1>1, WaitsFacts DEF OutboxInv
<1>4. /\ attempts'[a] = attempts[a] + 1 /\ \A b \in Alerts \ {a} : attempts'[b] = attempts[b]
    BY <1>1 DEF OutboxInv, TypeInv
<1>5. a \notin Unreadable => attempts'[a] <= refusals'[a]
    <2>1. a \notin Unreadable => attempts[a] + 1 <= refusals[a]
        BY <1>1 DEF OutboxInv, ClaimsInv
    <2> QED BY <1>1, <1>4, <2>1
<1>6. \A b \in Alerts \ Unreadable : attempts'[b] <= refusals'[b]
    BY <1>1, <1>4, <1>5 DEF OutboxInv, ClaimsInv
<1>7. ASSUME NEW q \in Exporters, NEW b \in Alerts, lease'[b] = q
      PROVE  lease[b] = q /\ attempts'[b] = attempts[b]
    BY <1>2, <1>4, <1>7, OutboxAssumption
<1>8. \A q \in Exporters : exporters[q].pc # "idle" => exporters[q].alert \in Alerts
    BY DEF OutboxInv, ClaimsInv, TypeInv
<1>9. ASSUME NEW q \in Exporters, exporters'[q].pc # "idle"
      PROVE  /\ exporters'[q].alert \in accepted'
             /\ exporters'[q].pc = "reject" <=> exporters'[q].alert \in Unreadable
             /\ exporters'[q].pc = "complete" => exporters'[q].alert \in taken'
             /\ exporters'[q].pc = "fail" /\ lease'[exporters'[q].alert] = q
                    => attempts'[exporters'[q].alert] + 1 <= refusals'[exporters'[q].alert]
    <2>1. q # p /\ exporters'[q] = exporters[q]
        BY <1>3, <1>9
    <2>2. PICK b \in Alerts : b = exporters[q].alert
        BY <1>8, <1>9, <2>1
    <2>3. lease'[b] = q => lease[b] = q /\ attempts'[b] = attempts[b]
        BY <1>7
    <2> QED BY <1>1, <1>9, <2>1, <2>2, <2>3 DEF OutboxInv, ClaimsInv
<1> QED BY <1>6, <1>9 DEF ClaimsInv

LEMMA FailClaimStep ==
    ASSUME OutboxInv, NEW p \in Exporters, FailClaim(p)
    PROVE  OutboxInv'
<1>1. PICK a \in Alerts : a = exporters[p].alert
    BY DEF OutboxInv, TypeInv, ClaimsInv, FailClaim, At
<1>2. /\ exporters' \in [Exporters -> ExporterType] /\ exporters'[p].pc = "idle"
      /\ \A q \in Exporters \ {p} : exporters'[q] = exporters[q]
    BY WaitsFacts DEF FailClaim, OutboxInv
<1>3. CASE ~Holds(p)
    <2>1. UNCHANGED <<accepted, due, later, failed, attempts, lease, taken, refusals>>
        BY <1>3 DEF FailClaim
    <2> QED BY <1>2, <2>1, ExportersMove
<1>4. CASE Holds(p)
    <2>1. /\ Leaves(a) /\ attempts' = [attempts EXCEPT ![a] = @ + 1]
          /\ UNCHANGED <<accepted, taken, refusals>>
          /\ \/ failed' \in Pruned(Append(failed, a)) /\ UNCHANGED later
             \/ later' = Append(later, a) /\ UNCHANGED failed /\ ~Exhausted(attempts[a] + 1)
        BY <1>1, <1>4 DEF FailClaim
    <2>2. /\ a \in Range(due) /\ a \in Pending /\ a \in accepted /\ a \notin Range(later)
          /\ due' \in Seq(Alerts) /\ Range(due') = Range(due) \ {a} /\ Distinct(due')
          /\ lease' \in [Alerts -> Exporters \cup {None}]
        BY <2>1, LeavesFacts
    <2>3. /\ attempts' \in [Alerts -> Nat] /\ attempts'[a] = attempts[a] + 1
          /\ \A b \in Alerts \ {a} : attempts'[b] = attempts[b]
        BY <2>1 DEF OutboxInv, TypeInv
    <2>4. \A b \in Alerts \ accepted : attempts'[b] = 0
        BY <2>2, <2>3 DEF OutboxInv, RowsInv
    <2>5. CASE failed' \in Pruned(Append(failed, a)) /\ UNCHANGED later
        <3>1. Append(failed, a) \in Seq(Alerts) /\ Range(Append(failed, a)) = Range(failed) \cup {a}
            BY AppendFacts DEF OutboxInv, TypeInv
        <3>2. failed' \in Seq(Alerts) /\ Len(failed') <= MaxPending /\ Range(failed') \subseteq Range(failed) \cup {a}
            BY <2>5, <3>1, PrunedFacts
        <3>3. Pending' = Pending \ {a}
            BY <2>2, <2>5 DEF Pending
        <3>4. TypeInv'
            BY <1>2, <2>1, <2>2, <2>3, <2>5, <3>2 DEF OutboxInv, TypeInv
        <3>5. RowsInv'
            BY <2>1, <2>2, <2>4, <2>5, <3>2, <3>3, FewerPending DEF OutboxInv, RowsInv
        <3>6. OutboxKeepsBounds'
            BY <2>3, <3>2, <3>3, FewerPending DEF OutboxInv, OutboxKeepsBounds, TypeInv, RowsInv
        <3> QED BY <1>1, <1>4, <3>4, <3>5, <3>6, FailedClaimKeepsClaims DEF OutboxInv
    <2>6. CASE later' = Append(later, a) /\ UNCHANGED failed /\ ~Exhausted(attempts[a] + 1)
        <3>1. later' \in Seq(Alerts) /\ Range(later') = Range(later) \cup {a} /\ Distinct(later')
            BY <2>2, <2>6, AppendFacts DEF OutboxInv, TypeInv, RowsInv
        <3>2. Pending' = Pending
            BY <2>2, <3>1 DEF Pending
        <3>3. TypeInv'
            BY <1>2, <2>1, <2>2, <2>3, <2>6, <3>1 DEF OutboxInv, TypeInv
        <3>4. Range(due') \cap Range(later') = {}
            BY <2>2, <3>1 DEF OutboxInv, RowsInv
        <3>5. RowsInv'
            BY <2>1, <2>2, <2>4, <2>6, <3>1, <3>2, <3>4 DEF OutboxInv, RowsInv
        <3>6. \A b \in Pending : attempts'[b] < DeliveryAttempts
            <4>1. attempts'[a] < DeliveryAttempts
                BY <2>3, <2>6, OutboxAssumption DEF Exhausted, OutboxInv, TypeInv
            <4>2. Pending \subseteq Alerts
                BY DEF OutboxInv, RowsInv, TypeInv
            <4> QED BY <2>3, <4>1, <4>2 DEF OutboxInv, OutboxKeepsBounds
        <3>7. OutboxKeepsBounds'
            BY <2>6, <3>2, <3>6 DEF OutboxInv, OutboxKeepsBounds
        <3> QED BY <1>1, <1>4, <3>3, <3>5, <3>7, FailedClaimKeepsClaims DEF OutboxInv
    <2> QED BY <2>1, <2>5, <2>6
<1> QED BY <1>3, <1>4

LEMMA StepOutbox == OutboxInv /\ [Next]_vars => OutboxInv'
<1> SUFFICES ASSUME OutboxInv, [Next]_vars PROVE OutboxInv'
    OBVIOUS
<1>1. CASE \E p \in Exporters :
              Work(p) \/ TransactionFails(p) \/ Close(p) \/ Closed(p) \/ Crash(p) \/ Restart(p)
    BY <1>1, ClaimStep, SendStep, CompleteStep, FailClaimStep, QuietStep DEF Work
<1>2. CASE \E p \in Exporters, a \in Alerts : Enqueue(p, a)
    BY <1>2, EnqueueStep
<1>3. CASE DelayPasses
    BY <1>3, DelayPassesStep
<1>4. CASE (\E a \in Alerts : LeaseExpires(a)) \/ UNCHANGED vars
    <2>1. UNCHANGED <<accepted, due, later, failed, attempts, lease, exporters, taken, refusals>>
        BY <1>4 DEF LeaseExpires, vars, rows
    <2>2. TypeInv' /\ ClaimsInv'
        BY <2>1 DEF OutboxInv, TypeInv, ClaimsInv
    <2> QED BY <2>1, <2>2, RowsKept DEF OutboxInv
<1> QED BY <1>1, <1>2, <1>3, <1>4 DEF Next

---------------------------------------------------------------------------
(* The outbox keeps its rows apart, counts every failed attempt once and     *)
(* never more than the endpoint refused (failClaim() checks that the lease   *)
(* is still its own), whoever crashes and whatever lease runs out.           *)
THEOREM OutboxInvariant == Spec => []OutboxInv
<1>1. Init => OutboxInv
    BY InitOutbox
<1>2. OutboxInv /\ [Next]_vars => OutboxInv'
    BY StepOutbox
<1> QED BY <1>1, <1>2, PTL DEF Spec

(* No pending row has used up its attempts, so that claim() never refuses    *)
(* the first row that is due, and both halves of the table stay within       *)
(* maxPendingAlerts.                                                         *)
THEOREM NoRowBlocksTheOutbox == Spec => []OutboxKeepsBounds
<1>1. OutboxInv => OutboxKeepsBounds
    BY DEF OutboxInv
<1> QED BY <1>1, OutboxInvariant, PTL

---------------------------------------------------------------------------
(* The outbox implements the promise                                         *)

LEMMA StageMoves ==
    ASSUME NEW a \in Alerts, NEW from, NEW to, Stage[a] = from, Stage'[a] = to,
           \A b \in Alerts \ {a} : Stage'[b] = Stage[b] \/ (Stage[b] = "failed" /\ Stage'[b] = "gone"),
           UNCHANGED <<taken, refusals>>
    PROVE  Promise!Moves(a, from, to)
<1> DEFINE next == [Stage' EXCEPT ![a] = from]
<1>1. next[a] = from /\ \A b \in Alerts \ {a} : next[b] = Stage'[b]
    BY DEF Stage
<1> HIDE DEF next
<1>2. Promise!Forgotten(next)
    BY <1>1 DEF Promise!Forgotten
<1> QED BY <1>2 DEF Promise!Moves, next

LEMMA StageStays ==
    ASSUME accepted' = accepted, Pending' = Pending, failed' = failed, UNCHANGED <<taken, refusals>>
    PROVE  UNCHANGED Promise!promiseVars
BY DEF Stage, Promise!promiseVars

LEMMA EnqueueAccepts ==
    ASSUME OutboxInv, NEW p \in Exporters, NEW a \in Alerts, Enqueue(p, a)
    PROVE  Promise!Accept(a)
<1>1. /\ a \notin accepted /\ accepted' = accepted \cup {a} /\ due' = Append(due, a)
      /\ failed' \in Pruned(failed) /\ UNCHANGED <<later, taken, refusals>>
    BY DEF Enqueue
<1>2. Range(due') = Range(due) \cup {a} /\ Range(failed') \subseteq Range(failed)
    BY <1>1, AppendFacts, PrunedFacts DEF OutboxInv, TypeInv
<1>3. Pending' = Pending \cup {a}
    BY <1>1, <1>2 DEF Pending
<1>4. Stage[a] = "new" /\ Stage'[a] = "pending"
    BY <1>1, <1>3 DEF Stage
<1>5. \A b \in Alerts \ {a} : Stage'[b] = Stage[b] \/ (Stage[b] = "failed" /\ Stage'[b] = "gone")
    BY <1>1, <1>2, <1>3 DEF Stage
<1> QED BY <1>1, <1>4, <1>5, StageMoves DEF Promise!Accept

LEMMA SendOffers ==
    ASSUME OutboxInv, NEW p \in Exporters, Send(p)
    PROVE  \E a \in Alerts : Promise!Offer(a)
<1>1. PICK a \in Alerts : a = exporters[p].alert /\ a \in accepted /\ a \notin Unreadable
    BY DEF OutboxInv, TypeInv, ClaimsInv, Send, At
<1>2. UNCHANGED <<accepted, due, later, failed>>
    BY DEF Send, rows
<1>3. UNCHANGED Stage /\ Stage[a] # "new"
    BY <1>1, <1>2 DEF Stage, Pending
<1>4. taken' \in {taken, taken \cup {a}} /\ refusals' \in {refusals, [refusals EXCEPT ![a] = @ + 1]}
    BY <1>1 DEF Send
<1> QED BY <1>1, <1>3, <1>4 DEF Promise!Offer

LEMMA CompleteFinishes ==
    ASSUME OutboxInv, NEW p \in Exporters, Complete(p)
    PROVE  (\E a \in Alerts : Promise!Finish(a)) \/ UNCHANGED Promise!promiseVars
<1>1. PICK a \in Alerts : a = exporters[p].alert /\ a \in taken
    BY DEF OutboxInv, TypeInv, ClaimsInv, Complete, At
<1>2. UNCHANGED <<accepted, later, failed, taken, refusals>>
    BY DEF Complete
<1>3. CASE Holds(p)
    <2>1. a \in Pending /\ a \in accepted /\ a \notin Range(later) /\ Range(due') = Range(due) \ {a}
        BY <1>1, <1>3, LeavesFacts DEF Complete
    <2>2. Pending' = Pending \ {a}
        BY <1>2, <2>1 DEF Pending
    <2>3. a \notin Range(failed)
        BY <2>1 DEF OutboxInv, RowsInv
    <2>4. Stage[a] = "pending" /\ Stage'[a] = "gone"
        BY <1>2, <2>1, <2>2, <2>3 DEF Stage
    <2>5. \A b \in Alerts \ {a} : Stage'[b] = Stage[b]
        BY <1>2, <2>2 DEF Stage
    <2>6. Promise!Moves(a, "pending", "gone")
        BY <1>2, <2>4, <2>5, StageMoves
    <2> QED BY <1>1, <2>6 DEF Promise!Finish
<1>4. CASE ~Holds(p)
    <2>1. Pending' = Pending
        BY <1>2, <1>4 DEF Complete, Pending
    <2> QED BY <1>2, <2>1, StageStays
<1> QED BY <1>3, <1>4

LEMMA FailClaimGivesUp ==
    ASSUME OutboxInv, NEW p \in Exporters, FailClaim(p)
    PROVE  (\E a \in Alerts : Promise!GiveUp(a)) \/ UNCHANGED Promise!promiseVars
<1>1. PICK a \in Alerts : a = exporters[p].alert
    BY DEF OutboxInv, TypeInv, ClaimsInv, FailClaim, At
<1>2. UNCHANGED <<accepted, taken, refusals>>
    BY DEF FailClaim
<1>3. CASE ~Holds(p)
    <2>1. Pending' = Pending /\ failed' = failed
        BY <1>3 DEF FailClaim, Pending
    <2> QED BY <1>2, <2>1, StageStays
<1>4. CASE Holds(p)
    <2>1. /\ Leaves(a)
          /\ \/ /\ failed' \in Pruned(Append(failed, a)) \ {<<>>} /\ UNCHANGED later
                /\ exporters[p].pc = "reject" \/ Exhausted(attempts[a] + 1)
             \/ later' = Append(later, a) /\ UNCHANGED failed
        BY <1>1, <1>4 DEF FailClaim
    <2>2. /\ a \in Pending /\ a \in accepted /\ a \notin Range(later) /\ a \in Range(due)
          /\ Range(due') = Range(due) \ {a}
        BY <2>1, LeavesFacts
    <2>3. CASE later' = Append(later, a) /\ UNCHANGED failed
        <3>1. Range(later') = Range(later) \cup {a}
            BY <2>3, AppendFacts DEF OutboxInv, TypeInv
        <3>2. Pending' = Pending
            BY <2>2, <3>1 DEF Pending
        <3> QED BY <1>2, <2>3, <3>2, StageStays
    <2>4. CASE /\ failed' \in Pruned(Append(failed, a)) \ {<<>>} /\ UNCHANGED later
               /\ exporters[p].pc = "reject" \/ Exhausted(attempts[a] + 1)
        <3> DEFINE s == Append(failed, a)
        <3>1. s \in Seq(Alerts) /\ Range(s) = Range(failed) \cup {a} /\ s[Len(s)] = a
            BY AppendFacts DEF OutboxInv, TypeInv
        <3>2. Range(failed') \subseteq Range(s) /\ s[Len(s)] \in Range(failed')
            <4>1. failed' \in Pruned(s) /\ failed' # <<>>
                BY <2>4
            <4> HIDE DEF s
            <4> QED BY <3>1, <4>1, PrunedFacts
        <3> HIDE DEF s
        <3>3. Pending' = Pending \ {a}
            BY <2>2, <2>4 DEF Pending
        <3>4. Stage[a] = "pending" /\ Stage'[a] = "failed"
            BY <1>2, <2>2, <3>1, <3>2, <3>3 DEF Stage
        <3>5. ASSUME NEW b \in Alerts \ {a}
              PROVE  Stage'[b] = Stage[b] \/ (Stage[b] = "failed" /\ Stage'[b] = "gone")
            <4>1. b \in Range(failed') => b \in Range(failed)
                BY <3>1, <3>2
            <4>2. b \in Pending' <=> b \in Pending
                BY <3>3
            <4> QED BY <1>2, <4>1, <4>2 DEF Stage
        <3>6. Promise!Moves(a, "pending", "failed")
            BY <1>2, <3>4, <3>5, StageMoves
        <3>7. a \in Unreadable \/ refusals[a] >= DeliveryAttempts
            <4>1. CASE exporters[p].pc = "reject"
                BY <1>1, <4>1 DEF OutboxInv, ClaimsInv
            <4>2. CASE exporters[p].pc = "fail" /\ Exhausted(attempts[a] + 1)
                <5>1. attempts[a] + 1 <= refusals[a]
                    BY <1>1, <1>4, <4>2 DEF OutboxInv, ClaimsInv, Holds
                <5>2. attempts[a] \in Nat /\ refusals[a] \in Nat
                    BY DEF OutboxInv, TypeInv
                <5> QED BY <4>2, <5>1, <5>2, OutboxAssumption DEF Exhausted
            <4> QED BY <2>4, <4>1, <4>2 DEF FailClaim, At
        <3> QED BY <3>6, <3>7 DEF Promise!GiveUp
    <2> QED BY <2>1, <2>3, <2>4
<1> QED BY <1>3, <1>4

LEMMA StepPromise == OutboxInv /\ [Next]_vars => [Promise!Next]_(Promise!promiseVars)
<1> SUFFICES ASSUME OutboxInv, [Next]_vars PROVE [Promise!Next]_(Promise!promiseVars)
    OBVIOUS
<1>1. CASE \E p \in Exporters, a \in Alerts : Enqueue(p, a)
    BY <1>1, EnqueueAccepts DEF Promise!Next
<1>2. CASE \E p \in Exporters : Send(p) \/ Complete(p) \/ FailClaim(p)
    BY <1>2, SendOffers, CompleteFinishes, FailClaimGivesUp DEF Promise!Next
<1>3. CASE DelayPasses
    <2>1. later \in Seq(Alerts) /\ later # <<>> /\ due \in Seq(Alerts) /\ Distinct(later)
        BY <1>3 DEF DelayPasses, OutboxInv, TypeInv, RowsInv
    <2>2. PICK a \in Alerts : a = Head(later)
        BY <2>1
    <2>3. a \in Range(later) /\ Range(Tail(later)) = Range(later) \ {a}
        BY <2>1, <2>2, HeadFacts
    <2>4. Range(Append(due, a)) = Range(due) \cup {a}
        BY <2>1, AppendFacts
    <2>5. Pending' = Pending
        BY <1>3, <2>2, <2>3, <2>4 DEF DelayPasses, Pending
    <2> QED BY <1>3, <2>5, StageStays DEF DelayPasses
<1>4. CASE \/ \E p \in Exporters :
                 \/ Claim(p) \/ TransactionFails(p) \/ Close(p) \/ Closed(p) \/ Crash(p) \/ Restart(p)
           \/ (\E a \in Alerts : LeaseExpires(a)) \/ UNCHANGED vars
    <2>1. UNCHANGED <<accepted, due, later, failed, taken, refusals>>
        BY <1>4 DEF Claim, TransactionFails, Close, Closed, Crash, Restart, LeaseExpires, vars, rows
    <2> QED BY <2>1, StageStays DEF Pending
<1> QED BY <1>1, <1>2, <1>3, <1>4 DEF Next, Work

(* No accepted alert is lost, and none is given up before the endpoint was   *)
(* offered it as often as the policy says: complete() and failClaim() change *)
(* nothing when the lease was taken over, and what a crash leaves behind is  *)
(* a pending row.                                                            *)
THEOREM OutboxKeepsPromise == Spec => ImplementsAlertPromise
<1>1. Init => Promise!Init
    <2>1. ASSUME Init PROVE Stage = [a \in Alerts |-> "new"]
        BY <2>1 DEF Init, Stage
    <2> QED BY <2>1 DEF Init, Promise!Init
<1>2. OutboxInv /\ [Next]_vars => [Promise!Next]_(Promise!promiseVars)
    BY StepPromise
<1> QED BY <1>1, <1>2, OutboxInvariant, PTL DEF Spec, ImplementsAlertPromise, Promise!Spec
=============================================================================
