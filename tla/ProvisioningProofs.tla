------------------------- MODULE ProvisioningProofs -------------------------
(***************************************************************************)
(* Proofs, for any number of callers and organizations and any bounds, that *)
(* the router opens an organization's runtime only after the last one is   *)
(* done with, closes none under a lease, and leaves none behind when it    *)
(* closes, and that an active organization has been opened.                *)
(*                                                                         *)
(* The router and the requests act on disjoint variables, joined by the    *)
(* leases: each action of the router preserves RouterInv, and the requests *)
(* add what their step implies of their caller.                            *)
(***************************************************************************)
EXTENDS ProvisioningProperties, FiniteSetTheorems, SequenceTheorems, TLAPS

---------------------------------------------------------------------------
(* The inductive invariant *)

RuntimeStates == {"none", "opening", "open", "aborted", "closing", "closed", "stuck", "failed"}
Runtime == [organization : Organizations \cup {"none"}, references : Int, state : RuntimeStates]
Busy == [pc : {"open", "evict"}, caller : Callers, runtime : 1..MaxOpens]
Caller == [status : {"idle", "queued", "waiting", "holding"}, organization : Organizations \cup {"none"},
           runtime : 0..MaxOpens]

RouterType ==
    /\ runtimes \in [1..MaxOpens -> Runtime]
    /\ resident \in [Organizations -> 0..MaxOpens]
    /\ queue \in Seq(Callers \cup {TheRouter})
    /\ current \in {Idle, [pc |-> "close"]} \cup Busy
    /\ callers \in [Callers -> Caller]
    /\ router \in {"open", "closing", "closed"}

CloseIsDue == router = "closing" /\ current.pc # "close"

(* The chain of allocations: each queued caller once, and the router's own   *)
(* close behind everyone else.                                               *)
QueueInv ==
    /\ \A i, j \in 1..Len(queue) : queue[i] = queue[j] => i = j
    /\ \A i \in 1..Len(queue) :
           \/ queue[i] = TheRouter /\ i = Len(queue) /\ CloseIsDue
           \/ queue[i] \in Callers /\ callers[queue[i]].status = "queued"
              /\ (current.pc \in {"open", "evict"} => current.caller # queue[i])
    /\ CloseIsDue => queue # <<>> /\ queue[Len(queue)] = TheRouter
    /\ Opened = 1..Cardinality(Opened)
    /\ WillHaveOpened <= MaxOpens + (IF CloseIsDue THEN 1 ELSE 0)
    /\ router = "closed" => current = Idle
    /\ current.pc = "close" => router = "closing"

Unfinishing == {e \in Opened : runtimes[e].state \in Unfinished}

(* The runtimes in the map are those that are not closing or done with.      *)
MapInv ==
    /\ \A o \in Organizations : resident[o] # 0 =>
           runtimes[resident[o]].organization = o /\ runtimes[resident[o]].state \in {"opening", "open", "aborted"}
    /\ \A e \in Opened :
           /\ runtimes[e].organization \in Organizations
           /\ runtimes[e].state \in {"opening", "open", "aborted"} => resident[runtimes[e].organization] = e
           /\ runtimes[e].state = "opening" => current.pc = "open" /\ current.runtime = e
           /\ runtimes[e].state = "closing" =>
                  current.pc = "close" \/ (current.pc = "evict" /\ current.runtime = e)
    /\ current.pc = "open" => /\ runtimes[current.runtime].state = "opening"
                              /\ runtimes[current.runtime].organization = callers[current.caller].organization
    /\ current.pc = "evict" => /\ runtimes[current.runtime].state = "closing"
                               /\ resident[runtimes[current.runtime].organization] = 0
                               /\ resident[callers[current.caller].organization] = 0
    /\ current.pc = "close" \/ router = "closed" => \A o \in Organizations : resident[o] = 0
    /\ \A e, other \in Unfinishing : runtimes[e].organization = runtimes[other].organization => e = other
    /\ Cardinality(Unfinishing) <= MaxActive
    /\ router = "closed" => Unfinishing = {}

(* What a caller holds, and who is counted by the runtimes in the map.       *)
LeaseInv ==
    /\ \A c \in Callers :
           /\ callers[c].status = "idle" => callers[c] = Away
           /\ callers[c].status = "queued" => callers[c].runtime = 0 /\ callers[c].organization \in Organizations
           /\ callers[c].status \in {"waiting", "holding"} =>
                  /\ callers[c].runtime \in Opened
                  /\ callers[c].organization = runtimes[callers[c].runtime].organization
           /\ callers[c].status = "holding" => runtimes[callers[c].runtime].state \notin {"opening", "failed"}
           /\ router = "open" /\ callers[c].status \in {"waiting", "holding"} =>
                  runtimes[callers[c].runtime].state \notin {"closing", "closed", "stuck"}
    /\ current.pc \in {"open", "evict"} => callers[current.caller].status = "queued"
    /\ \A e \in Residents : runtimes[e].references = Cardinality(Users(e))

RouterInv == RouterType /\ QueueInv /\ MapInv /\ LeaseInv

RequestSteps == {"idle", "counted", "provision", "acquiring", "marking", "failing", "reading", "entering", "visiting"}

(* What a request is at, and what its caller has in the router.              *)
Fits(request, caller) ==
    /\ request.pc # "idle" => request.organization \in Organizations
    /\ caller.status # "idle" =>
           /\ request.pc \in {"acquiring", "marking", "reading", "visiting"}
           /\ request.organization = caller.organization
    /\ caller.status \in {"queued", "waiting"} => request.pc \in {"acquiring", "visiting"}
    /\ request.pc = "marking" => caller.status = "holding"

ProvisioningInv ==
    /\ RouterInv
    /\ states \in [Organizations -> {"none", "provisioning", "active", "failed"}]
    /\ requests \in [Callers -> [pc : RequestSteps, organization : Organizations \cup {"none"}]]
    /\ \A c \in Callers : Fits(requests[c], callers[c])
    /\ ActiveMeansEstablished

---------------------------------------------------------------------------
(* Helpers *)

LEMMA CurrentFacts ==
    ASSUME RouterType
    PROVE  /\ current.pc \in {"idle", "close", "open", "evict"}
           /\ current.pc = "idle" <=> current = Idle
           /\ current.pc \in {"open", "evict"} => current.caller \in Callers /\ current.runtime \in 1..MaxOpens
BY DEF RouterType, Busy, Idle

LEMMA OpenedFinite ==
    ASSUME NEW S \in SUBSET (1..MaxOpens)
    PROVE  IsFiniteSet(S) /\ Cardinality(S) \in Nat
<1>1. 1 \in Int /\ MaxOpens \in Int
    BY RouterAssumption
<1>2. IsFiniteSet(1..MaxOpens)
    BY <1>1, FS_Interval
<1> QED BY <1>2, FS_Subset, FS_CardinalityType

LEMMA RuntimesFinite ==
    ASSUME RouterType
    PROVE  /\ Opened \in SUBSET (1..MaxOpens) /\ Residents \in SUBSET (1..MaxOpens)
           /\ Unfinishing \in SUBSET (1..MaxOpens)
           /\ IsFiniteSet(Opened) /\ Cardinality(Opened) \in Nat
           /\ IsFiniteSet(Residents) /\ Cardinality(Residents) \in Nat
           /\ IsFiniteSet(Unfinishing) /\ Cardinality(Unfinishing) \in Nat
<1>1. Opened \in SUBSET (1..MaxOpens) /\ Unfinishing \in SUBSET (1..MaxOpens)
    BY DEF Opened, Unfinishing
<1>2. Residents \in SUBSET (1..MaxOpens)
    BY RouterAssumption DEF RouterType, Residents
<1> QED BY <1>1, <1>2, OpenedFinite

LEMMA UsersFinite ==
    ASSUME NEW e
    PROVE  IsFiniteSet(Users(e)) /\ Cardinality(Users(e)) \in Nat /\ Users(e) \in SUBSET Callers
BY RouterAssumption, FS_Subset, FS_CardinalityType DEF Users

(* A resident runtime is one of those that are not done with.                *)
LEMMA ResidentFacts ==
    ASSUME RouterType, MapInv, NEW e \in Residents
    PROVE  /\ e \in Opened /\ e \in Unfinishing /\ runtimes[e].state \in {"opening", "open", "aborted"}
           /\ runtimes[e].organization \in Organizations /\ resident[runtimes[e].organization] = e
<1>1. PICK o \in Organizations : resident[o] = e /\ e # 0
    BY DEF Residents
<1>2. e \in 1..MaxOpens /\ runtimes[e].organization = o /\ runtimes[e].state \in {"opening", "open", "aborted"}
    BY <1>1, RouterAssumption DEF RouterType, MapInv
<1> QED BY <1>1, <1>2 DEF Opened, Unfinishing, Unfinished

(* While no allocation runs, the runtimes that are not done with are those   *)
(* in the map.                                                               *)
LEMMA IdleFacts ==
    ASSUME RouterType, MapInv, current = Idle
    PROVE  Unfinishing = Residents /\ \A e \in Opened : runtimes[e].state \notin {"opening", "closing"}
<1>1. current.pc = "idle"
    BY DEF Idle
<1>2. \A e \in Opened : runtimes[e].state \notin {"opening", "closing"}
    BY <1>1 DEF MapInv
<1>3. ASSUME NEW e \in Unfinishing PROVE e \in Residents
    <2>1. e \in Opened /\ runtimes[e].state \in {"open", "aborted"} /\ e # 0
        BY <1>2, RouterAssumption DEF Unfinishing, Unfinished, Opened
    <2>2. resident[runtimes[e].organization] = e /\ runtimes[e].organization \in Organizations
        BY <2>1 DEF MapInv
    <2> QED BY <2>1, <2>2 DEF Residents
<1> QED BY <1>2, <1>3, ResidentFacts

---------------------------------------------------------------------------
(* Leases are taken, granted and returned *)

(* What one caller may hold.                                                 *)
Backed(r) ==
    /\ r.status = "idle" => r = Away
    /\ r.status = "queued" => r.runtime = 0 /\ r.organization \in Organizations
    /\ r.status \in {"waiting", "holding"} =>
           /\ r.runtime \in Opened
           /\ r.organization = runtimes[r.runtime].organization
    /\ r.status = "holding" => runtimes[r.runtime].state \notin {"opening", "failed"}
    /\ router = "open" /\ r.status \in {"waiting", "holding"} =>
           runtimes[r.runtime].state \notin {"closing", "closed", "stuck"}

LEMMA UsersMove ==
    ASSUME RouterType, NEW c \in Callers, NEW r \in Caller, callers' = [callers EXCEPT ![c] = r], UNCHANGED current,
           current.pc = "open" => current.caller # c, NEW e
    PROVE  Cardinality(Users(e)') = Cardinality(Users(e)) - (IF callers[c].runtime = e THEN 1 ELSE 0)
                                                          + (IF r.runtime = e THEN 1 ELSE 0)
<1>1. Users(e)' = IF r.runtime = e THEN Users(e) \cup {c} ELSE Users(e) \ {c}
    BY DEF RouterType, Users
<1>2. c \in Users(e) <=> callers[c].runtime = e
    BY DEF Users
<1>3. /\ Cardinality(Users(e) \cup {c}) =
             IF c \in Users(e) THEN Cardinality(Users(e)) ELSE Cardinality(Users(e)) + 1
      /\ Cardinality(Users(e) \ {c}) =
             IF c \in Users(e) THEN Cardinality(Users(e)) - 1 ELSE Cardinality(Users(e))
      /\ Cardinality(Users(e)) \in Nat
    BY UsersFinite, FS_AddElement, FS_RemoveElement
<1> QED BY <1>1, <1>2, <1>3

(* A caller asks, is turned away, or takes, is granted or returns a lease,   *)
(* while the running allocation is somebody else's.                          *)
LEMMA LendingStep ==
    ASSUME RouterInv, NEW c \in Callers, NEW r \in Caller, Backed(r),
           callers' = [callers EXCEPT ![c] = r], UNCHANGED <<resident, current, router>>,
           current.pc \in {"open", "evict"} => current.caller # c,
           QueueInv', queue' \in Seq(Callers \cup {TheRouter}),
           runtimes' \in [1..MaxOpens -> Runtime],
           \A e \in 1..MaxOpens : /\ runtimes'[e].state = runtimes[e].state
                                  /\ runtimes'[e].organization = runtimes[e].organization,
           \A e \in Residents : runtimes'[e].references =
               runtimes[e].references - (IF callers[c].runtime = e THEN 1 ELSE 0) + (IF r.runtime = e THEN 1 ELSE 0)
    PROVE  RouterInv'
<1>0. RouterType /\ QueueInv /\ MapInv /\ LeaseInv
    BY DEF RouterInv
<1>1. RouterType'
    BY <1>0 DEF RouterType
<1>2. Opened' = Opened /\ Residents' = Residents /\ Unfinishing' = Unfinishing
    BY DEF Opened, Residents, Unfinishing
<1>3. \A d \in Callers : callers'[d] = IF d = c THEN r ELSE callers[d]
    BY <1>0 DEF RouterType
<1>4. current.pc \in {"open", "evict"} => current.caller # c /\ callers'[current.caller] = callers[current.caller]
    BY <1>0, <1>3, CurrentFacts
<1>7. MapInv'
    <2>1. Opened \subseteq 1..MaxOpens /\ Unfinishing \subseteq 1..MaxOpens
        BY DEF Opened, Unfinishing
    <2>2. \A o \in Organizations : resident[o] # 0 => resident[o] \in 1..MaxOpens
        BY <1>0, RouterAssumption DEF RouterType
    <2>3. current.pc \in {"open", "evict"} => current.runtime \in 1..MaxOpens
        BY <1>0, CurrentFacts
    <2>4. \A o \in Organizations : resident[o] # 0 =>
                  /\ runtimes'[resident[o]].organization = o
                  /\ runtimes'[resident[o]].state \in {"opening", "open", "aborted"}
        BY <1>0, <2>2 DEF MapInv
    <2>6. /\ \A e \in Opened :
                  /\ runtimes'[e].organization \in Organizations
                  /\ runtimes'[e].state \in {"opening", "open", "aborted"} => resident[runtimes'[e].organization] = e
                  /\ runtimes'[e].state = "opening" => current.pc = "open" /\ current.runtime = e
                  /\ runtimes'[e].state = "closing" =>
                         current.pc = "close" \/ (current.pc = "evict" /\ current.runtime = e)
          /\ \A e, other \in Unfinishing : runtimes'[e].organization = runtimes'[other].organization => e = other
        BY <1>0, <2>1 DEF MapInv
    <2>5. /\ current.pc = "open" => /\ runtimes'[current.runtime].state = "opening"
                                    /\ runtimes'[current.runtime].organization = callers'[current.caller].organization
          /\ current.pc = "evict" => /\ runtimes'[current.runtime].state = "closing"
                                     /\ resident[runtimes'[current.runtime].organization] = 0
                                     /\ resident[callers'[current.caller].organization] = 0
        BY <1>0, <1>4, <2>3 DEF MapInv
    <2> QED BY <1>0, <1>2, <2>4, <2>5, <2>6 DEF MapInv
<1>8. \A e \in Residents : runtimes'[e].references = Cardinality(Users(e)')
    <2> SUFFICES ASSUME NEW e \in Residents PROVE runtimes'[e].references = Cardinality(Users(e)')
        OBVIOUS
    <2>1. runtimes[e].references = Cardinality(Users(e))
        BY <1>0 DEF LeaseInv
    <2>2. Cardinality(Users(e)') = Cardinality(Users(e)) - (IF callers[c].runtime = e THEN 1 ELSE 0)
                                                         + (IF r.runtime = e THEN 1 ELSE 0)
        <3>1. current.pc = "open" => current.caller # c
            BY <1>4
        <3>2. RouterType /\ UNCHANGED current
            BY <1>0
        <3> QED BY <3>1, <3>2, UsersMove, ZenonT(60)
    <2> QED BY <2>1, <2>2
<1>9. \A d \in Callers : Backed(callers[d])'
    <2>1. \A d \in Callers : Backed(callers[d])
        BY <1>0 DEF LeaseInv, Backed
    <2>2. \A d \in Callers : Backed(callers'[d])
        BY <1>3, <2>1
    <2> QED BY <1>2, <2>2 DEF Backed, Opened
<1>10. LeaseInv'
    BY <1>0, <1>2, <1>4, <1>8, <1>9 DEF LeaseInv, Backed
<1> QED BY <1>1, <1>7, <1>10 DEF RouterInv

LEMMA QueueStays ==
    ASSUME RouterType, QueueInv, Opened' = Opened, UNCHANGED <<queue, current, router>>,
           \A d \in Callers : callers[d].status = "queued" => callers'[d].status = "queued"
    PROVE  QueueInv'
<1>1. CloseIsDue' = CloseIsDue
    BY DEF CloseIsDue
<1> QED BY <1>1 DEF QueueInv, WillHaveOpened

(* The lease of a runtime in the map.                                        *)
LEMMA LeaseStep ==
    ASSUME RouterInv, NEW c \in Callers, NEW o \in Organizations, resident[o] # 0, Lease(c, o, resident[o]),
           UNCHANGED <<resident, current, router>>, callers[c].runtime = 0,
           current.pc \in {"open", "evict"} => current.caller # c,
           QueueInv', queue' \in Seq(Callers \cup {TheRouter})
    PROVE  RouterInv'
<1> DEFINE e == resident[o]
           r == [status |-> "waiting", organization |-> o, runtime |-> e]
<1>0. RouterType /\ QueueInv /\ MapInv /\ LeaseInv /\ e \in Residents
    BY DEF RouterInv, Residents
<1>1. e \in Opened /\ e \in 1..MaxOpens /\ runtimes[e].organization = o
      /\ runtimes[e].state \in {"opening", "open", "aborted"} /\ runtimes[e] \in Runtime
    BY <1>0, ResidentFacts DEF MapInv, RouterType, Opened
<1>2. r \in Caller /\ Backed(r)
    BY <1>1, RouterAssumption DEF Caller, Backed
<1>3. callers' = [callers EXCEPT ![c] = r] /\ runtimes' = [runtimes EXCEPT ![e].references = @ + 1]
    BY DEF Lease, SetCaller
<1>4. \A d \in 1..MaxOpens : runtimes'[d] = IF d = e THEN [runtimes[e] EXCEPT !.references = @ + 1] ELSE runtimes[d]
    BY <1>0, <1>3 DEF RouterType
<1>5. [runtimes[e] EXCEPT !.references = @ + 1] \in Runtime
    BY <1>1 DEF Runtime
<1>6. runtimes' \in [1..MaxOpens -> Runtime]
    BY <1>0, <1>3, <1>5 DEF RouterType
<1>7. \A d \in 1..MaxOpens : runtimes'[d].state = runtimes[d].state /\ runtimes'[d].organization = runtimes[d].organization
    BY <1>1, <1>4 DEF Runtime
<1>8. \A d \in Residents : runtimes'[d].references =
          runtimes[d].references - (IF callers[c].runtime = d THEN 1 ELSE 0) + (IF r.runtime = d THEN 1 ELSE 0)
    <2> SUFFICES ASSUME NEW d \in Residents
                 PROVE  runtimes'[d].references = runtimes[d].references - 0 + (IF e = d THEN 1 ELSE 0)
        BY DEF Residents
    <2>1. d \in 1..MaxOpens /\ runtimes[d] \in Runtime
        BY <1>0, RuntimesFinite DEF RouterType
    <2> QED BY <1>1, <1>4, <2>1 DEF Runtime
<1> HIDE DEF r
<1> QED BY <1>2, <1>3, <1>6, <1>7, <1>8, LendingStep

(* A lease, or a claim to one, is given back.                                *)
LEMMA GivesBackStep ==
    ASSUME RouterInv, NEW c \in Callers, callers[c].status \in {"waiting", "holding"},
           runtimes' = [runtimes EXCEPT ![callers[c].runtime].references = @ - 1], Refuse(c),
           UNCHANGED <<resident, queue, current, router>>
    PROVE  RouterInv'
<1> DEFINE e == callers[c].runtime
<1>0. RouterType /\ QueueInv /\ MapInv /\ LeaseInv
    BY DEF RouterInv
<1>1. e \in Opened /\ e \in 1..MaxOpens /\ runtimes[e] \in Runtime
    BY <1>0 DEF LeaseInv, RouterType, Opened
<1>2. Away \in Caller /\ Backed(Away) /\ Away.runtime = 0 /\ Away.status = "idle"
    BY RouterAssumption DEF Away, Caller, Backed
<1>3. callers' = [callers EXCEPT ![c] = Away] /\ runtimes' = [runtimes EXCEPT ![e].references = @ - 1]
    BY DEF Refuse
<1>4. \A d \in 1..MaxOpens : runtimes'[d] = IF d = e THEN [runtimes[e] EXCEPT !.references = @ - 1] ELSE runtimes[d]
    BY <1>0, <1>3 DEF RouterType
<1>5. [runtimes[e] EXCEPT !.references = @ - 1] \in Runtime
    BY <1>1 DEF Runtime
<1>6. runtimes' \in [1..MaxOpens -> Runtime]
    BY <1>0, <1>3, <1>5 DEF RouterType
<1>7. \A d \in 1..MaxOpens : runtimes'[d].state = runtimes[d].state /\ runtimes'[d].organization = runtimes[d].organization
    BY <1>1, <1>4 DEF Runtime
<1>8. \A d \in Residents : runtimes'[d].references =
          runtimes[d].references - (IF callers[c].runtime = d THEN 1 ELSE 0) + (IF Away.runtime = d THEN 1 ELSE 0)
    <2> SUFFICES ASSUME NEW d \in Residents
                 PROVE  runtimes'[d].references = runtimes[d].references - (IF e = d THEN 1 ELSE 0) + 0
        BY <1>2 DEF Residents
    <2>1. d \in 1..MaxOpens /\ runtimes[d] \in Runtime
        BY <1>0, RuntimesFinite DEF RouterType
    <2> QED BY <1>1, <1>4, <2>1 DEF Runtime
<1>9. Opened' = Opened /\ \A d \in Callers : callers[d].status = "queued" => callers'[d].status = "queued"
    BY <1>0, <1>3, <1>7 DEF Opened, RouterType
<1>10. QueueInv' /\ queue' \in Seq(Callers \cup {TheRouter})
    BY <1>0, <1>9, QueueStays DEF RouterType
<1>11. current.pc \in {"open", "evict"} => current.caller # c
    BY <1>0 DEF LeaseInv
<1> QED BY <1>2, <1>3, <1>6, <1>7, <1>8, <1>10, <1>11, LendingStep

(* The opening has settled well for one who waited.                          *)
LEMMA GrantedStep ==
    ASSUME RouterInv, NEW c \in Callers, Granted(c)
    PROVE  RouterInv'
<1> DEFINE e == callers[c].runtime
           r == [status |-> "holding", organization |-> callers[c].organization, runtime |-> e]
<1>0. RouterType /\ QueueInv /\ MapInv /\ LeaseInv /\ callers[c].status = "waiting"
    BY DEF RouterInv, Granted
<1>1. CASE runtimes[e].state = "failed"
    BY <1>0, <1>1, GivesBackStep DEF Granted
<1>2. CASE runtimes[e].state # "failed"
    <2>1. /\ callers' = [callers EXCEPT ![c] = r] /\ UNCHANGED <<runtimes, resident, queue, current, router>>
          /\ runtimes[e].state # "opening"
        BY <1>2 DEF Granted, SetCaller
    <2>2. r \in Caller /\ Backed(r)
        BY <1>0, <1>2, <2>1 DEF Caller, Backed, LeaseInv, RouterType
    <2>3. Opened' = Opened /\ \A d \in Callers : callers[d].status = "queued" => callers'[d].status = "queued"
        BY <1>0, <2>1 DEF Opened, RouterType
    <2>4. QueueInv' /\ queue' \in Seq(Callers \cup {TheRouter})
        BY <1>0, <2>1, <2>3, QueueStays DEF RouterType
    <2>5. current.pc \in {"open", "evict"} => current.caller # c
        BY <1>0 DEF LeaseInv
    <2>6. runtimes' \in [1..MaxOpens -> Runtime]
        BY <1>0, <2>1 DEF RouterType
    <2>7. \A d \in Residents : runtimes'[d].references =
              runtimes[d].references - (IF callers[c].runtime = d THEN 1 ELSE 0) + (IF r.runtime = d THEN 1 ELSE 0)
        <3> TAKE d \in Residents
        <3>1. runtimes[d].references \in Int
            BY <1>0, RuntimesFinite DEF RouterType, Runtime
        <3> QED BY <2>1, <3>1
    <2> HIDE DEF r
    <2> QED BY <2>1, <2>2, <2>4, <2>5, <2>6, <2>7, LendingStep
<1> QED BY <1>1, <1>2

LEMMA ReleaseStep ==
    ASSUME RouterInv, NEW c \in Callers, Release(c)
    PROVE  RouterInv'
BY GivesBackStep DEF Release

(* A request joins the chain, if it may still open a runtime.                *)
LEMMA AcquireStep ==
    ASSUME RouterInv, NEW c \in Callers, NEW o \in Organizations, Acquire(c, o)
    PROVE  RouterInv'
<1>0. /\ RouterType /\ QueueInv /\ MapInv /\ LeaseInv
      /\ callers[c].status = "idle" /\ router = "open" /\ callers[c] = Away /\ callers[c].runtime = 0
      /\ UNCHANGED <<resident, current, router>>
    BY DEF RouterInv, Acquire, LeaseInv, Away
<1>1. current.pc \in {"open", "evict"} => current.caller # c
    BY <1>0 DEF LeaseInv
<1>2. CASE resident[o] # 0
    <2>1. Lease(c, o, resident[o]) /\ queue' = queue
        BY <1>2 DEF Acquire
    <2>2. Opened' = Opened /\ \A d \in Callers : callers[d].status = "queued" => callers'[d].status = "queued"
        <3>1. /\ runtimes' = [runtimes EXCEPT ![resident[o]].references = @ + 1]
              /\ \A d \in Callers \ {c} : callers'[d] = callers[d]
            BY <1>0, <2>1 DEF Lease, SetCaller, RouterType
        <3>2. \A e \in 1..MaxOpens : runtimes'[e].state = runtimes[e].state
            BY <1>0, <3>1 DEF RouterType, Runtime
        <3> QED BY <1>0, <3>1, <3>2 DEF Opened
    <2>3. QueueInv' /\ queue' \in Seq(Callers \cup {TheRouter})
        BY <1>0, <2>1, <2>2, QueueStays DEF RouterType
    <2> QED BY <1>0, <1>1, <1>2, <2>1, <2>3, LeaseStep
<1>3. CASE resident[o] = 0
    <2> DEFINE r == [status |-> "queued", organization |-> o, runtime |-> 0]
    <2>1. /\ WillHaveOpened < MaxOpens /\ queue' = Append(queue, c)
          /\ callers' = [callers EXCEPT ![c] = r] /\ runtimes' = runtimes
        BY <1>3 DEF Acquire, SetCaller
    <2>2. r \in Caller /\ Backed(r)
        BY RouterAssumption DEF Caller, Backed
    <2>3. \A d \in Callers : callers'[d] = IF d = c THEN r ELSE callers[d]
        BY <1>0, <2>1 DEF RouterType
    <2>4. \A i \in 1..Len(queue) : queue[i] # c /\ queue[i] # TheRouter
        <3> SUFFICES ASSUME NEW i \in 1..Len(queue) PROVE queue[i] # c /\ queue[i] # TheRouter
            OBVIOUS
        <3>1. ~CloseIsDue
            BY <1>0 DEF CloseIsDue
        <3>2. queue[i] \in Callers /\ callers[queue[i]].status = "queued"
            BY <1>0, <3>1 DEF QueueInv
        <3> QED BY <1>0, <3>2, RouterAssumption
    <2>5. /\ queue' \in Seq(Callers \cup {TheRouter}) /\ Len(queue') = Len(queue) + 1 /\ Len(queue) \in Nat
          /\ \A i \in 1..Len(queue') : queue'[i] = IF i = Len(queue) + 1 THEN c ELSE queue[i]
        BY <1>0, <2>1 DEF RouterType
    <2>6. Opened' = Opened /\ Cardinality(Opened) \in Nat /\ ~CloseIsDue /\ ~CloseIsDue'
        BY <1>0, <2>1, RuntimesFinite DEF Opened, CloseIsDue
    <2>7. QueueInv'
        <3>1. \A i, j \in 1..Len(queue') : queue'[i] = queue'[j] => i = j
            BY <1>0, <2>4, <2>5 DEF QueueInv
        <3>2. \A i \in 1..Len(queue') :
                  /\ queue'[i] \in Callers /\ callers'[queue'[i]].status = "queued"
                  /\ current.pc \in {"open", "evict"} => current.caller # queue'[i]
            BY <1>0, <1>1, <2>3, <2>4, <2>5 DEF QueueInv
        <3>3. WillHaveOpened' <= MaxOpens
            BY <1>0, <2>1, <2>5, <2>6, RouterAssumption DEF WillHaveOpened
        <3>4. Opened' = 1..Cardinality(Opened')
            BY <1>0, <2>6 DEF QueueInv
        <3>5. router' # "closed" /\ current'.pc # "close" /\ current' = current
            BY <1>0 DEF QueueInv
        <3>6. WillHaveOpened' <= MaxOpens + (IF CloseIsDue' THEN 1 ELSE 0)
            BY <2>6, <3>3, RouterAssumption
        <3>7. \A i \in 1..Len(queue') :
                  \/ queue'[i] = TheRouter /\ i = Len(queue') /\ CloseIsDue'
                  \/ /\ queue'[i] \in Callers /\ callers'[queue'[i]].status = "queued"
                     /\ current'.pc \in {"open", "evict"} => current'.caller # queue'[i]
            BY <3>2, <3>5
        <3> QED BY <2>6, <3>1, <3>4, <3>5, <3>6, <3>7 DEF QueueInv
    <2>8. runtimes' \in [1..MaxOpens -> Runtime]
        BY <1>0, <2>1 DEF RouterType
    <2>9. \A d \in Residents : runtimes'[d].references =
              runtimes[d].references - (IF callers[c].runtime = d THEN 1 ELSE 0) + (IF r.runtime = d THEN 1 ELSE 0)
        <3> TAKE d \in Residents
        <3>1. runtimes[d].references \in Int /\ d # 0
            BY <1>0, RuntimesFinite DEF RouterType, Runtime, Residents
        <3> QED BY <1>0, <2>1, <3>1
    <2> HIDE DEF r
    <2> QED BY <1>0, <1>1, <2>1, <2>2, <2>5, <2>7, <2>8, <2>9, LendingStep
<1> QED BY <1>2, <1>3

LEMMA AbortStep ==
    ASSUME RouterInv, NEW e \in 1..MaxOpens, Abort(e)
    PROVE  RouterInv'
<1>0. /\ RouterType /\ QueueInv /\ MapInv /\ LeaseInv
      /\ UNCHANGED <<resident, recency, queue, current, callers, router>>
      /\ runtimes[e].state = "open" /\ runtimes' = [runtimes EXCEPT ![e].state = "aborted"]
    BY DEF RouterInv, Abort
<1>1. /\ \A d \in 1..MaxOpens \ {e} : runtimes'[d] = runtimes[d]
      /\ runtimes'[e].state = "aborted" /\ runtimes'[e].organization = runtimes[e].organization
      /\ runtimes'[e].references = runtimes[e].references
      /\ runtimes' \in [1..MaxOpens -> Runtime]
    BY <1>0 DEF RouterType, Runtime, RuntimeStates
<1>2. RouterType'
    BY <1>0, <1>1 DEF RouterType
<1>3. Opened' = Opened /\ Unfinishing' = Unfinishing /\ Residents' = Residents
    <2>1. \A d \in 1..MaxOpens : /\ runtimes'[d].state # "none" <=> runtimes[d].state # "none"
                                 /\ runtimes'[d].state \in Unfinished <=> runtimes[d].state \in Unfinished
        BY <1>0, <1>1 DEF Unfinished
    <2>2. Opened' = Opened
        BY <2>1 DEF Opened
    <2>3. Opened \subseteq 1..MaxOpens
        BY DEF Opened
    <2> QED BY <1>0, <2>1, <2>2, <2>3 DEF Unfinishing, Residents
<1>4. QueueInv'
    BY <1>0, <1>3, QueueStays
<1>5. MapInv'
    <2>1. \A d \in 1..MaxOpens :
              /\ runtimes'[d].organization = runtimes[d].organization
              /\ runtimes'[d].state = runtimes[d].state
                 \/ (runtimes[d].state = "open" /\ runtimes'[d].state = "aborted")
        BY <1>0, <1>1
    <2>2. Opened \subseteq 1..MaxOpens /\ Unfinishing \subseteq 1..MaxOpens
        BY DEF Opened, Unfinishing
    <2>3. \A o \in Organizations : resident[o] # 0 => resident[o] \in 1..MaxOpens
        BY <1>0, RouterAssumption DEF RouterType
    <2>4. current.pc \in {"open", "evict"} => current.runtime \in 1..MaxOpens
        BY <1>0, CurrentFacts
    <2>5. \A o \in Organizations : resident[o] # 0 =>
                  /\ runtimes'[resident[o]].organization = o
                  /\ runtimes'[resident[o]].state \in {"opening", "open", "aborted"}
        BY <1>0, <2>1, <2>3 DEF MapInv
    <2>6. /\ \A d \in Opened :
                  /\ runtimes'[d].organization \in Organizations
                  /\ runtimes'[d].state \in {"opening", "open", "aborted"} => resident[runtimes'[d].organization] = d
                  /\ runtimes'[d].state = "opening" => current.pc = "open" /\ current.runtime = d
                  /\ runtimes'[d].state = "closing" =>
                         current.pc = "close" \/ (current.pc = "evict" /\ current.runtime = d)
          /\ \A d, other \in Unfinishing : runtimes'[d].organization = runtimes'[other].organization => d = other
        BY <1>0, <2>1, <2>2 DEF MapInv
    <2>7. /\ current.pc = "open" => /\ runtimes'[current.runtime].state = "opening"
                                    /\ runtimes'[current.runtime].organization = callers[current.caller].organization
          /\ current.pc = "evict" => /\ runtimes'[current.runtime].state = "closing"
                                     /\ resident[runtimes'[current.runtime].organization] = 0
        BY <1>0, <2>1, <2>4 DEF MapInv
    <2> QED BY <1>0, <1>3, <2>5, <2>6, <2>7 DEF MapInv
<1>6. LeaseInv'
    <2>1. ASSUME NEW d PROVE Users(d)' = Users(d)
        BY <1>0 DEF Users
    <2> QED BY <1>0, <1>1, <1>3, <2>1 DEF LeaseInv, Opened
<1> QED BY <1>2, <1>4, <1>5, <1>6 DEF RouterInv

---------------------------------------------------------------------------
(* The chain of allocations *)

LEMMA TailFacts ==
    ASSUME RouterType, queue # <<>>
    PROVE  /\ Tail(queue) \in Seq(Callers \cup {TheRouter}) /\ Len(queue) \in Nat \ {0}
           /\ Len(Tail(queue)) = Len(queue) - 1 /\ Head(queue) = queue[1]
           /\ \A i \in 1..Len(queue) - 1 : Tail(queue)[i] = queue[i + 1]
BY DEF RouterType

LEMMA ChainFacts ==
    ASSUME RouterInv, current = Idle, queue # <<>>
    PROVE  /\ Head(queue) # TheRouter =>
                  /\ Head(queue) \in Callers /\ callers[Head(queue)].status = "queued"
                  /\ callers[Head(queue)].runtime = 0 /\ callers[Head(queue)].organization \in Organizations
                  /\ router = "open" => Cardinality(Opened) < MaxOpens
           /\ Head(queue) = TheRouter => Len(queue) = 1 /\ router = "closing"
<1>0. RouterType /\ QueueInv /\ LeaseInv /\ current.pc = "idle"
    BY DEF RouterInv, Idle
<1>1. Head(queue) = queue[1] /\ 1 \in 1..Len(queue) /\ Len(queue) \in Nat \ {0}
    BY <1>0, TailFacts
<1>2. ASSUME router = "open" PROVE Cardinality(Opened) < MaxOpens
    <2>1. ~CloseIsDue
        BY <1>2 DEF CloseIsDue
    <2> QED BY <1>0, <1>1, <2>1, RuntimesFinite, RouterAssumption DEF QueueInv, WillHaveOpened
<1>3. \/ queue[1] = TheRouter /\ 1 = Len(queue) /\ CloseIsDue
      \/ queue[1] \in Callers /\ callers[queue[1]].status = "queued"
    BY <1>0, <1>1 DEF QueueInv
<1>4. ASSUME queue[1] \in Callers PROVE queue[1] # TheRouter
    BY <1>4, RouterAssumption
<1> QED BY <1>0, <1>1, <1>2, <1>3, <1>4 DEF LeaseInv, CloseIsDue

(* The head of the chain is taken.                                           *)
Taken == queue' = Tail(queue)

(* The allocation at the head runs: it may open a runtime, at once or after  *)
(* making room.                                                              *)
LEMMA TailStep ==
    ASSUME RouterInv, current = Idle, queue # <<>>, Head(queue) # TheRouter, Taken, UNCHANGED router,
           current'.pc \in {"idle", "open", "evict"},
           current'.pc \in {"open", "evict"} => current'.caller = Head(queue),
           router = "closed" => current' = Idle,
           \A d \in Callers \ {Head(queue)} : callers'[d].status = callers[d].status,
           Opened' = 1..Cardinality(Opened'), Cardinality(Opened') \in Nat,
           Cardinality(Opened') + (IF current'.pc = "evict" THEN 1 ELSE 0) <= Cardinality(Opened) + 1
    PROVE  QueueInv' /\ queue' \in Seq(Callers \cup {TheRouter})
<1>0. RouterType /\ QueueInv /\ current.pc = "idle"
    BY DEF RouterInv, Idle
<1>1. /\ queue' \in Seq(Callers \cup {TheRouter}) /\ Len(queue) \in Nat \ {0} /\ Len(queue') = Len(queue) - 1
      /\ \A i \in 1..Len(queue') : queue'[i] = queue[i + 1]
      /\ Head(queue) = queue[1]
    BY <1>0, TailFacts DEF Taken
<1>2. CloseIsDue' = CloseIsDue
    BY <1>0 DEF CloseIsDue
<1>3. \A i, j \in 1..Len(queue) : queue[i] = queue[j] => i = j
    BY <1>0 DEF QueueInv
<1>4. \A i \in 1..Len(queue') : i + 1 \in 1..Len(queue) /\ 1 \in 1..Len(queue) /\ queue'[i] # Head(queue)
    BY <1>1, <1>3
<1>5. \A i, j \in 1..Len(queue') : queue'[i] = queue'[j] => i = j
    BY <1>1, <1>3, <1>4
<1>6. ASSUME NEW i \in 1..Len(queue')
      PROVE  \/ queue'[i] = TheRouter /\ i = Len(queue') /\ CloseIsDue'
             \/ /\ queue'[i] \in Callers /\ callers'[queue'[i]].status = "queued"
                /\ current'.pc \in {"open", "evict"} => current'.caller # queue'[i]
    <2>1. \/ queue[i + 1] = TheRouter /\ i + 1 = Len(queue) /\ CloseIsDue
          \/ queue[i + 1] \in Callers /\ callers[queue[i + 1]].status = "queued"
        BY <1>0, <1>4 DEF QueueInv
    <2>2. queue'[i] = queue[i + 1] /\ queue'[i] # Head(queue) /\ i \in Nat
        BY <1>1, <1>4
    <2>3. CASE queue[i + 1] = TheRouter /\ i + 1 = Len(queue) /\ CloseIsDue
        <3>1. i = Len(queue')
            BY <1>1, <2>2, <2>3
        <3>2. CloseIsDue' /\ queue'[i] = TheRouter
            BY <1>2, <2>2, <2>3
        <3> QED BY <3>1, <3>2
    <2>4. CASE queue[i + 1] \in Callers /\ callers[queue[i + 1]].status = "queued"
        BY <2>2, <2>4
    <2> QED BY <2>1, <2>3, <2>4
<1>7. CloseIsDue' => queue' # <<>> /\ queue'[Len(queue')] = TheRouter
    <2> SUFFICES ASSUME CloseIsDue PROVE queue' # <<>> /\ queue'[Len(queue')] = TheRouter
        BY <1>2
    <2>1. queue[Len(queue)] = TheRouter
        BY <1>0 DEF QueueInv
    <2>2. Len(queue) # 1
        BY <1>1, <2>1
    <2>3. Len(queue') \in 1..Len(queue') /\ Len(queue') + 1 = Len(queue)
        BY <1>1, <2>2
    <2>4. queue'[Len(queue')] = queue[Len(queue)]
        BY <1>1, <2>3
    <2>5. queue' # <<>>
        BY <2>3, Len(<<>>) = 0
    <2> QED BY <2>1, <2>4, <2>5
<1>8. WillHaveOpened' <= MaxOpens + (IF CloseIsDue' THEN 1 ELSE 0)
    <2>1. Cardinality(Opened) + Len(queue) <= MaxOpens + (IF CloseIsDue THEN 1 ELSE 0) /\ Cardinality(Opened) \in Nat
        <3>1. WillHaveOpened = Cardinality(Opened) + Len(queue) /\ Cardinality(Opened) \in Nat
            BY <1>0, <1>1, RuntimesFinite DEF WillHaveOpened
        <3> QED BY <1>0, <3>1 DEF QueueInv
    <2> QED BY <1>1, <1>2, <2>1, RouterAssumption DEF WillHaveOpened
<1>9. current'.pc # "close"
    OBVIOUS
<1> QED BY <1>1, <1>5, <1>6, <1>7, <1>8, <1>9 DEF QueueInv

(* The allocation that runs settles, or opens after having made room.        *)
LEMMA SettledQueue ==
    ASSUME RouterInv, UNCHANGED <<queue, router>>, current.pc \in {"open", "evict"},
           current' = Idle \/ (current'.pc = "open" /\ current'.caller = current.caller),
           \A d \in Callers \ {current.caller} : callers'[d].status = callers[d].status,
           Opened' = 1..Cardinality(Opened'), Cardinality(Opened') \in Nat,
           Cardinality(Opened') <= Cardinality(Opened) + (IF current.pc = "evict" THEN 1 ELSE 0)
    PROVE  QueueInv' /\ queue' \in Seq(Callers \cup {TheRouter})
<1>0. RouterType /\ QueueInv /\ current'.pc \in {"idle", "open"} /\ router # "closed"
    BY DEF RouterInv, Idle, QueueInv
<1>1. CloseIsDue' = CloseIsDue
    BY <1>0 DEF CloseIsDue
<1>2. \A i \in 1..Len(queue) :
          \/ queue[i] = TheRouter /\ i = Len(queue) /\ CloseIsDue
          \/ queue[i] \in Callers /\ callers[queue[i]].status = "queued" /\ current.caller # queue[i]
    BY <1>0 DEF QueueInv
<1>3. \A i \in 1..Len(queue) :
          \/ queue[i] = TheRouter /\ i = Len(queue) /\ CloseIsDue'
          \/ queue[i] \in Callers /\ callers'[queue[i]].status = "queued"
             /\ (current'.pc \in {"open", "evict"} => current'.caller # queue[i])
    BY <1>0, <1>1, <1>2 DEF Idle
<1>4. WillHaveOpened' <= MaxOpens + (IF CloseIsDue' THEN 1 ELSE 0)
    <2>1. /\ Cardinality(Opened) + Len(queue) + (IF current.pc = "evict" THEN 1 ELSE 0)
                 <= MaxOpens + (IF CloseIsDue THEN 1 ELSE 0)
          /\ Cardinality(Opened) \in Nat /\ Len(queue) \in Nat
        BY <1>0, RuntimesFinite DEF QueueInv, WillHaveOpened, RouterType
    <2> QED BY <1>0, <1>1, <2>1, RouterAssumption DEF WillHaveOpened
<1> QED BY <1>0, <1>1, <1>3, <1>4 DEF QueueInv, RouterType

(* A runtime is opened where the map has none: nobody else opens or closes   *)
(* one meanwhile.                                                            *)
LEMMA OpenStep ==
    ASSUME RouterInv, NEW c \in Callers, callers[c].status = "queued", NEW o \in Organizations,
           callers[c].organization = o, resident[o] = 0, router # "closed",
           current.pc \in {"idle", "evict"}, NEW others \in [1..MaxOpens -> Runtime],
           \A e \in 1..MaxOpens : others[e] = IF runtimes[e].state = "closing"
                                              THEN [runtimes[e] EXCEPT !.state = "closed"] ELSE runtimes[e],
           Cardinality(Residents) < MaxActive, Cardinality(Opened) < MaxOpens,
           Open(c, o, others, resident), UNCHANGED router
    PROVE  /\ Opened' = 1..Cardinality(Opened') /\ Cardinality(Opened') = Cardinality(Opened) + 1
           /\ QueueInv' /\ queue' \in Seq(Callers \cup {TheRouter}) => RouterInv'
<1> DEFINE new == [organization |-> o, references |-> 1, state |-> "opening"]
<1>0. /\ RouterType /\ QueueInv /\ MapInv /\ LeaseInv
      /\ current.pc \notin {"open", "close"}
    BY DEF RouterInv
<1> PICK n \in Int : n = Cardinality(Opened) + 1
    BY <1>0, RuntimesFinite
<1>1. /\ Cardinality(Opened) \in Nat /\ Opened = 1..Cardinality(Opened) /\ n \in 1..MaxOpens /\ n \notin Opened
      /\ Opened \in SUBSET (1..MaxOpens) /\ IsFiniteSet(Opened)
    BY <1>0, RuntimesFinite, RouterAssumption DEF QueueInv
<1>2. runtimes[n].state = "none" /\ others[n] = runtimes[n]
    BY <1>1 DEF Opened
<1>3. /\ runtimes' = [others EXCEPT ![n] = new] /\ resident' = [resident EXCEPT ![o] = n]
      /\ current' = [pc |-> "open", caller |-> c, runtime |-> n] /\ callers' = callers
    BY DEF Open
<1>4. \A e \in 1..MaxOpens : runtimes'[e] = IF e = n THEN new ELSE others[e]
    BY <1>3
<1>5. \A p \in Organizations : resident'[p] = IF p = o THEN n ELSE resident[p]
    BY <1>0, <1>3 DEF RouterType
<1>6. /\ \A e \in Opened : /\ e # n /\ e \in 1..MaxOpens /\ runtimes'[e].organization = runtimes[e].organization
                           /\ runtimes'[e].references = runtimes[e].references
                           /\ runtimes'[e].state = IF runtimes[e].state = "closing" THEN "closed"
                                                   ELSE runtimes[e].state
                           /\ runtimes[e].state # "none"
      /\ runtimes'[n] = new
    <2>1. runtimes'[n] = new
        BY <1>1, <1>4
    <2>2. ASSUME NEW e \in Opened
          PROVE  e # n /\ e \in 1..MaxOpens /\ runtimes[e].state # "none" /\ runtimes'[e] = others[e]
        BY <1>1, <1>4 DEF Opened
    <2>3. ASSUME NEW e \in 1..MaxOpens
          PROVE  /\ others[e].organization = runtimes[e].organization /\ others[e].references = runtimes[e].references
                 /\ others[e].state = IF runtimes[e].state = "closing" THEN "closed" ELSE runtimes[e].state
        <3>1. runtimes[e] \in Runtime
            BY <1>0 DEF RouterType
        <3> QED BY <3>1 DEF Runtime
    <2> HIDE DEF new
    <2> QED BY <2>1, <2>2, <2>3
<1>7. Opened' = Opened \cup {n}
    <2>1. Opened' = {e \in 1..MaxOpens : runtimes'[e].state # "none"} /\ n \in 1..MaxOpens /\ Opened \subseteq 1..MaxOpens
        BY <1>1 DEF Opened
    <2>2. runtimes'[n].state # "none" /\ \A e \in Opened : runtimes'[e].state # "none"
        BY <1>6
    <2>3. ASSUME NEW e \in 1..MaxOpens, e \notin Opened, e # n PROVE runtimes'[e].state = "none"
        BY <1>4, <2>3 DEF Opened
    <2> QED BY <2>1, <2>2, <2>3
<1>8. Opened' = 1..Cardinality(Opened') /\ Cardinality(Opened') = Cardinality(Opened) + 1
    <2>1. Cardinality(Opened') = Cardinality(Opened) + 1
        BY <1>1, <1>7, FS_AddElement
    <2>2. Opened' = 1..n /\ n = Cardinality(Opened) + 1
        BY <1>1, <1>7
    <2> QED BY <2>1, <2>2
<1>9. \A e \in Opened : runtimes[e].state \notin {"opening"} /\ runtimes'[e].state \notin {"opening", "closing"}
    BY <1>0, <1>6 DEF MapInv
<1>10. /\ \A e \in Residents : e \in Opened /\ runtimes'[e].state = runtimes[e].state
                               /\ runtimes[e].state \in {"open", "aborted"} /\ runtimes[e].organization # o
       /\ n \notin Residents
    <2> SUFFICES ASSUME NEW e \in Residents
                 PROVE  /\ e \in Opened /\ runtimes'[e].state = runtimes[e].state
                        /\ runtimes[e].state \in {"open", "aborted"} /\ runtimes[e].organization # o
        BY <1>1, <1>0, ResidentFacts
    <2>1. e \in Opened /\ runtimes[e].state \in {"opening", "open", "aborted"}
          /\ resident[runtimes[e].organization] = e /\ e # 0
        BY <1>0, ResidentFacts DEF Residents
    <2> QED BY <1>6, <1>9, <2>1
<1>11. Residents' = Residents \cup {n}
    <2>1. n # 0
        BY <1>1
    <2> QED BY <1>5, <2>1 DEF Residents
<1>12. Unfinishing' = Residents \cup {n}
    <2>1. ASSUME NEW e \in Opened, runtimes'[e].state \in Unfinished PROVE e \in Residents
        <3>1. runtimes[e].state \in {"open", "aborted"} /\ e # 0
            BY <1>1, <1>6, <1>9, <2>1 DEF Unfinished
        <3>2. resident[runtimes[e].organization] = e /\ runtimes[e].organization \in Organizations
            BY <1>0, <3>1 DEF MapInv
        <3> QED BY <3>1, <3>2 DEF Residents
    <2>2. \A e \in Residents : runtimes'[e].state \in Unfinished
        BY <1>10 DEF Unfinished
    <2>3. runtimes'[n].state \in Unfinished
        BY <1>6 DEF Unfinished
    <2>4. Unfinishing' = {e \in Opened' : runtimes'[e].state \in Unfinished}
        BY DEF Unfinishing, Unfinished
    <2> QED BY <1>7, <1>10, <2>1, <2>2, <2>3, <2>4
<1>13. RouterType' \/ ~(queue' \in Seq(Callers \cup {TheRouter}))
    <2>1. new \in Runtime
        BY DEF Runtime, RuntimeStates
    <2>2. runtimes' \in [1..MaxOpens -> Runtime] /\ resident' \in [Organizations -> 0..MaxOpens]
        BY <1>0, <1>1, <1>3, <2>1 DEF RouterType
    <2>3. current' \in Busy
        BY <1>1, <1>3 DEF Busy
    <2> QED BY <1>0, <1>3, <2>2, <2>3 DEF RouterType
<1>14. MapInv'
    <2>1. \A p \in Organizations : resident'[p] # 0 =>
              /\ runtimes'[resident'[p]].organization = p
              /\ runtimes'[resident'[p]].state \in {"opening", "open", "aborted"}
        <3> SUFFICES ASSUME NEW p \in Organizations, resident[p] # 0, p # o
                     PROVE  /\ runtimes'[resident[p]].organization = p
                            /\ runtimes'[resident[p]].state \in {"opening", "open", "aborted"}
            BY <1>5, <1>6
        <3>1. resident[p] \in Residents
            BY DEF Residents
        <3>2. runtimes[resident[p]].organization = p
            BY <1>0 DEF MapInv
        <3> QED BY <1>6, <1>10, <3>1, <3>2
    <2>2. \A e \in Opened :
              /\ runtimes'[e].organization \in Organizations
              /\ runtimes'[e].state \in {"opening", "open", "aborted"} => resident'[runtimes'[e].organization] = e
        <3> SUFFICES ASSUME NEW e \in Opened
                     PROVE  /\ runtimes[e].organization \in Organizations
                            /\ runtimes'[e].state \in {"opening", "open", "aborted"}
                                   => resident'[runtimes[e].organization] = e
            BY <1>6
        <3>1. runtimes[e].organization \in Organizations
            BY <1>0 DEF MapInv
        <3>2. ASSUME runtimes'[e].state \in {"opening", "open", "aborted"}
              PROVE  resident[runtimes[e].organization] = e /\ e # 0
            BY <1>0, <1>1, <1>6, <3>2 DEF MapInv
        <3> QED BY <1>5, <3>1, <3>2
    <2>3. \A e \in Opened' :
              /\ runtimes'[e].organization \in Organizations
              /\ runtimes'[e].state \in {"opening", "open", "aborted"} => resident'[runtimes'[e].organization] = e
              /\ runtimes'[e].state = "opening" => current'.pc = "open" /\ current'.runtime = e
              /\ runtimes'[e].state # "closing"
        BY <1>3, <1>5, <1>6, <1>7, <1>9, <2>2
    <2>4. /\ runtimes'[current'.runtime].state = "opening"
          /\ runtimes'[current'.runtime].organization = callers'[current'.caller].organization
          /\ current'.pc = "open"
        BY <1>3, <1>6
    <2>5. \A e, other \in Unfinishing' : runtimes'[e].organization = runtimes'[other].organization => e = other
        <3>1. \A e \in Residents : /\ runtimes'[e].organization = runtimes[e].organization
                                   /\ resident[runtimes[e].organization] = e
            BY <1>0, <1>6, <1>10, ResidentFacts
        <3> QED BY <1>6, <1>10, <1>12, <3>1
    <2>6. Cardinality(Unfinishing') <= MaxActive
        <3>1. Cardinality(Residents \cup {n}) = Cardinality(Residents) + 1 /\ Cardinality(Residents) \in Nat
            BY <1>0, <1>10, RuntimesFinite, FS_AddElement
        <3> QED BY <1>12, <3>1, RouterAssumption
    <2> QED BY <2>1, <2>3, <2>4, <2>5, <2>6 DEF MapInv
<1>15. LeaseInv'
    <2>1. \A d \in Callers :
              /\ callers[d].status \in {"waiting", "holding"} =>
                     /\ callers[d].runtime \in Opened
                     /\ callers[d].organization = runtimes[callers[d].runtime].organization
              /\ callers[d].status = "holding" => runtimes[callers[d].runtime].state \notin {"opening", "failed"}
              /\ router = "open" /\ callers[d].status \in {"waiting", "holding"} =>
                     runtimes[callers[d].runtime].state \notin {"closing", "closed", "stuck"}
        BY <1>0 DEF LeaseInv
    <2>2. \A d \in Callers :
              /\ callers[d].status \in {"waiting", "holding"} =>
                     /\ callers[d].runtime \in Opened'
                     /\ callers[d].organization = runtimes'[callers[d].runtime].organization
              /\ callers[d].status = "holding" => runtimes'[callers[d].runtime].state \notin {"opening", "failed"}
              /\ router' = "open" /\ callers[d].status \in {"waiting", "holding"} =>
                     runtimes'[callers[d].runtime].state \notin {"closing", "closed", "stuck"}
        BY <1>6, <1>7, <2>1
    <2>3. \A d \in Callers : callers[d].runtime # n
        <3>1. \A d \in Callers : callers[d].runtime = 0 \/ callers[d].runtime \in Opened
            <4> TAKE d \in Callers
            <4>1. callers[d].status \in {"idle", "queued", "waiting", "holding"}
                BY <1>0 DEF RouterType, Caller
            <4> QED BY <1>0, <4>1 DEF LeaseInv, Away
        <3> QED BY <1>1, <3>1
    <2>4. \A e \in Residents' : runtimes'[e].references = Cardinality(Users(e)')
        <3>1. ASSUME NEW e \in Residents PROVE runtimes'[e].references = Cardinality(Users(e)')
            <4>1. e # n /\ runtimes'[e].references = runtimes[e].references
                BY <1>6, <1>10
            <4>2. Users(e)' = Users(e)
                BY <1>0, <1>3, <4>1 DEF Users
            <4> QED BY <1>0, <4>1, <4>2 DEF LeaseInv
        <3>2. runtimes'[n].references = 1 /\ Users(n)' = {c}
            BY <1>3, <1>6, <2>3 DEF Users
        <3>3. Cardinality({c}) = 1
            BY FS_Singleton
        <3> QED BY <1>11, <3>1, <3>2, <3>3
    <2>5. current'.caller = c
        BY <1>3
    <2> QED BY <1>0, <1>3, <2>2, <2>4, <2>5 DEF LeaseInv
<1> QED BY <1>8, <1>13, <1>14, <1>15 DEF RouterInv

(* A caller in the chain has nothing: being turned away changes no lease.    *)
LEMMA RefusedFacts ==
    ASSUME RouterInv, NEW c \in Callers, callers[c].status = "queued", Refuse(c)
    PROVE  /\ callers' \in [Callers -> Caller] /\ callers[c].runtime = 0
           /\ \A d \in Callers : callers'[d] = IF d = c THEN Away ELSE callers[d]
<1>1. Away \in Caller /\ RouterType /\ LeaseInv
    BY RouterAssumption DEF Away, Caller, RouterInv
<1> QED BY <1>1 DEF Refuse, RouterType, LeaseInv

LEMMA AllocateRefused ==
    ASSUME RouterInv, Allocate, Refused(Head(queue))
    PROVE  RouterInv'
<1> PICK c : c = Head(queue)
    OBVIOUS
<1>0. /\ RouterType /\ LeaseInv /\ current = Idle /\ current.pc = "idle" /\ queue # <<>> /\ c # TheRouter /\ Taken
      /\ UNCHANGED <<router, runtimes, resident, current>> /\ Refuse(c)
    BY DEF RouterInv, Allocate, Idle, Refused, Taken
<1>1. c \in Callers /\ callers[c].status = "queued" /\ callers[c].runtime = 0
    BY <1>0, ChainFacts
<1>2. /\ callers' = [callers EXCEPT ![c] = Away] /\ Away.status = "idle" /\ Away.runtime = 0
      /\ \A d \in Callers \ {c} : callers'[d].status = callers[d].status
      /\ Away \in Caller /\ Backed(Away)
    BY <1>0, RouterAssumption DEF Refuse, RouterType, Away, Caller, Backed
<1>3. Opened' = Opened /\ Opened = 1..Cardinality(Opened) /\ Cardinality(Opened) \in Nat
    BY <1>0, RuntimesFinite DEF Opened, RouterInv, QueueInv
<1>4. QueueInv' /\ queue' \in Seq(Callers \cup {TheRouter})
    <2>1. current'.pc \in {"idle"} /\ current' = Idle /\ Cardinality(Opened') <= Cardinality(Opened) + 1
        BY <1>0, <1>3
    <2>2. \A d \in Callers \ {Head(queue)} : callers'[d].status = callers[d].status
        BY <1>2
    <2>3. Opened' = 1..Cardinality(Opened') /\ Cardinality(Opened') \in Nat
        BY <1>3
    <2>4. Cardinality(Opened') + (IF current'.pc = "evict" THEN 1 ELSE 0) <= Cardinality(Opened) + 1
        BY <2>1, <2>3, <1>3
    <2> QED BY <1>0, <2>1, <2>2, <2>3, <2>4, TailStep
<1>5. \A d \in Residents : runtimes'[d].references =
          runtimes[d].references - (IF callers[c].runtime = d THEN 1 ELSE 0) + (IF Away.runtime = d THEN 1 ELSE 0)
    <2> TAKE d \in Residents
    <2>1. runtimes[d].references \in Int /\ d # 0
        BY <1>0, RuntimesFinite DEF RouterType, Runtime, Residents
    <2> QED BY <1>0, <1>1, <1>2, <2>1
<1>6. runtimes' \in [1..MaxOpens -> Runtime]
    BY <1>0 DEF RouterType
<1> QED BY <1>0, <1>1, <1>2, <1>4, <1>5, <1>6, LendingStep

LEMMA AllocateLease ==
    ASSUME RouterInv, Allocate, NEW o \in Organizations, callers[Head(queue)].organization = o,
           resident[o] # 0, Lease(Head(queue), o, resident[o]), UNCHANGED <<resident, current>>
    PROVE  RouterInv'
<1> PICK c : c = Head(queue)
    OBVIOUS
<1>0. /\ RouterType /\ LeaseInv /\ current = Idle /\ current.pc = "idle" /\ queue # <<>> /\ c # TheRouter /\ Taken
      /\ UNCHANGED <<router, resident, current>> /\ Lease(c, o, resident[o])
    BY DEF RouterInv, Allocate, Idle, Taken
<1>1. c \in Callers /\ callers[c].status = "queued" /\ callers[c].runtime = 0
    BY <1>0, ChainFacts
<1>2. \A d \in Callers \ {c} : callers'[d].status = callers[d].status
    BY <1>0 DEF Lease, SetCaller, RouterType
<1>3. Opened' = Opened /\ Opened = 1..Cardinality(Opened) /\ Cardinality(Opened) \in Nat
    <2>1. runtimes' = [runtimes EXCEPT ![resident[o]].references = @ + 1]
        BY <1>0 DEF Lease
    <2>2. \A e \in 1..MaxOpens : runtimes'[e].state = runtimes[e].state
        BY <1>0, <2>1 DEF RouterType, Runtime
    <2> QED BY <1>0, <2>2, RuntimesFinite DEF Opened, RouterInv, QueueInv
<1>4. QueueInv' /\ queue' \in Seq(Callers \cup {TheRouter})
    <2>1. current'.pc \in {"idle"} /\ current' = Idle
        BY <1>0
    <2>2. \A d \in Callers \ {Head(queue)} : callers'[d].status = callers[d].status
        BY <1>2
    <2>3. Opened' = 1..Cardinality(Opened') /\ Cardinality(Opened') \in Nat
        BY <1>3
    <2>4. Cardinality(Opened') + (IF current'.pc = "evict" THEN 1 ELSE 0) <= Cardinality(Opened) + 1
        BY <2>1, <2>3, <1>3
    <2> QED BY <1>0, <2>1, <2>2, <2>3, <2>4, TailStep
<1> QED BY <1>0, <1>1, <1>4, LeaseStep

LEMMA AllocateOpen ==
    ASSUME RouterInv, Allocate, router = "open", NEW o \in Organizations, callers[Head(queue)].organization = o,
           resident[o] = 0, Cardinality(Residents) < MaxActive, Open(Head(queue), o, runtimes, resident)
    PROVE  RouterInv'
<1> PICK c : c = Head(queue)
    OBVIOUS
<1>0. /\ RouterType /\ MapInv /\ current = Idle /\ current.pc = "idle" /\ queue # <<>> /\ c # TheRouter /\ Taken
      /\ UNCHANGED router /\ Open(c, o, runtimes, resident) /\ router # "closed"
    BY DEF RouterInv, Allocate, Idle, Taken
<1>1. c \in Callers /\ callers[c].status = "queued" /\ Cardinality(Opened) < MaxOpens
    BY <1>0, ChainFacts
<1>2. \A e \in 1..MaxOpens : runtimes[e] = IF runtimes[e].state = "closing"
                                           THEN [runtimes[e] EXCEPT !.state = "closed"] ELSE runtimes[e]
    BY <1>0, IdleFacts DEF Opened
<1>3. runtimes \in [1..MaxOpens -> Runtime] /\ callers[c].organization = o
    BY <1>0 DEF RouterType
<1>4. /\ Opened' = 1..Cardinality(Opened') /\ Cardinality(Opened') = Cardinality(Opened) + 1
      /\ QueueInv' /\ queue' \in Seq(Callers \cup {TheRouter}) => RouterInv'
    BY <1>0, <1>1, <1>2, <1>3, OpenStep
<1>5. current'.pc = "open" /\ current'.caller = c /\ callers' = callers
    BY <1>0 DEF Open
<1>6. QueueInv' /\ queue' \in Seq(Callers \cup {TheRouter})
    <2>1. current'.pc \in {"idle", "open", "evict"} /\ current'.caller = Head(queue) /\ current'.pc # "evict"
        BY <1>5
    <2>2. Cardinality(Opened') \in Nat
        BY <1>0, <1>4, RuntimesFinite
    <2>3. Cardinality(Opened') + (IF current'.pc = "evict" THEN 1 ELSE 0) <= Cardinality(Opened) + 1
        BY <1>4, <2>1, <2>2
    <2>4. \A d \in Callers \ {Head(queue)} : callers'[d].status = callers[d].status
        BY <1>5
    <2> QED BY <1>0, <1>4, <2>1, <2>2, <2>3, <2>4, TailStep
<1> QED BY <1>4, <1>6

(* An idle runtime leaves the map and starts to close.                       *)
LEMMA AllocateEvict ==
    ASSUME RouterInv, Allocate, router = "open", NEW o \in Organizations, callers[Head(queue)].organization = o,
           resident[o] = 0, NEW victim \in Evictable,
           resident' = [resident EXCEPT ![runtimes[victim].organization] = 0],
           runtimes' = [runtimes EXCEPT ![victim].state = "closing"],
           current' = [pc |-> "evict", caller |-> Head(queue), runtime |-> victim], UNCHANGED callers
    PROVE  RouterInv'
<1> PICK c : c = Head(queue)
    OBVIOUS
<1> PICK p : p = runtimes[victim].organization
    OBVIOUS
<1>0. /\ RouterType /\ QueueInv /\ MapInv /\ LeaseInv
      /\ current = Idle /\ current.pc = "idle" /\ queue # <<>> /\ c # TheRouter /\ Taken /\ UNCHANGED router
    BY DEF RouterInv, Allocate, Idle, Taken
<1>1. c \in Callers /\ callers[c].status = "queued"
    BY <1>0, ChainFacts
<1>2. /\ victim \in Residents /\ runtimes[victim].references = 0 /\ victim \in Opened /\ victim \in 1..MaxOpens
      /\ runtimes[victim].state \in {"opening", "open", "aborted"} /\ victim \in Unfinishing
      /\ p \in Organizations /\ resident[p] = victim /\ victim # 0 /\ p # o
    BY <1>0, ResidentFacts, RouterAssumption DEF Evictable, Opened
<1>3. /\ \A e \in 1..MaxOpens : e # victim => runtimes'[e] = runtimes[e]
      /\ runtimes'[victim].state = "closing" /\ runtimes'[victim].organization = p
      /\ runtimes' \in [1..MaxOpens -> Runtime]
    BY <1>0, <1>2 DEF RouterType, Runtime, RuntimeStates
<1>4. \A q \in Organizations : resident'[q] = IF q = p THEN 0 ELSE resident[q]
    BY <1>0 DEF RouterType
<1>5. Opened' = Opened
    BY <1>2, <1>3 DEF Opened
<1>6. Unfinishing' = Unfinishing
    <2>1. \A e \in Opened : runtimes'[e].state \in Unfinished <=> runtimes[e].state \in Unfinished
        BY <1>2, <1>3 DEF Opened, Unfinishing, Unfinished
    <2>2. Unfinishing' = {e \in Opened : runtimes'[e].state \in Unfinished}
        BY <1>5 DEF Unfinishing, Unfinished
    <2> QED BY <2>1, <2>2 DEF Unfinishing
<1>7. Residents' = Residents \ {victim}
    <2>1. \A q \in Organizations : resident[q] = victim => q = p
        BY <1>0, <1>2 DEF MapInv
    <2> QED BY <1>2, <1>4, <2>1 DEF Residents
<1>8. current'.pc = "evict" /\ current'.caller = c /\ current'.runtime = victim /\ current' \in Busy
    BY <1>1, <1>2 DEF Busy
<1>9. QueueInv' /\ queue' \in Seq(Callers \cup {TheRouter})
    <2>1. Opened' = 1..Cardinality(Opened') /\ Cardinality(Opened') \in Nat
        BY <1>0, <1>5, RuntimesFinite DEF QueueInv
    <2>2. Cardinality(Opened') + (IF current'.pc = "evict" THEN 1 ELSE 0) <= Cardinality(Opened) + 1
        BY <1>5, <1>8, <2>1
    <2>3. current'.pc \in {"idle", "open", "evict"} /\ current'.caller = Head(queue) /\ router # "closed"
        BY <1>8
    <2>4. \A d \in Callers \ {Head(queue)} : callers'[d].status = callers[d].status
        OBVIOUS
    <2> QED BY <1>0, <2>1, <2>2, <2>3, <2>4, TailStep
<1>10. RouterType'
    BY <1>0, <1>3, <1>8, <1>9, RouterAssumption DEF RouterType
<1>11. MapInv'
    <2>1. \A q \in Organizations : resident'[q] # 0 =>
              /\ resident'[q] \in 1..MaxOpens /\ resident'[q] # victim /\ resident'[q] = resident[q]
        BY <1>0, <1>2, <1>4, RouterAssumption DEF MapInv, RouterType
    <2>2. \A q \in Organizations : resident'[q] # 0 =>
              /\ runtimes'[resident'[q]].organization = q
              /\ runtimes'[resident'[q]].state \in {"opening", "open", "aborted"}
        BY <1>0, <1>3, <2>1 DEF MapInv
    <2>3. ASSUME NEW e \in Opened, e # victim
          PROVE  /\ runtimes'[e].organization \in Organizations
                 /\ runtimes'[e].state \in {"opening", "open", "aborted"} => resident'[runtimes'[e].organization] = e
                 /\ runtimes'[e].state \notin {"opening", "closing"}
        <3>1. runtimes'[e] = runtimes[e] /\ runtimes[e].organization \in Organizations
              /\ runtimes[e].state \notin {"opening", "closing"}
            BY <1>0, <1>3, <2>3, IdleFacts DEF MapInv, Opened
        <3>2. runtimes[e].state \in {"opening", "open", "aborted"} => resident[runtimes[e].organization] = e
            BY <1>0, <2>3 DEF MapInv
        <3>3. resident[p] = e => FALSE
            BY <1>2, <2>3
        <3> QED BY <1>4, <3>1, <3>2, <3>3
    <2>4. \A e \in Opened :
              /\ runtimes'[e].organization \in Organizations
              /\ runtimes'[e].state \in {"opening", "open", "aborted"} => resident'[runtimes'[e].organization] = e
              /\ runtimes'[e].state = "opening" => FALSE
              /\ runtimes'[e].state = "closing" => current'.pc = "evict" /\ current'.runtime = e
        BY <1>2, <1>3, <1>8, <2>3
    <2>5. /\ runtimes'[current'.runtime].state = "closing"
          /\ resident'[runtimes'[current'.runtime].organization] = 0
          /\ resident'[callers'[current'.caller].organization] = 0
        BY <1>2, <1>3, <1>4, <1>8
    <2>6. \A e, other \in Unfinishing : runtimes'[e].organization = runtimes'[other].organization => e = other
        <3>1. \A e \in Unfinishing : runtimes'[e].organization = runtimes[e].organization
            BY <1>3 DEF Unfinishing, Opened
        <3> QED BY <1>0, <3>1 DEF MapInv
    <2>7. Cardinality(Unfinishing) <= MaxActive
        BY <1>0 DEF MapInv
    <2> QED BY <1>0, <1>5, <1>6, <1>8, <2>2, <2>4, <2>5, <2>6, <2>7 DEF MapInv
<1>12. LeaseInv'
    <2>1. Users(victim) = {}
        <3>1. Cardinality(Users(victim)) = 0
            BY <1>0, <1>2 DEF LeaseInv
        <3> QED BY <3>1, UsersFinite, FS_EmptySet
    <2>2. \A d \in Callers : callers[d].runtime # victim
        BY <2>1 DEF Users
    <2>3. \A d \in Callers : callers[d].status \in {"waiting", "holding"} =>
              /\ callers[d].runtime \in Opened /\ runtimes'[callers[d].runtime] = runtimes[callers[d].runtime]
        BY <1>0, <1>3, <2>2 DEF LeaseInv, Opened
    <2>4. \A e \in Residents' : runtimes'[e].references = Cardinality(Users(e)')
        <3> SUFFICES ASSUME NEW e \in Residents, e # victim PROVE runtimes'[e].references = Cardinality(Users(e)')
            BY <1>7
        <3>1. Users(e)' = Users(e)
            BY <1>0, <1>8 DEF Users
        <3>2. runtimes'[e] = runtimes[e] /\ runtimes[e].references = Cardinality(Users(e))
            BY <1>0, <1>3, RuntimesFinite DEF LeaseInv
        <3> QED BY <3>1, <3>2
    <2>5. \A d \in Callers :
              /\ callers[d].status = "idle" => callers[d] = Away
              /\ callers[d].status = "queued" => callers[d].runtime = 0 /\ callers[d].organization \in Organizations
              /\ callers[d].status \in {"waiting", "holding"} =>
                     /\ callers[d].runtime \in Opened
                     /\ callers[d].organization = runtimes'[callers[d].runtime].organization
              /\ callers[d].status = "holding" => runtimes'[callers[d].runtime].state \notin {"opening", "failed"}
              /\ router = "open" /\ callers[d].status \in {"waiting", "holding"} =>
                     runtimes'[callers[d].runtime].state \notin {"closing", "closed", "stuck"}
        BY <1>0, <2>3 DEF LeaseInv
    <2> QED BY <1>0, <1>1, <1>5, <1>8, <2>4, <2>5 DEF LeaseInv
<1> QED BY <1>9, <1>10, <1>11, <1>12 DEF RouterInv

LEMMA AllocateStep ==
    ASSUME RouterInv, Allocate
    PROVE  RouterInv'
<1> DEFINE o == callers[Head(queue)].organization
<1>0. /\ current = Idle /\ queue # <<>> /\ Head(queue) # TheRouter /\ RouterType
      /\ \/ router # "open" /\ Refused(Head(queue))
         \/ /\ router = "open" /\ resident[o] # 0
            /\ Lease(Head(queue), o, resident[o]) /\ UNCHANGED <<resident, current>>
         \/ /\ router = "open" /\ resident[o] = 0
            /\ IF Cardinality(Residents) >= MaxActive THEN MakeRoom(Head(queue))
               ELSE Open(Head(queue), o, runtimes, resident)
    BY DEF Allocate, RouterInv
<1>1. o \in Organizations
    BY <1>0, ChainFacts
<1> PICK organization \in Organizations : organization = o
    BY <1>1
<1>2. CASE Refused(Head(queue))
    BY <1>2, AllocateRefused
<1>3. CASE Lease(Head(queue), o, resident[o]) /\ resident[o] # 0 /\ UNCHANGED <<resident, current>>
    BY <1>3, AllocateLease
<1>4. CASE router = "open" /\ resident[o] = 0 /\ MakeRoom(Head(queue))
    <2>1. CASE Refused(Head(queue))
        BY <2>1, AllocateRefused
    <2>2. CASE ~Refused(Head(queue))
        <3>1. PICK k \in DOMAIN recency :
                  /\ recency[k] \in Evictable
                  /\ resident' = [resident EXCEPT ![runtimes[recency[k]].organization] = 0]
                  /\ runtimes' = [runtimes EXCEPT ![recency[k]].state = "closing"]
                  /\ current' = [pc |-> "evict", caller |-> Head(queue), runtime |-> recency[k]]
                  /\ callers' = callers
            BY <1>4, <2>2 DEF MakeRoom
        <3> PICK victim : victim = recency[k]
            OBVIOUS
        <3> QED BY <1>4, <3>1, AllocateEvict
    <2> QED BY <2>1, <2>2
<1>5. CASE /\ router = "open" /\ resident[o] = 0 /\ ~(Cardinality(Residents) >= MaxActive)
           /\ Open(Head(queue), o, runtimes, resident)
    <2>1. Cardinality(Residents) < MaxActive
        BY <1>0, <1>5, RuntimesFinite, RouterAssumption
    <2> QED BY <1>5, <2>1, AllocateOpen
<1> QED BY <1>0, <1>2, <1>3, <1>4, <1>5

(* The evicted runtime has closed, and the one asked for is opened.          *)
LEMMA EvictedOpens ==
    ASSUME RouterInv, current.pc = "evict", UNCHANGED <<queue, router>>,
           Open(current.caller, callers[current.caller].organization,
                [runtimes EXCEPT ![current.runtime].state = "closed"], resident)
    PROVE  RouterInv'
<1>0. /\ RouterType /\ QueueInv /\ MapInv /\ LeaseInv
      /\ current.caller \in Callers /\ current.runtime \in 1..MaxOpens
      /\ callers[current.caller].status = "queued" /\ callers[current.caller].organization \in Organizations
      /\ router # "closed" /\ runtimes[current.runtime].state = "closing"
      /\ resident[callers[current.caller].organization] = 0
    BY CurrentFacts DEF RouterInv, QueueInv, MapInv, LeaseInv, Idle
<1> PICK c \in Callers : c = current.caller
    BY <1>0
<1> PICK v \in 1..MaxOpens : v = current.runtime
    BY <1>0
<1> PICK o \in Organizations : o = callers[c].organization
    BY <1>0
<1> DEFINE others == [runtimes EXCEPT ![v].state = "closed"]
<1>1. others \in [1..MaxOpens -> Runtime]
    <2>1. runtimes \in [1..MaxOpens -> Runtime] /\ runtimes[v] \in Runtime
        BY <1>0 DEF RouterType
    <2>2. [runtimes[v] EXCEPT !.state = "closed"] \in Runtime
        BY <2>1 DEF Runtime, RuntimeStates
    <2> QED BY <2>1, <2>2
<1>2. v \in Opened /\ \A e \in 1..MaxOpens : runtimes[e].state = "closing" <=> e = v
    BY <1>0 DEF MapInv, Opened
<1>3. \A e \in 1..MaxOpens : others[e] = IF runtimes[e].state = "closing"
                                         THEN [runtimes[e] EXCEPT !.state = "closed"] ELSE runtimes[e]
    BY <1>0, <1>2 DEF RouterType
<1>4. Cardinality(Residents) < MaxActive
    <2>1. v \in Unfinishing /\ v \notin Residents
        BY <1>0, <1>2, ResidentFacts DEF Unfinishing, Unfinished
    <2>2. Residents \cup {v} \subseteq Unfinishing
        BY <1>0, <2>1, ResidentFacts
    <2>3. Cardinality(Residents \cup {v}) = Cardinality(Residents) + 1 /\ Cardinality(Residents) \in Nat
        BY <1>0, <2>1, RuntimesFinite, FS_AddElement
    <2>4. Cardinality(Residents \cup {v}) <= Cardinality(Unfinishing) /\ Cardinality(Unfinishing) \in Nat
        BY <1>0, <2>2, RuntimesFinite, FS_Subset
    <2>5. Cardinality(Unfinishing) <= MaxActive
        BY <1>0 DEF MapInv
    <2> QED BY <2>3, <2>4, <2>5, RouterAssumption
<1>5. Cardinality(Opened) < MaxOpens /\ Cardinality(Opened) \in Nat
    <2>1. CloseIsDue => Len(queue) >= 1
        BY <1>0 DEF QueueInv, RouterType
    <2>2. Cardinality(Opened) + Len(queue) + 1 <= MaxOpens + (IF CloseIsDue THEN 1 ELSE 0)
        BY <1>0 DEF QueueInv, WillHaveOpened
    <2>3. Len(queue) \in Nat /\ Cardinality(Opened) \in Nat
        BY <1>0, RuntimesFinite DEF RouterType
    <2> QED BY <2>1, <2>2, <2>3, RouterAssumption
<1>6. Open(c, o, others, resident)
    OBVIOUS
<1>7. current'.pc = "open" /\ current'.caller = current.caller /\ callers' = callers
    BY DEF Open
<1> HIDE DEF others
<1>8. /\ Opened' = 1..Cardinality(Opened') /\ Cardinality(Opened') = Cardinality(Opened) + 1
      /\ QueueInv' /\ queue' \in Seq(Callers \cup {TheRouter}) => RouterInv'
    BY <1>0, <1>1, <1>3, <1>4, <1>5, <1>6, OpenStep
<1>9. QueueInv' /\ queue' \in Seq(Callers \cup {TheRouter})
    <2>1. Cardinality(Opened') \in Nat
          /\ Cardinality(Opened') <= Cardinality(Opened) + (IF current.pc = "evict" THEN 1 ELSE 0)
        BY <1>5, <1>8
    <2>2. \A d \in Callers \ {current.caller} : callers'[d].status = callers[d].status
        BY <1>7
    <2> QED BY <1>7, <1>8, <2>1, <2>2, SettledQueue
<1> QED BY <1>8, <1>9

(* An allocation ends for its caller: what it was about is done with, or     *)
(* open and leased.                                                          *)
LEMMA SettledStep ==
    ASSUME RouterInv, current.pc \in {"open", "evict"}, UNCHANGED <<queue, router>>, current' = Idle,
           NEW e \in 1..MaxOpens, e = current.runtime, NEW c \in Callers, c = current.caller,
           NEW r \in Caller, callers' = [callers EXCEPT ![c] = r],
           NEW state \in {"open", "failed", "stuck"}, runtimes' = [runtimes EXCEPT ![e].state = state],
           state \in {"open", "failed"} => current.pc = "open", state = "stuck" => current.pc = "evict",
           state = "open" => /\ UNCHANGED resident
                             /\ r = [status |-> "holding", organization |-> runtimes[e].organization, runtime |-> e],
           state # "open" => r = Away,
           state = "stuck" => UNCHANGED resident,
           state = "failed" => resident' = [resident EXCEPT ![runtimes[e].organization] = 0]
    PROVE  RouterInv'
<1>0. /\ RouterType /\ QueueInv /\ MapInv /\ LeaseInv
      /\ callers[c].status = "queued" /\ callers[c].runtime = 0 /\ router # "closed"
      /\ current'.pc = "idle" /\ current' = Idle
    BY DEF RouterInv, LeaseInv, QueueInv, Idle
<1>1. /\ runtimes[e].state \in {"opening", "closing"} /\ e \in Opened
      /\ current.pc = "open" <=> runtimes[e].state = "opening"
      /\ current.pc = "evict" <=> runtimes[e].state = "closing"
      /\ e \in Unfinishing /\ runtimes[e].organization \in Organizations
      /\ runtimes[e].state = "opening" => resident[runtimes[e].organization] = e
    BY <1>0 DEF MapInv, Opened, Unfinishing, Unfinished
<1>2. /\ \A d \in 1..MaxOpens : d # e => runtimes'[d] = runtimes[d]
      /\ runtimes'[e].state = state /\ runtimes'[e].organization = runtimes[e].organization
      /\ runtimes'[e].references = runtimes[e].references
      /\ runtimes' \in [1..MaxOpens -> Runtime]
    <2>1. runtimes \in [1..MaxOpens -> Runtime] /\ runtimes[e] \in Runtime
        BY <1>0 DEF RouterType
    <2>2. [runtimes[e] EXCEPT !.state = state] \in Runtime
        BY <2>1 DEF Runtime, RuntimeStates
    <2>3. runtimes'[e] = [runtimes[e] EXCEPT !.state = state] /\ \A d \in 1..MaxOpens : d # e => runtimes'[d] = runtimes[d]
        BY <2>1
    <2>4. runtimes' \in [1..MaxOpens -> Runtime]
        BY <2>1, <2>2
    <2> QED BY <2>1, <2>3, <2>4 DEF Runtime
<1>3. \A d \in Callers : callers'[d] = IF d = c THEN r ELSE callers[d]
    BY <1>0 DEF RouterType
<1>4. Opened' = Opened /\ Opened \subseteq 1..MaxOpens
    BY <1>1, <1>2 DEF Opened
<1>5. \A q \in Organizations : resident'[q] = IF state = "failed" /\ q = runtimes[e].organization
                                              THEN 0 ELSE resident[q]
    BY <1>0 DEF RouterType
<1>6. \A q \in Organizations : resident'[q] # 0 =>
          resident[q] = resident'[q] /\ resident[q] \in Opened /\ (resident[q] = e => state = "open")
    <2> SUFFICES ASSUME NEW q \in Organizations, resident'[q] # 0
                 PROVE  resident[q] = resident'[q] /\ resident[q] \in Opened /\ (resident[q] = e => state = "open")
        OBVIOUS
    <2>1. resident[q] = resident'[q] /\ (state = "failed" => q # runtimes[e].organization)
        BY <1>5
    <2>2. resident[q] \in 1..MaxOpens /\ runtimes[resident[q]].organization = q
          /\ runtimes[resident[q]].state \in {"opening", "open", "aborted"}
        BY <1>0, <2>1, RouterAssumption DEF RouterType, MapInv
    <2>3. resident[q] = e => state # "stuck" /\ state # "failed"
        BY <1>1, <2>1, <2>2
    <2> QED BY <2>1, <2>2, <2>3 DEF Opened
<1>7. Residents' = {resident'[q] : q \in Organizations} \ {0} /\ Residents' \subseteq Residents
    BY <1>6 DEF Residents
<1>8. Unfinishing' = IF state = "open" THEN Unfinishing ELSE Unfinishing \ {e}
    <2>1. Unfinishing' = {d \in Opened : runtimes'[d].state \in Unfinished}
        BY <1>4 DEF Unfinishing, Unfinished
    <2>2. \A d \in Opened : d # e => (runtimes'[d].state \in Unfinished <=> runtimes[d].state \in Unfinished)
        BY <1>2, <1>4
    <2>3. runtimes'[e].state \in Unfinished <=> state = "open"
        BY <1>2 DEF Unfinished
    <2> QED BY <1>1, <2>1, <2>2, <2>3 DEF Unfinishing
<1>9. QueueInv' /\ queue' \in Seq(Callers \cup {TheRouter})
    <2>1. Opened' = 1..Cardinality(Opened') /\ Cardinality(Opened') \in Nat
          /\ Cardinality(Opened') <= Cardinality(Opened) + (IF current.pc = "evict" THEN 1 ELSE 0)
        BY <1>0, <1>4, RuntimesFinite DEF QueueInv
    <2>2. \A d \in Callers \ {current.caller} : callers'[d].status = callers[d].status
        BY <1>3
    <2> QED BY <1>0, <2>1, <2>2, SettledQueue
<1>10. RouterType'
    <2>1. callers' \in [Callers -> Caller]
        BY <1>0 DEF RouterType
    <2>2. resident' \in [Organizations -> 0..MaxOpens]
        <3>1. CASE resident' = resident
            BY <1>0, <3>1 DEF RouterType
        <3>2. CASE resident' = [resident EXCEPT ![runtimes[e].organization] = 0]
            <4>1. resident \in [Organizations -> 0..MaxOpens] /\ 0 \in 0..MaxOpens
                BY <1>0, RouterAssumption DEF RouterType
            <4> QED BY <3>2, <4>1
        <3> QED BY <3>1, <3>2
    <2> QED BY <1>0, <1>2, <1>9, <2>1, <2>2 DEF RouterType
<1>11. MapInv'
    <2>1. \A q \in Organizations : resident'[q] # 0 =>
              /\ runtimes'[resident'[q]].organization = q
              /\ runtimes'[resident'[q]].state \in {"opening", "open", "aborted"}
        BY <1>0, <1>2, <1>4, <1>6 DEF MapInv
    <2>2. ASSUME NEW d \in Opened, d # e
          PROVE  /\ runtimes'[d].organization \in Organizations
                 /\ runtimes'[d].state \in {"opening", "open", "aborted"} => resident'[runtimes'[d].organization] = d
                 /\ runtimes'[d].state \notin {"opening", "closing"}
        <3>1. runtimes'[d] = runtimes[d] /\ runtimes[d].organization \in Organizations
              /\ runtimes[d].state \notin {"opening", "closing"}
            BY <1>0, <1>2, <1>4, <2>2 DEF MapInv
        <3>2. runtimes[d].state \in {"opening", "open", "aborted"} => resident[runtimes[d].organization] = d
            BY <1>0 DEF MapInv
        <3>3. ASSUME state = "failed" PROVE resident[runtimes[e].organization] # d
            BY <1>1, <2>2, <3>3
        <3> QED BY <1>5, <3>1, <3>2, <3>3
    <2>3. /\ runtimes'[e].organization \in Organizations
          /\ runtimes'[e].state \in {"opening", "open", "aborted"} => resident'[runtimes'[e].organization] = e
          /\ runtimes'[e].state \notin {"opening", "closing"}
        BY <1>1, <1>2, <1>5
    <2>4. \A d, other \in Unfinishing' : runtimes'[d].organization = runtimes'[other].organization => d = other
        <3>1. \A d \in Unfinishing' : d \in Unfinishing /\ runtimes'[d].organization = runtimes[d].organization
            BY <1>2, <1>4, <1>8 DEF Unfinishing
        <3> QED BY <1>0, <3>1 DEF MapInv
    <2>5. Cardinality(Unfinishing') <= MaxActive
        <3>1. Cardinality(Unfinishing') <= Cardinality(Unfinishing) /\ Cardinality(Unfinishing') \in Nat
              /\ Cardinality(Unfinishing) \in Nat
            BY <1>0, <1>8, RuntimesFinite, FS_Subset, FS_CardinalityType
        <3>2. Cardinality(Unfinishing) <= MaxActive
            BY <1>0 DEF MapInv
        <3> QED BY <3>1, <3>2, RouterAssumption
    <2> QED BY <1>0, <1>4, <2>1, <2>2, <2>3, <2>4, <2>5 DEF MapInv
<1>12. LeaseInv'
    <2>1. \A d \in Callers : Backed(callers[d])
        BY <1>0 DEF LeaseInv, Backed
    <2>2. \A d \in Opened : /\ runtimes'[d].organization = runtimes[d].organization
                            /\ d # e => runtimes'[d] = runtimes[d]
        BY <1>2, <1>4
    <2>3. ASSUME NEW d \in Callers, d # c
          PROVE  /\ callers'[d].status = "idle" => callers'[d] = Away
                 /\ callers'[d].status = "queued" => callers'[d].runtime = 0
                                                     /\ callers'[d].organization \in Organizations
                 /\ callers'[d].status \in {"waiting", "holding"} =>
                        /\ callers'[d].runtime \in Opened
                        /\ callers'[d].organization = runtimes'[callers'[d].runtime].organization
                 /\ callers'[d].status = "holding" => runtimes'[callers'[d].runtime].state \notin {"opening", "failed"}
                 /\ router = "open" /\ callers'[d].status \in {"waiting", "holding"} =>
                        runtimes'[callers'[d].runtime].state \notin {"closing", "closed", "stuck"}
        <3>1. callers'[d] = callers[d] /\ Backed(callers[d])
            BY <1>3, <2>1, <2>3
        <3>2. callers[d].status = "holding" /\ callers[d].runtime = e => state = "stuck"
            BY <1>1, <3>1 DEF Backed
        <3>3. router = "open" /\ callers[d].status \in {"waiting", "holding"} /\ callers[d].runtime = e
                  => state \in {"open", "failed"}
            BY <1>1, <3>1 DEF Backed
        <3>4. callers[d].status \in {"waiting", "holding"} =>
                  /\ callers[d].runtime \in Opened
                  /\ callers[d].organization = runtimes'[callers[d].runtime].organization
            BY <2>2, <3>1 DEF Backed
        <3>5. callers[d].status = "holding" => runtimes'[callers[d].runtime].state \notin {"opening", "failed"}
            BY <1>2, <2>2, <3>1, <3>2 DEF Backed
        <3>6. router = "open" /\ callers[d].status \in {"waiting", "holding"} =>
                  runtimes'[callers[d].runtime].state \notin {"closing", "closed", "stuck"}
            BY <1>2, <2>2, <3>1, <3>3 DEF Backed
        <3> QED BY <3>1, <3>4, <3>5, <3>6 DEF Backed
    <2>4. /\ r.status \in {"idle", "holding"} /\ (r.status = "idle" => r = Away)
          /\ r.status = "holding" => r.runtime = e /\ r.organization = runtimes'[e].organization
                                     /\ runtimes'[e].state = "open"
        BY <1>2 DEF Away
    <2>5. \A d \in Residents' : runtimes'[d].references = Cardinality(Users(d)')
        <3> SUFFICES ASSUME NEW d \in Residents' PROVE runtimes'[d].references = Cardinality(Users(d)')
            OBVIOUS
        <3>1. d \in Residents /\ d \in 1..MaxOpens /\ d # 0 /\ (d = e => state = "open")
            BY <1>0, <1>6, <1>7, RuntimesFinite DEF Residents
        <3>2. runtimes[d].references = Cardinality(Users(d)) /\ runtimes'[d].references = runtimes[d].references
            BY <1>0, <1>2, <3>1 DEF LeaseInv
        <3>3. callers[c].runtime # d
            BY <1>0, <3>1
        <3>4. r.runtime = d <=> d = e /\ state = "open"
            BY <3>1 DEF Away
        <3>5. c \in Users(d) <=> current.pc = "open" /\ d = e
            BY <3>3 DEF Users
        <3>6. c \in Users(d)' <=> r.runtime = d
            BY <1>0, <1>3 DEF Users
        <3>7. d = e => current.pc = "open"
            BY <3>1
        <3>8. Users(d)' = Users(d)
            <4>1. \A a \in Callers \ {c} : a \in Users(d)' <=> a \in Users(d)
                BY <1>0, <1>3 DEF Users
            <4>2. c \in Users(d)' <=> c \in Users(d)
                BY <3>1, <3>4, <3>5, <3>6, <3>7
            <4>3. Users(d) \subseteq Callers /\ Users(d)' \subseteq Callers
                BY DEF Users
            <4> QED BY <4>1, <4>2, <4>3
        <3> QED BY <3>2, <3>8
    <2> QED BY <1>0, <1>1, <1>3, <1>4, <2>3, <2>4, <2>5 DEF LeaseInv
<1> QED BY <1>9, <1>10, <1>11, <1>12 DEF RouterInv

LEMMA EvictedStep ==
    ASSUME RouterInv, Evicted
    PROVE  RouterInv'
<1>0. current.caller \in Callers /\ current.runtime \in 1..MaxOpens /\ current.pc = "evict" /\ UNCHANGED <<queue, router>>
    BY CurrentFacts DEF RouterInv, Evicted
<1>1. CASE Open(current.caller, callers[current.caller].organization,
                [runtimes EXCEPT ![current.runtime].state = "closed"], resident)
    BY <1>0, <1>1, EvictedOpens
<1>2. CASE /\ runtimes' = [runtimes EXCEPT ![current.runtime].state = "stuck"]
           /\ Refuse(current.caller) /\ current' = Idle /\ UNCHANGED <<resident, recency>>
    <2>1. Away \in Caller
        BY RouterAssumption DEF Away, Caller
    <2> PICK c \in Callers : c = current.caller
        BY <1>0
    <2> PICK e \in 1..MaxOpens : e = current.runtime
        BY <1>0
    <2>2. callers' = [callers EXCEPT ![c] = Away]
        BY <1>2 DEF Refuse
    <2> QED BY <1>0, <1>2, <2>1, <2>2, SettledStep
<1> QED BY <1>1, <1>2 DEF Evicted

LEMMA OpenSettlesStep ==
    ASSUME RouterInv, OpenSettles
    PROVE  RouterInv'
<1>0. current.caller \in Callers /\ current.runtime \in 1..MaxOpens /\ current.pc = "open" /\ UNCHANGED <<queue, router>>
      /\ current' = Idle /\ MapInv /\ RouterType
    BY CurrentFacts DEF RouterInv, OpenSettles
<1> PICK c \in Callers : c = current.caller
    BY <1>0
<1> PICK e \in 1..MaxOpens : e = current.runtime
    BY <1>0
<1>1. CASE /\ runtimes' = [runtimes EXCEPT ![e].state = "open"]
           /\ SetCaller(c, "holding", runtimes[e].organization, e) /\ UNCHANGED resident
    <2> PICK r : r = [status |-> "holding", organization |-> runtimes[e].organization, runtime |-> e]
        OBVIOUS
    <2>1. r \in Caller /\ callers' = [callers EXCEPT ![c] = r]
        BY <1>0, <1>1, RouterAssumption DEF Caller, SetCaller, RouterType, Runtime
    <2> QED BY <1>0, <1>1, <2>1, SettledStep
<1>2. CASE /\ runtimes' = [runtimes EXCEPT ![e].state = "failed"] /\ Refuse(c)
           /\ resident' = [resident EXCEPT ![runtimes[e].organization] = IF @ = e THEN 0 ELSE @]
    <2>1. Away \in Caller /\ callers' = [callers EXCEPT ![c] = Away]
        BY <1>2, RouterAssumption DEF Away, Caller, Refuse
    <2>2. resident[runtimes[e].organization] = e
        BY <1>0 DEF MapInv, Opened
    <2>3. resident' = [resident EXCEPT ![runtimes[e].organization] = 0]
        BY <1>2, <2>2
    <2> QED BY <1>0, <1>2, <2>1, <2>3, SettledStep
<1> QED BY <1>1, <1>2 DEF OpenSettles

---------------------------------------------------------------------------
(* The router closes *)

LEMMA CloseStep ==
    ASSUME RouterInv, Close
    PROVE  RouterInv'
<1>0. /\ RouterType /\ QueueInv /\ MapInv /\ LeaseInv
      /\ router = "open" /\ router' = "closing" /\ queue' = Append(queue, TheRouter)
      /\ UNCHANGED <<runtimes, resident, current, callers>>
    BY DEF RouterInv, Close
<1>1. ~CloseIsDue /\ CloseIsDue' /\ current.pc # "close"
    BY <1>0 DEF CloseIsDue, QueueInv
<1>2. Opened' = Opened /\ Unfinishing' = Unfinishing /\ Residents' = Residents /\ \A e : Users(e)' = Users(e)
    BY <1>0 DEF Opened, Unfinishing, Residents, Users
<1>3. /\ Len(queue) \in Nat /\ Len(queue') = Len(queue) + 1 /\ queue' \in Seq(Callers \cup {TheRouter})
      /\ \A i \in 1..Len(queue') : queue'[i] = IF i = Len(queue) + 1 THEN TheRouter ELSE queue[i]
    BY <1>0 DEF RouterType
<1>4. QueueInv'
    <2>1. \A i \in 1..Len(queue) :
              /\ queue[i] # TheRouter /\ queue[i] \in Callers /\ callers[queue[i]].status = "queued"
              /\ current.pc \in {"open", "evict"} => current.caller # queue[i]
        BY <1>0, <1>1, RouterAssumption DEF QueueInv
    <2>2. \A i, j \in 1..Len(queue') : queue'[i] = queue'[j] => i = j
        <3>1. \A i, j \in 1..Len(queue) : queue[i] = queue[j] => i = j
            BY <1>0 DEF QueueInv
        <3> QED BY <1>3, <2>1, <3>1
    <2>3. \A i \in 1..Len(queue') :
              \/ queue'[i] = TheRouter /\ i = Len(queue') /\ CloseIsDue'
              \/ /\ queue'[i] \in Callers /\ callers'[queue'[i]].status = "queued"
                 /\ current'.pc \in {"open", "evict"} => current'.caller # queue'[i]
        <3> SUFFICES ASSUME NEW i \in 1..Len(queue')
                     PROVE  \/ queue'[i] = TheRouter /\ i = Len(queue') /\ CloseIsDue'
                            \/ /\ queue'[i] \in Callers /\ callers'[queue'[i]].status = "queued"
                               /\ current'.pc \in {"open", "evict"} => current'.caller # queue'[i]
            OBVIOUS
        <3>1. CASE i = Len(queue) + 1
            BY <1>1, <1>3, <3>1
        <3>2. CASE i # Len(queue) + 1
            <4>1. i \in 1..Len(queue) /\ queue'[i] = queue[i]
                BY <1>3, <3>2
            <4> QED BY <1>0, <2>1, <4>1
        <3> QED BY <3>1, <3>2
    <2>4. queue' # <<>> /\ queue'[Len(queue')] = TheRouter
        BY <1>0, <1>3
    <2>5. WillHaveOpened' <= MaxOpens + 1
        <3>1. WillHaveOpened' = WillHaveOpened + 1 /\ WillHaveOpened \in Nat
            BY <1>0, <1>2, <1>3, RuntimesFinite DEF WillHaveOpened
        <3>2. WillHaveOpened <= MaxOpens
            BY <1>0, <1>1, RouterAssumption DEF QueueInv
        <3> QED BY <3>1, <3>2, RouterAssumption
    <2>6. Opened' = 1..Cardinality(Opened') /\ router' # "closed" /\ current'.pc # "close"
        BY <1>0, <1>1, <1>2 DEF QueueInv
    <2> QED BY <1>1, <2>2, <2>3, <2>4, <2>5, <2>6 DEF QueueInv
<1>5. RouterType'
    BY <1>0, <1>3 DEF RouterType
<1>6. MapInv'
    BY <1>0, <1>1, <1>2 DEF MapInv
<1>7. LeaseInv'
    BY <1>0, <1>2 DEF LeaseInv
<1> QED BY <1>4, <1>5, <1>6, <1>7 DEF RouterInv

(* Behind everyone else, it closes what is in the map: nothing else is open. *)
LEMMA CloseAllStep ==
    ASSUME RouterInv, CloseAll
    PROVE  RouterInv'
<1>0. /\ RouterType /\ QueueInv /\ MapInv /\ LeaseInv /\ current = Idle /\ queue # <<>> /\ Head(queue) = TheRouter
      /\ current' = [pc |-> "close"] /\ current.pc = "idle" /\ current'.pc = "close"
      /\ UNCHANGED <<callers, router>>
      /\ runtimes' = [e \in 1..MaxOpens |->
                         IF e \in Residents THEN [runtimes[e] EXCEPT !.state = "closing"] ELSE runtimes[e]]
      /\ resident' = [o \in Organizations |-> 0]
    BY DEF RouterInv, CloseAll, Idle
<1>1. Len(queue) = 1 /\ router = "closing"
    BY <1>0, ChainFacts
<1>2. queue' \in Seq(Callers \cup {TheRouter}) /\ Len(queue') = 0
    <2>1. queue' = Tail(queue)
        BY DEF CloseAll
    <2> QED BY <1>0, <1>1, <2>1, TailFacts
<1>3. \A e \in 1..MaxOpens :
          /\ runtimes'[e].organization = runtimes[e].organization
          /\ runtimes'[e].state = IF e \in Residents THEN "closing" ELSE runtimes[e].state
    BY <1>0 DEF RouterType, Runtime
<1>4. runtimes' \in [1..MaxOpens -> Runtime]
    BY <1>0 DEF RouterType, Runtime, RuntimeStates
<1>5. Opened' = Opened /\ Opened \subseteq 1..MaxOpens
    BY <1>0, <1>3, ResidentFacts DEF Opened
<1>6. Unfinishing = Residents /\ \A e \in Opened : runtimes[e].state \notin {"opening", "closing"}
    BY <1>0, IdleFacts
<1>7. Unfinishing' = Unfinishing /\ Residents' = {}
    <2>1. Unfinishing' = {e \in Opened : runtimes'[e].state \in Unfinished}
        BY <1>5 DEF Unfinishing, Unfinished
    <2>2. \A e \in Opened : runtimes'[e].state \in Unfinished <=> runtimes[e].state \in Unfinished
        BY <1>3, <1>5, <1>6 DEF Unfinishing, Unfinished
    <2> QED BY <1>0, <2>1, <2>2 DEF Residents, Unfinishing
<1>8. ~CloseIsDue' /\ CloseIsDue
    BY <1>0, <1>1 DEF CloseIsDue
<1>9. QueueInv'
    <2>1. WillHaveOpened' <= MaxOpens
        <3>1. Cardinality(Opened) + 1 <= MaxOpens + 1 /\ Cardinality(Opened) \in Nat
            BY <1>0, <1>1, <1>8, RuntimesFinite, RouterAssumption DEF QueueInv, WillHaveOpened
        <3> QED BY <1>0, <1>2, <1>5, <3>1, RouterAssumption DEF WillHaveOpened
    <2>2. Opened' = 1..Cardinality(Opened')
        BY <1>0, <1>5 DEF QueueInv
    <2>3. WillHaveOpened' <= MaxOpens + (IF CloseIsDue' THEN 1 ELSE 0)
        BY <1>8, <2>1, RouterAssumption
    <2>4. 1..Len(queue') = {}
        BY <1>2
    <2>5. router' = "closing"
        BY <1>0, <1>1
    <2> QED BY <1>8, <2>2, <2>3, <2>4, <2>5 DEF QueueInv
<1>10. RouterType'
    BY <1>0, <1>2, <1>4, RouterAssumption DEF RouterType
<1>11. MapInv'
    <2>1. ASSUME NEW e \in Opened
          PROVE  runtimes'[e].organization \in Organizations /\ runtimes'[e].state \notin {"opening", "open", "aborted"}
        <3>1. runtimes'[e].organization = runtimes[e].organization /\ runtimes[e].organization \in Organizations
            BY <1>0, <1>3, <1>5 DEF MapInv
        <3>2. CASE e \in Residents
            BY <1>3, <1>5, <3>1, <3>2
        <3>3. CASE e \notin Residents
            BY <1>3, <1>5, <1>6, <3>1, <3>3 DEF Unfinishing, Unfinished
        <3> QED BY <3>2, <3>3
    <2>2. \A e, other \in Unfinishing : runtimes'[e].organization = runtimes'[other].organization => e = other
        <3>1. \A e \in Unfinishing : runtimes'[e].organization = runtimes[e].organization
            BY <1>3, <1>5 DEF Unfinishing
        <3> QED BY <1>0, <3>1 DEF MapInv
    <2>3. Cardinality(Unfinishing) <= MaxActive /\ router' # "closed"
        BY <1>0, <1>1 DEF MapInv
    <2>4. \A o \in Organizations : resident'[o] = 0
        BY <1>0
    <2> QED BY <1>0, <1>5, <1>7, <2>1, <2>2, <2>3, <2>4 DEF MapInv
<1>12. LeaseInv'
    <2>1. \A e \in Opened : /\ runtimes'[e].organization = runtimes[e].organization
                            /\ runtimes[e].state \notin {"opening", "failed"}
                                   => runtimes'[e].state \notin {"opening", "failed"}
        BY <1>3, <1>5
    <2>2. \A d \in Callers :
              /\ callers[d].status = "idle" => callers[d] = Away
              /\ callers[d].status = "queued" => callers[d].runtime = 0 /\ callers[d].organization \in Organizations
              /\ callers[d].status \in {"waiting", "holding"} =>
                     /\ callers[d].runtime \in Opened
                     /\ callers[d].organization = runtimes'[callers[d].runtime].organization
              /\ callers[d].status = "holding" => runtimes'[callers[d].runtime].state \notin {"opening", "failed"}
        BY <1>0, <2>1 DEF LeaseInv
    <2>3. router' # "open"
        BY <1>0, <1>1
    <2> QED BY <1>0, <1>5, <1>7, <2>2, <2>3 DEF LeaseInv
<1> QED BY <1>9, <1>10, <1>11, <1>12 DEF RouterInv

LEMMA AllClosedStep ==
    ASSUME RouterInv, AllClosed
    PROVE  RouterInv'
<1> DEFINE closing == {e \in Opened : runtimes[e].state = "closing"}
<1>0. /\ RouterType /\ QueueInv /\ MapInv /\ LeaseInv /\ current.pc = "close" /\ router = "closing"
      /\ router' = "closed" /\ current' = Idle /\ current'.pc = "idle"
      /\ UNCHANGED <<resident, queue, callers>>
    BY DEF RouterInv, AllClosed, Idle, QueueInv
<1>1. PICK stuck \in SUBSET closing :
          runtimes' = [e \in 1..MaxOpens |->
                          IF e \in stuck THEN [runtimes[e] EXCEPT !.state = "stuck"]
                          ELSE IF e \in closing THEN [runtimes[e] EXCEPT !.state = "closed"]
                          ELSE runtimes[e]]
    BY DEF AllClosed
<1>2. \A e \in 1..MaxOpens :
          /\ runtimes'[e].organization = runtimes[e].organization
          /\ IF e \in closing THEN runtimes'[e].state \in {"closed", "stuck"} ELSE runtimes'[e] = runtimes[e]
    BY <1>0, <1>1 DEF RouterType, Runtime
<1>3. runtimes' \in [1..MaxOpens -> Runtime]
    BY <1>0, <1>1 DEF RouterType, Runtime, RuntimeStates
<1>4. Opened' = Opened /\ Opened \subseteq 1..MaxOpens
    BY <1>2 DEF Opened
<1>5. (\A o \in Organizations : resident[o] = 0) /\ Residents' = {}
    BY <1>0 DEF MapInv, Residents
<1>6. \A e \in Opened : runtimes[e].state \notin {"opening", "open", "aborted"}
    <2> TAKE e \in Opened
    <2>1. e # 0 /\ runtimes[e].organization \in Organizations /\ resident[runtimes[e].organization] = 0
        BY <1>0, <1>4, <1>5, RouterAssumption DEF MapInv
    <2> QED BY <1>0, <2>1 DEF MapInv
<1>7. \A e \in Opened : runtimes'[e].state \notin {"opening", "open", "aborted", "closing"}
    BY <1>2, <1>4, <1>6
<1>8. Unfinishing' = {}
    BY <1>4, <1>7 DEF Unfinishing, Unfinished
<1>9. ~CloseIsDue /\ ~CloseIsDue'
    BY <1>0 DEF CloseIsDue
<1>10. QueueInv'
    <2>1. WillHaveOpened' <= MaxOpens
        <3>1. WillHaveOpened' = WillHaveOpened
            BY <1>0, <1>4 DEF WillHaveOpened
        <3> QED BY <1>0, <1>9, <3>1, RuntimesFinite, RouterAssumption DEF QueueInv, WillHaveOpened, RouterType
    <2>2. Opened' = 1..Cardinality(Opened')
        BY <1>0, <1>4 DEF QueueInv
    <2>3. WillHaveOpened' <= MaxOpens + (IF CloseIsDue' THEN 1 ELSE 0)
        BY <1>9, <2>1, RouterAssumption
    <2>4. \A i \in 1..Len(queue) : queue[i] \in Callers /\ callers[queue[i]].status = "queued"
        BY <1>0, <1>9 DEF QueueInv
    <2>5. \A i, j \in 1..Len(queue) : queue[i] = queue[j] => i = j
        BY <1>0 DEF QueueInv
    <2> QED BY <1>0, <1>9, <2>2, <2>3, <2>4, <2>5 DEF QueueInv
<1>11. RouterType'
    BY <1>0, <1>3 DEF RouterType
<1>12. MapInv'
    <2>1. \A e \in Opened : runtimes'[e].organization \in Organizations
        BY <1>0, <1>2, <1>4 DEF MapInv
    <2>2. Cardinality(Unfinishing') <= MaxActive
        BY <1>8, FS_EmptySet, RouterAssumption
    <2> QED BY <1>0, <1>4, <1>5, <1>7, <1>8, <2>1, <2>2 DEF MapInv
<1>13. LeaseInv'
    <2>1. \A e \in Opened : /\ runtimes'[e].organization = runtimes[e].organization
                            /\ runtimes[e].state \notin {"opening", "failed"}
                                   => runtimes'[e].state \notin {"opening", "failed"}
        BY <1>2, <1>4
    <2>2. \A d \in Callers :
              /\ callers[d].status = "idle" => callers[d] = Away
              /\ callers[d].status = "queued" => callers[d].runtime = 0 /\ callers[d].organization \in Organizations
              /\ callers[d].status \in {"waiting", "holding"} =>
                     /\ callers[d].runtime \in Opened
                     /\ callers[d].organization = runtimes'[callers[d].runtime].organization
              /\ callers[d].status = "holding" => runtimes'[callers[d].runtime].state \notin {"opening", "failed"}
        BY <1>0, <2>1 DEF LeaseInv
    <2> QED BY <1>0, <1>4, <1>5, <2>2 DEF LeaseInv
<1> QED BY <1>10, <1>11, <1>12, <1>13 DEF RouterInv

---------------------------------------------------------------------------
(* The router as a whole *)

LEMMA RouterInit ==
    ASSUME Init
    PROVE  RouterInv
<1>1. Opened = {} /\ Unfinishing = {} /\ Residents = {}
    BY DEF Init, Opened, Unfinishing, Residents
<1>2. Cardinality({}) = 0
    BY FS_EmptySet
<1>3. ~CloseIsDue /\ WillHaveOpened = 0 /\ Len(queue) = 0 /\ current = Idle /\ current.pc = "idle"
    BY <1>1, <1>2 DEF Init, CloseIsDue, WillHaveOpened, Idle
<1>4. RouterType
    BY RouterAssumption DEF Init, RouterType, Runtime, RuntimeStates, Caller, Away
<1>5. QueueInv
    BY <1>1, <1>2, <1>3, RouterAssumption DEF QueueInv, Init
<1>6. MapInv
    BY <1>1, <1>2, <1>3, RouterAssumption DEF MapInv, Init
<1>7. LeaseInv
    BY <1>1, <1>3 DEF LeaseInv, Init, Away
<1> QED BY <1>4, <1>5, <1>6, <1>7 DEF RouterInv

LEMMA RouterStutters ==
    ASSUME RouterInv, UNCHANGED vars
    PROVE  RouterInv'
<1>1. UNCHANGED <<runtimes, resident, recency, queue, current, callers, router>>
    BY DEF vars
<1>2. RouterType' /\ MapInv'
    BY <1>1 DEF RouterInv, RouterType, MapInv, Unfinishing, Opened
<1>3. QueueInv'
    BY <1>1 DEF RouterInv, QueueInv, WillHaveOpened, CloseIsDue, Opened
<1>4. LeaseInv'
    <2>1. Opened' = Opened /\ Residents' = Residents /\ \A e : Users(e)' = Users(e)
        BY <1>1 DEF Opened, Residents, Users
    <2> QED BY <1>1, <2>1 DEF RouterInv, LeaseInv
<1> QED BY <1>2, <1>3, <1>4 DEF RouterInv

(* What the router does by itself.                                           *)
RouterActs == Step \/ Close \/ (\E c \in Callers : Granted(c)) \/ (\E e \in 1..MaxOpens : Abort(e))

LEMMA RouterActsStep ==
    ASSUME RouterInv, RouterActs
    PROVE  RouterInv'
BY AllocateStep, EvictedStep, OpenSettlesStep, CloseAllStep, AllClosedStep, CloseStep, GrantedStep, AbortStep
   DEF RouterActs, Step

(* A runtime that has been opened is not taken back.                         *)
LEMMA EstablishedStays ==
    ASSUME RouterInv, NEW e \in Opened, runtimes[e].state \notin {"opening", "failed"},
           \/ RouterActs \/ UNCHANGED vars
           \/ \E c \in Callers : Release(c) \/ \E o \in Organizations : Acquire(c, o)
    PROVE  /\ e \in Opened' /\ runtimes'[e].organization = runtimes[e].organization
           /\ runtimes'[e].state \notin {"opening", "failed"}
<1> DEFINE Kept == /\ runtimes'[e].organization = runtimes[e].organization
                   /\ runtimes'[e].state \notin {"none", "opening", "failed"}
<1>0. /\ RouterType /\ QueueInv /\ MapInv /\ LeaseInv /\ e \in 1..MaxOpens /\ runtimes[e] \in Runtime
      /\ runtimes[e].state # "none"
    BY DEF RouterInv, Opened, RouterType
<1>1. \A c \in Callers, o \in Organizations : Lease(c, o, resident[o]) => Kept
    BY <1>0 DEF Lease, RouterType, Runtime
<1>2. \A c \in Callers : Release(c) => Kept
    BY <1>0 DEF Release, RouterType, Runtime
<1>3. \A c \in Callers : Granted(c) => Kept
    BY <1>0 DEF Granted, RouterType, Runtime
<1>4. \A c \in Callers, o \in Organizations : Acquire(c, o) => Kept
    BY <1>0, <1>1 DEF Acquire
<1>5. \A d \in 1..MaxOpens : Abort(d) => Kept
    BY <1>0 DEF Abort, RouterType, Runtime
<1>6. UNCHANGED vars \/ Close => Kept
    BY <1>0 DEF vars, Close
<1>7. CloseAll => Kept
    BY <1>0 DEF CloseAll, RouterType, Runtime
<1>8. AllClosed => Kept
    <2> SUFFICES ASSUME AllClosed PROVE Kept
        OBVIOUS
    <2>1. PICK stuck \in SUBSET {d \in Opened : runtimes[d].state = "closing"} :
              runtimes' = [d \in 1..MaxOpens |->
                              IF d \in stuck THEN [runtimes[d] EXCEPT !.state = "stuck"]
                              ELSE IF d \in {a \in Opened : runtimes[a].state = "closing"}
                                   THEN [runtimes[d] EXCEPT !.state = "closed"]
                              ELSE runtimes[d]]
        BY DEF AllClosed
    <2> QED BY <1>0, <2>1 DEF RouterType, Runtime
<1>9. \A c, o : /\ Open(c, o, runtimes, resident) => Kept
                /\ Open(c, o, [runtimes EXCEPT ![current.runtime].state = "closed"], resident) => Kept
    <2>1. Cardinality(Opened) + 1 # e
        BY <1>0, RuntimesFinite DEF QueueInv
    <2>2. \A c, o : Open(c, o, runtimes, resident) => runtimes'[e] = runtimes[e]
        BY <1>0, <2>1 DEF Open, RouterType
    <2>3. ASSUME NEW c, NEW o, Open(c, o, [runtimes EXCEPT ![current.runtime].state = "closed"], resident)
          PROVE  runtimes'[e] = [runtimes EXCEPT ![current.runtime].state = "closed"][e]
        BY <1>0, <2>1, <2>3 DEF Open, RouterType
    <2>4. /\ [runtimes EXCEPT ![current.runtime].state = "closed"][e].organization = runtimes[e].organization
          /\ [runtimes EXCEPT ![current.runtime].state = "closed"][e].state \in {"closed", runtimes[e].state}
        BY <1>0 DEF RouterType, Runtime
    <2> QED BY <1>0, <2>2, <2>3, <2>4
<1>10. Evicted => Kept
    <2> SUFFICES ASSUME Evicted PROVE Kept
        OBVIOUS
    <2>1. CASE runtimes' = [runtimes EXCEPT ![current.runtime].state = "stuck"]
        BY <1>0, <2>1 DEF RouterType, Runtime
    <2> QED BY <1>9, <2>1 DEF Evicted
<1>11. OpenSettles => Kept
    <2> SUFFICES ASSUME OpenSettles PROVE Kept
        OBVIOUS
    <2>1. current.runtime # e
        BY <1>0 DEF OpenSettles, MapInv
    <2>2. \E state : runtimes' = [runtimes EXCEPT ![current.runtime].state = state]
        BY DEF OpenSettles
    <2> QED BY <1>0, <2>1, <2>2 DEF RouterType
<1>12. Allocate => Kept
    <2> SUFFICES ASSUME Allocate PROVE Kept
        OBVIOUS
    <2>1. CASE runtimes' = runtimes
        BY <1>0, <2>1
    <2>2. CASE \E victim : runtimes' = [runtimes EXCEPT ![victim].state = "closing"]
        BY <1>0, <2>2 DEF RouterType, Runtime
    <2>3. CASE \E c \in Callers, o \in Organizations : Lease(c, o, resident[o])
        BY <1>1, <2>3
    <2>4. CASE \E c, o : Open(c, o, runtimes, resident)
        BY <1>9, <2>4
    <2>5. Head(queue) \in Callers /\ callers[Head(queue)].organization \in Organizations
        BY ChainFacts DEF Allocate
    <2> QED BY <2>1, <2>2, <2>3, <2>4, <2>5 DEF Allocate, Refused, MakeRoom
<1>13. Kept
    BY <1>2, <1>3, <1>4, <1>5, <1>6, <1>7, <1>8, <1>10, <1>11, <1>12 DEF RouterActs, Step
<1> QED BY <1>0, <1>13 DEF Opened

(* The router moves only those who wait for it.                              *)
LEMMA RouterMoves ==
    ASSUME RouterInv, RouterActs, NEW d \in Callers
    PROVE  \/ callers'[d] = callers[d]
           \/ /\ callers[d].status \in {"queued", "waiting"}
              /\ \/ callers'[d] = Away
                 \/ /\ callers'[d].status \in {"waiting", "holding"}
                    /\ callers'[d].organization = callers[d].organization
<1> DEFINE Moved(c) == \A b \in Callers :
               \/ callers'[b] = callers[b]
               \/ /\ b = c /\ callers[b].status \in {"queued", "waiting"}
                  /\ \/ callers'[b] = Away
                     \/ /\ callers'[b].status \in {"waiting", "holding"}
                        /\ callers'[b].organization = callers[b].organization
<1>0. RouterType /\ MapInv /\ LeaseInv
    BY DEF RouterInv
<1>1. \A c \in Callers : callers[c].status \in {"queued", "waiting"} /\ Refuse(c) => Moved(c)
    BY <1>0 DEF Refuse, RouterType
<1>2. \A e : \A c \in Callers, s \in {"waiting", "holding"} :
          callers[c].status \in {"queued", "waiting"} /\ SetCaller(c, s, callers[c].organization, e) => Moved(c)
    BY <1>0 DEF SetCaller, RouterType
<1>3. ASSUME NEW c \in Callers, Granted(c) PROVE \E a : Moved(a)
    BY <1>1, <1>2, <1>3 DEF Granted
<1>4. ASSUME \/ Close \/ AllClosed \/ CloseAll \/ \E e \in 1..MaxOpens : Abort(e) PROVE \E a : Moved(a)
    BY <1>4 DEF Close, AllClosed, CloseAll, Abort
<1>5. ASSUME Evicted \/ OpenSettles PROVE \E a : Moved(a)
    <2>1. current.pc \in {"open", "evict"} /\ current.caller \in Callers /\ callers[current.caller].status = "queued"
        <3>1. current.pc \in {"open", "evict"}
            BY <1>5 DEF Evicted, OpenSettles
        <3> QED BY <1>0, <3>1, CurrentFacts DEF LeaseInv
    <2>2. CASE Evicted
        <3>1. Refuse(current.caller) \/ callers' = callers
            BY <2>2 DEF Evicted, Open
        <3> QED BY <1>1, <2>1, <3>1
    <2>3. CASE OpenSettles
        <3>1. runtimes[current.runtime].organization = callers[current.caller].organization
            BY <1>0, <2>3 DEF OpenSettles, MapInv
        <3>2. \/ Refuse(current.caller)
              \/ SetCaller(current.caller, "holding", runtimes[current.runtime].organization, current.runtime)
            BY <2>3 DEF OpenSettles
        <3> QED BY <1>1, <1>2, <2>1, <3>1, <3>2
    <2> QED BY <1>5, <2>2, <2>3
<1>6. ASSUME Allocate PROVE \E a : Moved(a)
    <2>1. Head(queue) \in Callers /\ callers[Head(queue)].status = "queued"
        BY <1>6, ChainFacts DEF Allocate
    <2>2. CASE Refuse(Head(queue))
        BY <1>1, <2>1, <2>2
    <2>3. CASE SetCaller(Head(queue), "waiting", callers[Head(queue)].organization,
                         resident[callers[Head(queue)].organization])
        BY <1>2, <2>1, <2>3
    <2>4. CASE callers' = callers
        BY <2>1, <2>4
    <2> QED BY <1>6, <2>2, <2>3, <2>4 DEF Allocate, Refused, Lease, MakeRoom, Open
<1>7. \E a : Moved(a)
    BY <1>3, <1>4, <1>5, <1>6 DEF RouterActs, Step
<1> QED BY <1>7

---------------------------------------------------------------------------
(* The requests *)

Request == [pc : RequestSteps, organization : Organizations \cup {"none"}]

(* An active organization stays established through any step that marks none *)
(* but one whose runtime has been opened.                                    *)
LEMMA ActiveStays ==
    ASSUME RouterInv, ActiveMeansEstablished,
           \/ RouterActs \/ UNCHANGED vars
           \/ \E c \in Callers : Release(c) \/ \E o \in Organizations : Acquire(c, o),
           \A o \in Organizations : states'[o] = "active" =>
               \/ states[o] = "active"
               \/ \E e \in Opened : runtimes[e].organization = o /\ runtimes[e].state \notin {"opening", "failed"}
    PROVE  ActiveMeansEstablished'
<1> SUFFICES ASSUME NEW o \in Organizations, states'[o] = "active"
             PROVE  \E e \in Opened' : /\ runtimes'[e].organization = o
                                       /\ runtimes'[e].state \notin {"opening", "failed"}
    BY DEF ActiveMeansEstablished
<1>1. PICK e \in Opened : runtimes[e].organization = o /\ runtimes[e].state \notin {"opening", "failed"}
    BY DEF ActiveMeansEstablished
<1> QED BY <1>1, EstablishedStays

(* One request goes on.                                                      *)
LEMMA RequestMoves ==
    ASSUME ProvisioningInv, NEW c \in Callers, NEW r \in Request, requests' = [requests EXCEPT ![c] = r],
           \A d \in Callers \ {c} : callers'[d] = callers[d], Fits(r, callers'[c]),
           \/ UNCHANGED vars \/ Release(c) \/ \E o \in Organizations : Acquire(c, o),
           states' \in [Organizations -> {"none", "provisioning", "active", "failed"}],
           \A o \in Organizations : states'[o] = "active" =>
               \/ states[o] = "active"
               \/ \E e \in Opened : runtimes[e].organization = o /\ runtimes[e].state \notin {"opening", "failed"}
    PROVE  ProvisioningInv'
<1>1. RouterInv /\ ActiveMeansEstablished /\ \A d \in Callers : Fits(requests[d], callers[d])
    BY DEF ProvisioningInv
<1>2. RouterInv'
    BY <1>1, ReleaseStep, AcquireStep, RouterStutters
<1>3. ActiveMeansEstablished'
    BY <1>1, ActiveStays
<1>4. requests' \in [Callers -> Request] /\ \A d \in Callers : requests'[d] = IF d = c THEN r ELSE requests[d]
    BY DEF ProvisioningInv, Request
<1>5. \A d \in Callers : Fits(requests'[d], callers'[d])
    BY <1>1, <1>4
<1> QED BY <1>2, <1>3, <1>4, <1>5 DEF ProvisioningInv, Request, Fits

LEMMA AcquireMoves ==
    ASSUME RouterInv, NEW c \in Callers, NEW o \in Organizations, Acquire(c, o)
    PROVE  /\ callers'[c].status \in {"queued", "waiting"} /\ callers'[c].organization = o
           /\ \A d \in Callers \ {c} : callers'[d] = callers[d]
<1>1. callers \in [Callers -> Caller]
    BY DEF RouterInv, RouterType
<1>2. \E e : \E s \in {"queued", "waiting"} : SetCaller(c, s, o, e)
    BY DEF Acquire, Lease
<1> QED BY <1>1, <1>2 DEF SetCaller

LEMMA ReleaseMoves ==
    ASSUME RouterInv, NEW c \in Callers, Release(c)
    PROVE  callers'[c] = Away /\ \A d \in Callers \ {c} : callers'[d] = callers[d]
<1>1. callers \in [Callers -> Caller]
    BY DEF RouterInv, RouterType
<1> QED BY <1>1 DEF Release, Refuse

LEMMA MayCommitFacts ==
    ASSUME states \in [Organizations -> {"none", "provisioning", "active", "failed"}], NEW o \in Organizations,
           NEW state \in {"provisioning", "active", "failed"},
           MayCommit(o, state) \/ states' = [states EXCEPT ![o] = state]
    PROVE  /\ states' \in [Organizations -> {"none", "provisioning", "active", "failed"}]
           /\ \A p \in Organizations : states'[p] = "active" => states[p] = "active" \/ (p = o /\ state = "active")
BY DEF MayCommit

(* Whoever marks an organization holds its runtime, which has been opened.   *)
LEMMA HolderIsEstablished ==
    ASSUME ProvisioningInv, NEW c \in Callers, requests[c].pc = "marking"
    PROVE  \E e \in Opened : /\ runtimes[e].organization = requests[c].organization
                             /\ runtimes[e].state \notin {"opening", "failed"}
<1>1. callers[c].status = "holding" /\ requests[c].organization = callers[c].organization
    BY DEF ProvisioningInv, Fits
<1>2. /\ callers[c].runtime \in Opened
      /\ callers[c].organization = runtimes[callers[c].runtime].organization
      /\ runtimes[callers[c].runtime].state \notin {"opening", "failed"}
    BY <1>1 DEF ProvisioningInv, RouterInv, LeaseInv
<1> QED BY <1>1, <1>2

LEMMA RouterStepPreserves ==
    ASSUME ProvisioningInv, RouterStep
    PROVE  ProvisioningInv'
<1>1. /\ RouterInv /\ ActiveMeansEstablished /\ RouterActs /\ UNCHANGED <<states, requests>>
      /\ \A d \in Callers : Fits(requests[d], callers[d])
    BY DEF ProvisioningInv, RouterStep, RouterActs
<1>2. RouterInv'
    BY <1>1, RouterActsStep
<1>3. ActiveMeansEstablished'
    BY <1>1, ActiveStays
<1>4. ASSUME NEW d \in Callers PROVE Fits(requests[d], callers'[d])
    <2>1. Fits(requests[d], callers[d])
        BY <1>1
    <2> QED BY <1>1, <2>1, RouterMoves DEF Fits, Away
<1> QED BY <1>1, <1>2, <1>3, <1>4 DEF ProvisioningInv, Fits

LEMMA RequestStepPreserves ==
    ASSUME ProvisioningInv, NEW c \in Callers,
           RequestStep(c) \/ Leave(c) \/ \E o \in Organizations : Count(c, o) \/ Enter(c, o)
    PROVE  ProvisioningInv'
<1> DEFINE o == requests[c].organization
           At(pc) == [pc |-> pc, organization |-> o]
           Unmarked == /\ states' \in [Organizations -> {"none", "provisioning", "active", "failed"}]
                       /\ \A p \in Organizations : states'[p] = "active" =>
                              \/ states[p] = "active"
                              \/ \E e \in Opened : /\ runtimes[e].organization = p
                                                   /\ runtimes[e].state \notin {"opening", "failed"}
<1>0. /\ RouterInv /\ ActiveMeansEstablished /\ requests \in [Callers -> Request] /\ Fits(requests[c], callers[c])
      /\ states \in [Organizations -> {"none", "provisioning", "active", "failed"}]
      /\ callers \in [Callers -> Caller]
    BY DEF ProvisioningInv, Request, RouterInv, RouterType
<1>1. /\ requests[c] \in Request /\ requests[c] = At(requests[c].pc)
      /\ requests[c].pc # "idle" => o \in Organizations
      /\ callers[c].status \in {"idle", "queued", "waiting", "holding"}
    BY <1>0 DEF Fits, Request, Caller
<1>2. \A pc \in RequestSteps : At(pc) \in Request /\ (Goes(c, pc) => requests' = [requests EXCEPT ![c] = At(pc)])
    BY <1>0, <1>1 DEF Request, Goes
<1>3. NoRequest \in Request /\ NoRequest.pc = "idle" /\ (Done(c) => requests' = [requests EXCEPT ![c] = NoRequest])
    BY DEF NoRequest, Request, RequestSteps, Done
<1>4. /\ UNCHANGED vars => callers' = callers
      /\ UNCHANGED states => Unmarked
      /\ \A state \in {"provisioning", "failed"} :
             o \in Organizations /\ (MayCommit(o, state) \/ states' = [states EXCEPT ![o] = state]) => Unmarked
    BY <1>0, MayCommitFacts DEF vars
<1>5. ASSUME NEW pc \in RequestSteps, Goes(c, pc), UNCHANGED vars, Unmarked, Fits(At(pc), callers[c])
      PROVE  ProvisioningInv'
    BY <1>2, <1>4, <1>5, RequestMoves
<1>6. ASSUME Done(c), UNCHANGED vars, Unmarked, callers[c].status = "idle"
      PROVE  ProvisioningInv'
    <2>1. Fits(NoRequest, callers[c])
        BY <1>3, <1>6 DEF Fits
    <2> QED BY <1>3, <1>4, <1>6, <2>1, RequestMoves
<1>7. ASSUME NEW pc \in {"acquiring", "visiting"}, Goes(c, pc), Acquire(c, o), o \in Organizations, Unmarked
      PROVE  ProvisioningInv'
    <2>1. pc \in RequestSteps
        BY DEF RequestSteps
    <2>2. Fits(At(pc), callers'[c])
        BY <1>0, <1>7, AcquireMoves DEF Fits
    <2>3. \A d \in Callers \ {c} : callers'[d] = callers[d]
        BY <1>0, <1>7, AcquireMoves
    <2> HIDE DEF o, At, Unmarked
    <2>4. At(pc) \in Request /\ requests' = [requests EXCEPT ![c] = At(pc)]
        BY <1>2, <1>7, <2>1
    <2> QED BY <1>7, <2>2, <2>3, <2>4, RequestMoves DEF Unmarked
<1>8. ASSUME NEW r \in Request, requests' = [requests EXCEPT ![c] = r], r.pc \in {"idle", "failing"},
             r.pc = "failing" => r.organization \in Organizations, Release(c), Unmarked
      PROVE  ProvisioningInv'
    <2>1. Fits(r, callers'[c])
        BY <1>0, <1>8, ReleaseMoves DEF Fits, Away
    <2>2. \A d \in Callers \ {c} : callers'[d] = callers[d]
        BY <1>0, <1>8, ReleaseMoves
    <2> QED BY <1>8, <2>1, <2>2, RequestMoves
<1>9. CASE \E p \in Organizations : Count(c, p)
    <2> PICK p \in Organizations : Count(c, p)
        BY <1>9
    <2>1. PICK pc \in {"counted", "reading", "provision"} : requests' = [requests EXCEPT ![c] = [organization |-> p, pc |-> pc]]
        BY DEF Count
    <2>2. callers[c] = Away /\ UNCHANGED <<vars, states>>
        BY DEF Count
    <2>3. [organization |-> p, pc |-> pc] \in Request /\ Fits([organization |-> p, pc |-> pc], callers[c])
        BY <2>2 DEF Request, RequestSteps, Fits, Away
    <2> HIDE DEF o, At, Unmarked
    <2> QED BY <1>4, <2>1, <2>2, <2>3, RequestMoves DEF Unmarked
<1>10. CASE \E p \in Organizations : Enter(c, p)
    <2> PICK p \in Organizations : Enter(c, p)
        BY <1>10
    <2>1. requests' = [requests EXCEPT ![c] = [pc |-> "entering", organization |-> p]]
          /\ callers[c] = Away /\ UNCHANGED <<vars, states>>
        BY DEF Enter
    <2>2. [pc |-> "entering", organization |-> p] \in Request
          /\ Fits([pc |-> "entering", organization |-> p], callers[c])
        BY <2>1 DEF Request, RequestSteps, Fits, Away
    <2> HIDE DEF o, At, Unmarked
    <2> QED BY <1>4, <2>1, <2>2, RequestMoves DEF Unmarked
<1>11. CASE Insert(c)
    <2>1. requests[c].pc = "counted" /\ callers[c].status = "idle" /\ o \in Organizations /\ UNCHANGED vars /\ Unmarked
        BY <1>0, <1>1, <1>4, <1>11 DEF Insert, Fits
    <2>2. "provision" \in RequestSteps /\ Fits(At("provision"), callers[c])
        BY <2>1 DEF RequestSteps, Fits
    <2> HIDE DEF o, At, Unmarked
    <2> QED BY <1>5, <1>6, <1>11, <2>1, <2>2 DEF Insert
<1>12. CASE Provision(c)
    <2>1. requests[c].pc = "provision" /\ callers[c].status = "idle" /\ o \in Organizations /\ Unmarked
        BY <1>0, <1>1, <1>4, <1>12 DEF Provision, Fits
    <2>2. "failing" \in RequestSteps /\ Fits(At("failing"), callers[c])
        BY <2>1 DEF RequestSteps, Fits
    <2> HIDE DEF At, Unmarked
    <2> QED BY <1>5, <1>7, <1>12, <2>1, <2>2 DEF Provision
<1>13. CASE Acquired(c)
    <2>1. requests[c].pc = "acquiring" /\ callers[c].status = "holding" /\ UNCHANGED <<vars, states>> /\ Unmarked
        BY <1>4, <1>13 DEF Acquired
    <2>2. "marking" \in RequestSteps /\ Fits(At("marking"), callers[c])
        BY <1>0, <2>1 DEF RequestSteps, Fits
    <2> HIDE DEF At, Unmarked
    <2> QED BY <1>5, <1>13, <2>1, <2>2 DEF Acquired
<1>14. CASE NotAcquired(c)
    <2>1. requests[c].pc = "acquiring" /\ callers[c].status = "idle" /\ UNCHANGED <<vars, states>> /\ Unmarked
        BY <1>4, <1>14 DEF NotAcquired
    <2>2. "failing" \in RequestSteps /\ Fits(At("failing"), callers[c])
        BY <1>0, <2>1 DEF RequestSteps, Fits
    <2> HIDE DEF At, Unmarked
    <2> QED BY <1>5, <1>14, <2>1, <2>2 DEF NotAcquired
<1>15. CASE Mark(c)
    <2>1. requests[c].pc = "marking" /\ o \in Organizations /\ callers[c].status = "holding"
        BY <1>0, <1>1, <1>15 DEF Mark, Fits
    <2>2. Unmarked
        BY <1>0, <1>15, <2>1, MayCommitFacts, HolderIsEstablished DEF Mark
    <2>3. /\ "reading" \in RequestSteps /\ "failing" \in RequestSteps /\ Fits(At("reading"), callers[c])
          /\ At("failing").pc = "failing" /\ At("failing").organization \in Organizations
        BY <1>0, <2>1 DEF RequestSteps, Fits
    <2>4. CASE Goes(c, "reading") /\ UNCHANGED vars
        <3> HIDE DEF At, Unmarked
        <3> QED BY <1>5, <2>2, <2>3, <2>4
    <2>5. CASE Goes(c, "failing") /\ Release(c)
        <3> HIDE DEF At, Unmarked
        <3>1. At("failing") \in Request /\ requests' = [requests EXCEPT ![c] = At("failing")]
            BY <1>2, <2>3, <2>5
        <3> QED BY <1>8, <2>2, <2>3, <2>5, <3>1
    <2> QED BY <1>15, <2>4, <2>5 DEF Mark
<1>16. CASE Fail(c)
    <2>1. requests[c].pc = "failing" /\ callers[c].status = "idle" /\ o \in Organizations /\ Unmarked
        BY <1>0, <1>1, <1>4, <1>16 DEF Fail, Fits
    <2> HIDE DEF At, Unmarked
    <2> QED BY <1>6, <1>16, <2>1 DEF Fail
<1>17. CASE ReadBack(c)
    <2>1. requests[c].pc = "reading" /\ callers[c].status \in {"idle", "holding"} /\ Unmarked
        BY <1>0, <1>1, <1>4, <1>17 DEF ReadBack, Fits
    <2> HIDE DEF At, Unmarked
    <2> QED BY <1>3, <1>6, <1>8, <1>17, <2>1 DEF ReadBack
<1>18. CASE Visit(c)
    <2>1. requests[c].pc = "entering" /\ callers[c].status = "idle" /\ o \in Organizations /\ Unmarked
        BY <1>0, <1>1, <1>4, <1>18 DEF Visit, Fits
    <2> HIDE DEF At, Unmarked
    <2> QED BY <1>6, <1>7, <1>18, <2>1 DEF Visit
<1>19. CASE Leave(c)
    <2>1. requests[c].pc = "visiting" /\ Unmarked
        BY <1>4, <1>19 DEF Leave
    <2> HIDE DEF At, Unmarked
    <2> QED BY <1>3, <1>6, <1>8, <1>19, <2>1 DEF Leave
<1> QED BY <1>9, <1>10, <1>11, <1>12, <1>13, <1>14, <1>15, <1>16, <1>17, <1>18, <1>19 DEF RequestStep

---------------------------------------------------------------------------
(* What holds of every behaviour *)

LEMMA ProvisioningInitInv ==
    ASSUME ProvisioningInit
    PROVE  ProvisioningInv
<1>1. RouterInv
    BY RouterInit DEF ProvisioningInit
<1>2. \A c \in Callers : callers[c] = Away /\ requests[c] = NoRequest
    BY DEF ProvisioningInit, Init
<1>3. \A c \in Callers : Fits(requests[c], callers[c])
    BY <1>2 DEF Fits, NoRequest, Away
<1>4. ActiveMeansEstablished
    BY DEF ProvisioningInit, ActiveMeansEstablished
<1> QED BY <1>1, <1>3, <1>4 DEF ProvisioningInit, ProvisioningInv, NoRequest, RequestSteps

LEMMA ProvisioningStep ==
    ASSUME ProvisioningInv, [ProvisioningNext]_provisioningVars
    PROVE  ProvisioningInv'
<1>1. CASE UNCHANGED provisioningVars
    <2>1. UNCHANGED <<vars, states, requests>> /\ UNCHANGED vars /\ callers' = callers
        BY <1>1 DEF provisioningVars, vars
    <2>2. RouterInv' /\ ActiveMeansEstablished'
        BY <2>1, RouterStutters, ActiveStays DEF ProvisioningInv
    <2> QED BY <2>1, <2>2 DEF ProvisioningInv, Fits
<1> QED BY <1>1, RouterStepPreserves, RequestStepPreserves DEF ProvisioningNext

(* The inductive invariant of organizations and of the router: the chain of  *)
(* allocations, the map and the runtimes agree, and so do the leases and the *)
(* requests they belong to (tenant-runtime-router.ts:80-203,                 *)
(* browser-api.ts:1758-1772).                                                *)
THEOREM ProvisioningInvariant == ProvisioningSpec => []ProvisioningInv
BY ProvisioningInitInv, ProvisioningStep, PTL DEF ProvisioningSpec

(* An organization's runtimes follow one another, and no more of them than   *)
(* allowed are open, opening or closing: a runtime is opened only where the  *)
(* map has none, and one leaves the map only while its allocation still runs *)
(* or once it has failed (tenant-runtime-router.ts:119-159).                 *)
THEOREM RuntimesFollowOneAnother == ProvisioningSpec => []OwnersDoNotOverlap
<1>1. ProvisioningInv => OwnersDoNotOverlap
    BY DEF ProvisioningInv, RouterInv, MapInv, OwnersDoNotOverlap, Unfinishing
<1> QED BY <1>1, ProvisioningInvariant, PTL

(* Nobody's runtime is closed under a lease while the router is open: the    *)
(* references of a runtime in the map count those who hold it, wait for it   *)
(* or open it, and only one without any makes room                           *)
(* (tenant-runtime-router.ts:128).                                           *)
THEOREM LeasesKeepRuntimesOpen == ProvisioningSpec => []LeasedRuntimesStayOpen
<1>1. ASSUME ProvisioningInv PROVE LeasedRuntimesStayOpen
    <2>1. RouterType /\ LeaseInv
        BY <1>1 DEF ProvisioningInv, RouterInv
    <2>2. \A e \in Opened : runtimes[e].state \in RuntimeStates \ {"none"}
        BY <2>1 DEF RouterType, Runtime, Opened
    <2> QED BY <2>1, <2>2 DEF LeaseInv, LeasedRuntimesStayOpen, RuntimeStates
<1> QED BY <1>1, ProvisioningInvariant, PTL

(* A closed router has left no runtime behind: close() waits for its turn in *)
(* the chain, after which nobody joins it (tenant-runtime-router.ts:101).    *)
THEOREM ClosedRouterIsEmpty == ProvisioningSpec => []CloseLeavesNothingOpen
<1>1. ASSUME ProvisioningInv PROVE CloseLeavesNothingOpen
    <2>1. RouterType /\ (router = "closed" => Unfinishing = {})
        BY <1>1 DEF ProvisioningInv, RouterInv, MapInv
    <2>2. \A e \in Opened : runtimes[e].state \in RuntimeStates \ {"none"}
        BY <2>1 DEF RouterType, Runtime, Opened
    <2> QED BY <2>1, <2>2 DEF CloseLeavesNothingOpen, Unfinishing, Unfinished, RuntimeStates
<1> QED BY <1>1, ProvisioningInvariant, PTL

(* An organization that is active has had its runtime opened: whoever marks  *)
(* it holds a lease of it, granted after the opening had settled, and no     *)
(* runtime that has been opened is ever as if it had not been                *)
(* (tenant-runtime-router.ts:80-99, browser-api.ts:1758-1772).               *)
THEOREM ActiveIsEstablished == ProvisioningSpec => []ActiveMeansEstablished
<1>1. ProvisioningInv => ActiveMeansEstablished
    BY DEF ProvisioningInv
<1> QED BY <1>1, ProvisioningInvariant, PTL

(* A lease belongs to a request under way, and the references of a runtime   *)
(* in the map are exactly those of its users: no error path of a creation    *)
(* leaves one behind (tenant-runtime-router.ts:94-98,                        *)
(* browser-api.ts:1764-1772).                                                *)
THEOREM NoLeaseIsLeftBehind == ProvisioningSpec => []LeasesAreReturned
<1>1. ASSUME ProvisioningInv PROVE LeasesAreReturned
    BY <1>1 DEF ProvisioningInv, RouterInv, LeaseInv, LeasesAreReturned, Fits
<1> QED BY <1>1, ProvisioningInvariant, PTL

---------------------------------------------------------------------------
(* A caller that is queued is the one whose allocation runs, or in the chain.*)
QueuedAreServed ==
    \A c \in Callers :
        callers[c].status = "queued" =>
            \/ current.pc \in {"open", "evict"} /\ current.caller = c
            \/ \E i \in 1..Len(queue) : queue[i] = c

(* Whoever joins the chain leaves the others in it.                          *)
LEMMA ChainGrows ==
    ASSUME RouterType, QueuedAreServed, NEW x \in Callers \cup {TheRouter}, queue' = Append(queue, x),
           UNCHANGED current,
           \A d \in Callers \ {x} : callers'[d].status = callers[d].status
    PROVE  QueuedAreServed'
<1>1. /\ \A i \in 1..Len(queue) : i \in 1..Len(queue') /\ queue'[i] = queue[i]
      /\ Len(queue) + 1 \in 1..Len(queue') /\ queue'[Len(queue) + 1] = x
    BY DEF RouterType
<1> QED BY <1>1 DEF QueuedAreServed

(* The head leaves the chain: its allocation runs, or it is not queued any   *)
(* more.                                                                     *)
LEMMA ChainShrinks ==
    ASSUME RouterType, QueuedAreServed, queue # <<>>, current = Idle, queue' = Tail(queue),
           \A d \in Callers \ {Head(queue)} : callers'[d].status = callers[d].status,
           Head(queue) \in Callers /\ callers'[Head(queue)].status = "queued" =>
               current'.pc \in {"open", "evict"} /\ current'.caller = Head(queue)
    PROVE  QueuedAreServed'
<1> SUFFICES ASSUME NEW d \in Callers \ {Head(queue)}, callers[d].status = "queued"
             PROVE  \E i \in 1..Len(queue') : queue'[i] = d
    BY DEF QueuedAreServed
<1>1. PICK i \in 1..Len(queue) : queue[i] = d
    BY DEF QueuedAreServed, Idle
<1>2. /\ Len(queue) \in Nat \ {0} /\ Len(queue') = Len(queue) - 1 /\ Head(queue) = queue[1]
      /\ \A j \in 1..Len(queue') : queue'[j] = queue[j + 1]
    BY TailFacts
<1>3. i # 1
    BY <1>1, <1>2
<1>4. i - 1 \in 1..Len(queue') /\ (i - 1) + 1 = i
    BY <1>2, <1>3
<1> QED BY <1>1, <1>2, <1>4

(* The running allocation settles, or goes on for the same caller.           *)
LEMMA ChainStays ==
    ASSUME QueuedAreServed, UNCHANGED queue,
           \A d \in Callers : callers'[d].status = "queued" =>
               /\ callers[d].status = "queued"
               /\ current.pc \in {"open", "evict"} /\ current.caller = d =>
                      current'.pc \in {"open", "evict"} /\ current'.caller = d
    PROVE  QueuedAreServed'
BY DEF QueuedAreServed

LEMMA StatusSet ==
    ASSUME RouterType, NEW c \in Callers, NEW status, NEW o, NEW e, SetCaller(c, status, o, e)
    PROVE  callers'[c].status = status /\ \A d \in Callers \ {c} : callers'[d] = callers[d]
BY DEF SetCaller, RouterType

LEMMA StatusRefused ==
    ASSUME RouterType, NEW c \in Callers, Refuse(c)
    PROVE  callers'[c].status = "idle" /\ \A d \in Callers \ {c} : callers'[d] = callers[d]
BY DEF Refuse, RouterType, Away

LEMMA QueuedAcquire ==
    ASSUME RouterInv, QueuedAreServed, NEW c \in Callers, NEW o \in Organizations, Acquire(c, o)
    PROVE  QueuedAreServed'
<1>0. RouterType
    BY DEF RouterInv
<1>1. CASE resident[o] # 0
    <2>1. callers'[c].status = "waiting" /\ \A d \in Callers \ {c} : callers'[d] = callers[d]
        BY <1>0, <1>1, StatusSet DEF Acquire, Lease
    <2> QED BY <1>1, <2>1, ChainStays DEF Acquire
<1>2. CASE resident[o] = 0
    <2>1. \A d \in Callers \ {c} : callers'[d] = callers[d]
        BY <1>0, <1>2, StatusSet DEF Acquire
    <2> QED BY <1>0, <1>2, <2>1, ChainGrows DEF Acquire
<1> QED BY <1>1, <1>2

LEMMA QueuedAllocate ==
    ASSUME RouterInv, QueuedAreServed, Allocate
    PROVE  QueuedAreServed'
<1> DEFINE c == Head(queue)
           o == callers[c].organization
<1>0. /\ RouterType /\ current = Idle /\ queue # <<>> /\ c # TheRouter /\ c \in Callers /\ queue' = Tail(queue)
    BY ChainFacts DEF RouterInv, Allocate
<1>1. CASE Refused(c)
    <2>1. callers'[c].status = "idle" /\ \A d \in Callers \ {c} : callers'[d] = callers[d]
        BY <1>0, <1>1, StatusRefused DEF Refused
    <2> QED BY <1>0, <2>1, ChainShrinks
<1>2. CASE Lease(c, o, resident[o])
    <2>1. callers'[c].status = "waiting" /\ \A d \in Callers \ {c} : callers'[d] = callers[d]
        BY <1>0, <1>2, StatusSet DEF Lease
    <2> QED BY <1>0, <2>1, ChainShrinks
<1>3. CASE /\ UNCHANGED callers /\ current'.pc \in {"open", "evict"} /\ current'.caller = c
    BY <1>0, <1>3, ChainShrinks
<1> QED BY <1>1, <1>2, <1>3 DEF Allocate, MakeRoom, Open

LEMMA QueuedSettled ==
    ASSUME RouterInv, QueuedAreServed, Evicted \/ OpenSettles \/ AllClosed
    PROVE  QueuedAreServed'
<1>0. RouterType /\ UNCHANGED queue
    BY DEF RouterInv, Evicted, OpenSettles, AllClosed
<1>1. CASE Evicted \/ OpenSettles
    <2> DEFINE c == current.caller
    <2>1. current.pc \in {"open", "evict"} /\ c \in Callers
        BY <1>0, <1>1, CurrentFacts DEF Evicted, OpenSettles
    <2>2. \/ UNCHANGED callers /\ current'.pc = "open" /\ current'.caller = c
          \/ \E o, e : SetCaller(c, "holding", o, e)
          \/ Refuse(c)
        BY <1>1 DEF Evicted, OpenSettles, Open
    <2>3. CASE UNCHANGED callers /\ current'.pc = "open" /\ current'.caller = c
        BY <1>0, <2>3, ChainStays
    <2>4. CASE (\E o, e : SetCaller(c, "holding", o, e)) \/ Refuse(c)
        <3>1. callers'[c].status # "queued" /\ \A d \in Callers \ {c} : callers'[d] = callers[d]
            BY <1>0, <2>1, <2>4, StatusSet, StatusRefused
        <3> QED BY <1>0, <3>1, ChainStays
    <2> QED BY <2>2, <2>3, <2>4
<1>2. CASE AllClosed
    BY <1>0, <1>2, ChainStays DEF AllClosed
<1> QED BY <1>1, <1>2

LEMMA QueuedStep == ProvisioningInv /\ QueuedAreServed /\ [ProvisioningNext]_provisioningVars => QueuedAreServed'
<1> SUFFICES ASSUME ProvisioningInv, QueuedAreServed, [ProvisioningNext]_provisioningVars
             PROVE  QueuedAreServed'
    OBVIOUS
<1>0. RouterInv /\ RouterType
    BY DEF ProvisioningInv, RouterInv
<1>1. CASE UNCHANGED vars
    BY <1>1 DEF vars, QueuedAreServed
<1>2. ASSUME NEW c \in Callers, \E o \in Organizations : Acquire(c, o) PROVE QueuedAreServed'
    BY <1>0, <1>2, QueuedAcquire
<1>3. ASSUME NEW c \in Callers, Release(c) PROVE QueuedAreServed'
    <2>1. callers'[c].status = "idle" /\ \A d \in Callers \ {c} : callers'[d] = callers[d]
        BY <1>0, <1>3, ReleaseMoves DEF Away
    <2> QED BY <1>3, <2>1, ChainStays DEF Release
<1>4. CASE Step
    <2>1. CASE CloseAll
        <3>1. current = Idle /\ queue # <<>> /\ queue' = Tail(queue) /\ Head(queue) \notin Callers /\ UNCHANGED callers
            BY <2>1, RouterAssumption DEF CloseAll
        <3> QED BY <1>0, <3>1, ChainShrinks
    <2> QED BY <1>0, <1>4, <2>1, QueuedAllocate, QueuedSettled DEF Step
<1>5. CASE Close
    BY <1>0, <1>5, ChainGrows DEF Close
<1>6. ASSUME NEW c \in Callers, Granted(c) PROVE QueuedAreServed'
    <2>1. callers'[c].status # "queued" /\ \A d \in Callers \ {c} : callers'[d] = callers[d]
        BY <1>0, <1>6, StatusSet, StatusRefused DEF Granted
    <2> QED BY <1>6, <2>1, ChainStays DEF Granted
<1>7. ASSUME NEW e \in 1..MaxOpens, Abort(e) PROVE QueuedAreServed'
    BY <1>7, ChainStays DEF Abort
<1>8. ASSUME NEW c \in Callers,
             RequestStep(c) \/ Leave(c) \/ \E o \in Organizations : Count(c, o) \/ Enter(c, o)
      PROVE  QueuedAreServed'
    <2>1. requests[c].pc # "idle" => requests[c].organization \in Organizations
        BY DEF ProvisioningInv, Fits
    <2>2. \/ UNCHANGED vars \/ Release(c) \/ \E o \in Organizations : Acquire(c, o)
        BY <1>8, <2>1 DEF RequestStep, Insert, Provision, Acquired, NotAcquired, Mark, Fail, ReadBack, Visit,
                          Leave, Count, Enter
    <2> QED BY <1>1, <1>2, <1>3, <2>2
<1> QED BY <1>1, <1>4, <1>5, <1>6, <1>7, <1>8 DEF ProvisioningNext, RouterStep, provisioningVars

(* What a request that waits for a runtime waits for: its turn in the chain, *)
(* the allocation made for it, an opening under way, or nothing any more.    *)
NobodyWaitsInVain ==
    \A c \in Callers : requests[c].pc \in {"acquiring", "visiting"} =>
        CASE callers[c].status = "queued"  -> \/ current.pc \in {"open", "evict"} /\ current.caller = c
                                              \/ \E i \in 1..Len(queue) : queue[i] = c
          [] callers[c].status = "waiting" -> runtimes[callers[c].runtime].state = "opening" =>
                                                  current.pc = "open" /\ current.runtime = callers[c].runtime
          [] OTHER                         -> callers[c].status \in {"idle", "holding"}

(* Nobody waits for what will not come: evictions and openings that fail,    *)
(* leases taken of a runtime still opening and the router's close leave each *)
(* request in the chain, served by it, or waiting for an opening that the    *)
(* chain is at (tenant-runtime-router.ts:80-159).                            *)
THEOREM WaitingIsAnswerable == ProvisioningSpec => []NobodyWaitsInVain
<1>1. ProvisioningInit => QueuedAreServed
    BY DEF ProvisioningInit, Init, Away, QueuedAreServed
<1>2. ASSUME ProvisioningInv, QueuedAreServed PROVE NobodyWaitsInVain
    <2>1. /\ RouterType /\ LeaseInv /\ MapInv
        BY <1>2 DEF ProvisioningInv, RouterInv
    <2>2. SUFFICES ASSUME NEW c \in Callers
                   PROVE  /\ callers[c].status \in {"idle", "queued", "waiting", "holding"}
                          /\ callers[c].status = "queued" =>
                                 \/ current.pc \in {"open", "evict"} /\ current.caller = c
                                 \/ \E i \in 1..Len(queue) : queue[i] = c
                          /\ callers[c].status = "waiting" /\ runtimes[callers[c].runtime].state = "opening" =>
                                 current.pc = "open" /\ current.runtime = callers[c].runtime
        BY DEF NobodyWaitsInVain
    <2>3. callers[c].status \in {"idle", "queued", "waiting", "holding"}
        BY <2>1 DEF RouterType, Caller
    <2>4. callers[c].status = "waiting" => callers[c].runtime \in Opened
        BY <2>1 DEF LeaseInv
    <2> QED BY <1>2, <2>1, <2>3, <2>4 DEF MapInv, QueuedAreServed
<1> QED BY <1>1, <1>2, QueuedStep, ProvisioningInvariant, PTL DEF ProvisioningSpec
=============================================================================
