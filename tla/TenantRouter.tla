----------------------------- MODULE TenantRouter -----------------------------
(***************************************************************************)
(* How organizations share a bounded number of resident runtimes:          *)
(* DefaultRegistryTenantRuntimeRouter of                                   *)
(* packages/bundle/registry-app/src/tenant-runtime-router.ts.              *)
(*                                                                         *)
(* A resident runtime is leased at once.  Any other is opened by a chain   *)
(* of allocations, one at a time, which may first have to close the idle   *)
(* runtime used least recently.  Opening and closing a runtime is awaited; *)
(* leases are taken and released, and runtimes fail, in between.           *)
(***************************************************************************)
EXTENDS Integers, SequencesExt

CONSTANTS Callers, Organizations,
          MaxActive,    \* maxActiveOrganizations
          MaxOpens      \* bounds the runtimes ever opened

TheRouter == "router"   \* stands for close() in the allocation chain

ASSUME RouterAssumption ==
    /\ MaxActive \in Nat \ {0} /\ MaxOpens \in Nat
    /\ IsFiniteSet(Callers) /\ TheRouter \notin Callers

VARIABLES
    runtimes,   \* [1..MaxOpens -> [organization, references, state]]: every runtime ever
                \* opened, in that order; "stuck" is one whose closing failed
    resident,   \* [Organizations -> its runtime in the map, 0 for none]
    recency,    \* runtimes by lastUsed, the most recent last
    queue,      \* the allocation chain: callers, and the router's own close
    current,    \* the allocation that runs
    callers,    \* [Callers -> [status, organization, runtime]]
    router      \* "open", "closing", "closed"

vars == <<runtimes, resident, recency, queue, current, callers, router>>

Unfinished == {"opening", "open", "aborted", "closing"}
Idle == [pc |-> "idle"]
Away == [status |-> "idle", organization |-> "none", runtime |-> 0]

Opened == {e \in 1..MaxOpens : runtimes[e].state # "none"}
Residents == {resident[o] : o \in Organizations} \ {0}
Touched(e) == Append(SelectSeq(recency, LAMBDA other : other # e), e)

SetCaller(c, status, o, e) ==
    callers' = [callers EXCEPT ![c] = [status |-> status, organization |-> o, runtime |-> e]]
Refuse(c) == callers' = [callers EXCEPT ![c] = Away]

(* lease(): counted in the same turn, granted once the opening has settled. *)
Lease(c, o, e) ==
    /\ runtimes' = [runtimes EXCEPT ![e].references = @ + 1]
    /\ recency' = Touched(e)
    /\ SetCaller(c, "waiting", o, e)

(* Every allocation in the chain may open one more runtime. *)
WillHaveOpened == Cardinality(Opened) + Len(queue) + (IF current.pc = "evict" THEN 1 ELSE 0)

---------------------------------------------------------------------------
Acquire(c, o) ==
    /\ callers[c].status = "idle" /\ router = "open"
    /\ IF resident[o] # 0
       THEN Lease(c, o, resident[o]) /\ UNCHANGED queue
       ELSE /\ WillHaveOpened < MaxOpens
            /\ SetCaller(c, "queued", o, 0)
            /\ queue' = Append(queue, c)
            /\ UNCHANGED <<runtimes, recency>>
    /\ UNCHANGED <<resident, current, router>>

(* The opening settles for one who did not start it: a failed one gives the *)
(* reference back.                                                          *)
Granted(c) ==
    LET e == callers[c].runtime IN
    /\ callers[c].status = "waiting" /\ runtimes[e].state # "opening"
    /\ IF runtimes[e].state = "failed"
       THEN /\ runtimes' = [runtimes EXCEPT ![e].references = @ - 1]
            /\ recency' = Touched(e) /\ Refuse(c)
       ELSE SetCaller(c, "holding", callers[c].organization, e) /\ UNCHANGED <<runtimes, recency>>
    /\ UNCHANGED <<resident, queue, current, router>>

(* Returning a lease counts as a use. *)
Release(c) ==
    LET e == callers[c].runtime IN
    /\ callers[c].status = "holding"
    /\ runtimes' = [runtimes EXCEPT ![e].references = @ - 1]
    /\ recency' = Touched(e)
    /\ Refuse(c)
    /\ UNCHANGED <<resident, queue, current, router>>

(* A runtime that loses its store or a listener stops itself; it stays where *)
(* it is.                                                                    *)
Abort(e) ==
    /\ runtimes[e].state = "open"
    /\ runtimes' = [runtimes EXCEPT ![e].state = "aborted"]
    /\ UNCHANGED <<resident, recency, queue, current, callers, router>>

---------------------------------------------------------------------------
(* Mutant: any runtime may make room. *)
EvictableHeld == Residents

Evictable == {e \in Residents : runtimes[e].references = 0}

(* The map entry is set before the opening is awaited. *)
Open(c, o, others, map) ==
    LET e == Cardinality(Opened) + 1 IN
    /\ runtimes' = [others EXCEPT ![e] = [organization |-> o, references |-> 1, state |-> "opening"]]
    /\ resident' = [map EXCEPT ![o] = e]
    /\ recency' = Append(recency, e)
    /\ current' = [pc |-> "open", caller |-> c, runtime |-> e]
    /\ UNCHANGED callers

(* Mutant: a rejected allocation is not caught, and breaks the chain. *)
RefusedBreaking(c) ==
    Refuse(c) /\ current' = [pc |-> "broken"] /\ UNCHANGED <<runtimes, resident, recency>>

Refused(c) == Refuse(c) /\ current' = Idle /\ UNCHANGED <<runtimes, resident, recency>>

(* The idle runtime used least recently is closed, and leaves the map first. *)
MakeRoom(c) ==
    \/ Evictable = {} /\ Refused(c)
    \/ \E k \in DOMAIN recency :
           LET victim == recency[k] IN
           /\ victim \in Evictable /\ \A j \in 1..k - 1 : recency[j] \notin Evictable
           /\ resident' = [resident EXCEPT ![runtimes[victim].organization] = 0]
           /\ runtimes' = [runtimes EXCEPT ![victim].state = "closing"]
           /\ current' = [pc |-> "evict", caller |-> c, runtime |-> victim]
           /\ UNCHANGED <<recency, callers>>

(* The next allocation looks at the map anew: an earlier one may have opened *)
(* the same organization.                                                    *)
Allocate ==
    LET c == Head(queue)
        o == callers[c].organization
    IN
    /\ current = Idle /\ queue # <<>> /\ c # TheRouter
    /\ queue' = Tail(queue)
    /\ \/ router # "open" /\ Refused(c)
       \/ /\ router = "open" /\ resident[o] # 0
          /\ Lease(c, o, resident[o]) /\ UNCHANGED <<resident, current>>
       \/ /\ router = "open" /\ resident[o] = 0
          /\ IF Cardinality(Residents) >= MaxActive THEN MakeRoom(c)
             ELSE Open(c, o, runtimes, resident)
    /\ UNCHANGED router

(* Mutant: the closing of the evicted runtime is not awaited. *)
EvictedClosesEarly ==
    /\ current.pc = "evict"
    /\ Open(current.caller, callers[current.caller].organization, runtimes, resident)
    /\ UNCHANGED <<queue, router>>

(* The evicted runtime has closed, or could not: then its domain keeps the   *)
(* name, and whoever asked is told.                                          *)
Evicted ==
    /\ current.pc = "evict"
    /\ \/ Open(current.caller, callers[current.caller].organization,
               [runtimes EXCEPT ![current.runtime].state = "closed"], resident)
       \/ /\ runtimes' = [runtimes EXCEPT ![current.runtime].state = "stuck"]
          /\ Refuse(current.caller) /\ current' = Idle
          /\ UNCHANGED <<resident, recency>>
    /\ UNCHANGED <<queue, router>>

(* The domain facility refuses a name that is in use. *)
NameFree(e) ==
    \A other \in Opened \ {e} :
        runtimes[other].organization = runtimes[e].organization
            => runtimes[other].state \in {"closed", "failed"}

OpenSettles ==
    LET e == current.runtime
        o == runtimes[e].organization
    IN
    /\ current.pc = "open"
    /\ \/ /\ NameFree(e)
          /\ runtimes' = [runtimes EXCEPT ![e].state = "open"]
          /\ SetCaller(current.caller, "holding", o, e)
          /\ UNCHANGED resident
       \/ /\ runtimes' = [runtimes EXCEPT ![e].state = "failed"]
          /\ resident' = [resident EXCEPT ![o] = IF @ = e THEN 0 ELSE @]
          /\ Refuse(current.caller)
    /\ current' = Idle
    /\ UNCHANGED <<recency, queue, router>>

---------------------------------------------------------------------------
(* Mutant: close() does not wait for its turn in the chain. *)
CloseAtOnce ==
    /\ router = "open"
    /\ router' = "closed"
    /\ runtimes' = [e \in 1..MaxOpens |->
                       IF e \in Residents THEN [runtimes[e] EXCEPT !.state = "closed"] ELSE runtimes[e]]
    /\ resident' = [o \in Organizations |-> 0]
    /\ UNCHANGED <<queue, recency, current, callers>>

Close ==
    /\ router = "open"
    /\ router' = "closing" /\ queue' = Append(queue, TheRouter)
    /\ UNCHANGED <<runtimes, resident, recency, current, callers>>

(* Every runtime in the map is closed, leased or not. *)
CloseAll ==
    /\ current = Idle /\ queue # <<>> /\ Head(queue) = TheRouter
    /\ queue' = Tail(queue)
    /\ runtimes' = [e \in 1..MaxOpens |->
                       IF e \in Residents THEN [runtimes[e] EXCEPT !.state = "closing"] ELSE runtimes[e]]
    /\ resident' = [o \in Organizations |-> 0]
    /\ current' = [pc |-> "close"]
    /\ UNCHANGED <<recency, callers, router>>

AllClosed ==
    LET closing == {e \in Opened : runtimes[e].state = "closing"} IN
    /\ current.pc = "close"
    /\ \E stuck \in SUBSET closing :
           runtimes' = [e \in 1..MaxOpens |->
                           IF e \in stuck THEN [runtimes[e] EXCEPT !.state = "stuck"]
                           ELSE IF e \in closing THEN [runtimes[e] EXCEPT !.state = "closed"]
                           ELSE runtimes[e]]
    /\ router' = "closed" /\ current' = Idle
    /\ UNCHANGED <<resident, recency, queue, callers>>

---------------------------------------------------------------------------
Init ==
    /\ runtimes = [e \in 1..MaxOpens |-> [organization |-> "none", references |-> 0, state |-> "none"]]
    /\ resident = [o \in Organizations |-> 0]
    /\ recency = <<>> /\ queue = <<>> /\ current = Idle
    /\ callers = [c \in Callers |-> Away]
    /\ router = "open"

Step == Allocate \/ Evicted \/ OpenSettles \/ CloseAll \/ AllClosed

Next ==
    \/ Step \/ Close
    \/ \E c \in Callers : Granted(c) \/ Release(c) \/ (\E o \in Organizations : Acquire(c, o))
    \/ \E e \in 1..MaxOpens : Abort(e)

(* The chain runs, and the opening and closing of a runtime settle.  Nobody  *)
(* has to release a lease.                                                   *)
Spec == Init /\ [][Next]_vars /\ WF_vars(Step) /\ \A c \in Callers : WF_vars(Granted(c))
=============================================================================
