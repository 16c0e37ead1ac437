----------------------------- MODULE Provisioning -----------------------------
(***************************************************************************)
(* How an organization comes into being and is entered: createOrganization *)
(* of browser-api.ts over PostgresRegistryTenancy (tenancy-postgres.ts)    *)
(* and the tenant runtime router, all in packages/bundle/registry-app/src. *)
(*                                                                         *)
(* The organization is written as "provisioning" in the control plane, its *)
(* runtime is opened for the first time, and only then is it marked        *)
(* "active"; an error on the way marks it "failed", to be provisioned      *)
(* again by the same request.  Requests repeat and overlap, a transaction  *)
(* may have committed when it is reported as failed, and the router closes *)
(* the control plane with the runtimes.                                    *)
(*                                                                         *)
(* One account creates organizations, each named for the idempotency key   *)
(* of its creation; a creation under a used key with another display name  *)
(* is refused and not a step.                                              *)
(***************************************************************************)
EXTENDS TenantRouter

CONSTANT MaxOrganizations   \* maxOrganizationsPerAccount

ASSUME ProvisioningAssumption == MaxOrganizations \in Nat \ {0}

VARIABLES
    states,     \* organizations: [Organizations -> "none", "provisioning", "active", "failed"]
    requests    \* [Callers -> [pc, organization]]: what a browser request is at

provisioningVars == <<vars, states, requests>>

NoRequest == [pc |-> "idle", organization |-> "none"]
Created == {o \in Organizations : states[o] # "none"}

Goes(c, pc) == requests' = [requests EXCEPT ![c].pc = pc]
Done(c) == requests' = [requests EXCEPT ![c] = NoRequest]

(* Closing the router closes the tenancy's pool with the runtimes. *)
TenancyOpen == router # "closed" /\ current.pc # "close"

(* A reported failure leaves it open whether the transaction committed. *)
MayCommit(o, state) ==
    states' \in {states} \cup (IF TenancyOpen THEN {[states EXCEPT ![o] = state]} ELSE {})

---------------------------------------------------------------------------
(* createOrganization: under the lock of its key, it answers with what the *)
(* key stands for, or counts the creations of the account and inserts.     *)
Count(c, o) ==
    /\ requests[c] = NoRequest /\ callers[c] = Away /\ TenancyOpen
    /\ \A other \in Callers : requests[other] # [pc |-> "counted", organization |-> o]
    /\ states[o] = "none" => Cardinality(Created) < MaxOrganizations
    /\ requests' = [requests EXCEPT ![c] =
           [organization |-> o,
            pc |-> CASE states[o] = "none"   -> "counted"
                     [] states[o] = "active" -> "reading"
                     [] OTHER                -> "provision"]]
    /\ UNCHANGED <<vars, states>>

Insert(c) ==
    LET o == requests[c].organization IN
    /\ requests[c].pc = "counted"
    /\ \/ TenancyOpen /\ states' = [states EXCEPT ![o] = "provisioning"] /\ Goes(c, "provision")
       \/ MayCommit(o, "provisioning") /\ Done(c)
    /\ UNCHANGED vars

(* Refused when the router is closing; or at the bound on openings. *)
Acquirable(o) == router = "open" /\ (resident[o] # 0 \/ WillHaveOpened < MaxOpens)

(* provision(): the first opening names the bootstrap owner. *)
Provision(c) ==
    /\ requests[c].pc = "provision"
    /\ \/ Acquire(c, requests[c].organization) /\ Goes(c, "acquiring")
       \/ ~Acquirable(requests[c].organization) /\ Goes(c, "failing") /\ UNCHANGED vars
    /\ UNCHANGED states

(* Mutant: the opening is not awaited. *)
AcquiredEarly(c) ==
    /\ requests[c].pc = "acquiring" /\ callers[c].status # "idle"
    /\ Goes(c, "marking") /\ UNCHANGED <<vars, states>>

Acquired(c) ==
    /\ requests[c].pc = "acquiring" /\ callers[c].status = "holding"
    /\ Goes(c, "marking") /\ UNCHANGED <<vars, states>>

NotAcquired(c) ==
    /\ requests[c].pc = "acquiring" /\ callers[c].status = "idle"
    /\ Goes(c, "failing") /\ UNCHANGED <<vars, states>>

(* Mutant: the lease is kept when the marking fails. *)
MarkKeepingLease(c) ==
    LET o == requests[c].organization IN
    /\ requests[c].pc = "marking"
    /\ \/ TenancyOpen /\ states' = [states EXCEPT ![o] = "active"] /\ Goes(c, "reading")
       \/ MayCommit(o, "active") /\ Goes(c, "failing")
    /\ UNCHANGED vars

Mark(c) ==
    LET o == requests[c].organization IN
    /\ requests[c].pc = "marking"
    /\ \/ /\ TenancyOpen /\ states' = [states EXCEPT ![o] = "active"]
          /\ Goes(c, "reading") /\ UNCHANGED vars
       \/ MayCommit(o, "active") /\ Goes(c, "failing") /\ Release(c)

Fail(c) ==
    /\ requests[c].pc = "failing"
    /\ MayCommit(requests[c].organization, "failed")
    /\ Done(c) /\ UNCHANGED vars

(* The organization is read again, and the lease given back in any case. *)
ReadBack(c) ==
    /\ requests[c].pc = "reading" /\ Done(c)
    /\ IF callers[c].status = "holding" THEN Release(c) ELSE UNCHANGED vars
    /\ UNCHANGED states

---------------------------------------------------------------------------
(* runtimeForAccount and acquireRuntime: the state is read first. *)
Enter(c, o) ==
    /\ requests[c] = NoRequest /\ callers[c] = Away /\ TenancyOpen /\ states[o] = "active"
    /\ requests' = [requests EXCEPT ![c] = [pc |-> "entering", organization |-> o]]
    /\ UNCHANGED <<vars, states>>

Visit(c) ==
    /\ requests[c].pc = "entering"
    /\ \/ Acquire(c, requests[c].organization) /\ Goes(c, "visiting")
       \/ ~Acquirable(requests[c].organization) /\ Done(c) /\ UNCHANGED vars
    /\ UNCHANGED states

Leave(c) ==
    /\ requests[c].pc = "visiting"
    /\ \/ callers[c].status = "holding" /\ Release(c)
       \/ callers[c].status = "idle" /\ UNCHANGED vars
    /\ Done(c) /\ UNCHANGED states

---------------------------------------------------------------------------
ProvisioningInit ==
    /\ Init
    /\ states = [o \in Organizations |-> "none"]
    /\ requests = [c \in Callers |-> NoRequest]

RequestStep(c) ==
    \/ Insert(c) \/ Provision(c) \/ Acquired(c) \/ NotAcquired(c) \/ Mark(c) \/ Fail(c)
    \/ ReadBack(c) \/ Visit(c)

RouterStep ==
    /\ Step \/ Close \/ (\E c \in Callers : Granted(c)) \/ (\E e \in 1..MaxOpens : Abort(e))
    /\ UNCHANGED <<states, requests>>

ProvisioningNext ==
    \/ RouterStep
    \/ \E c \in Callers : RequestStep(c) \/ Leave(c) \/ \E o \in Organizations : Count(c, o) \/ Enter(c, o)

(* The requests go on, as the router does; nobody has to leave. *)
ProvisioningSpec ==
    /\ ProvisioningInit /\ [][ProvisioningNext]_provisioningVars
    /\ WF_provisioningVars(Step /\ UNCHANGED <<states, requests>>)
    /\ \A c \in Callers : /\ WF_provisioningVars(Granted(c) /\ UNCHANGED <<states, requests>>)
                          /\ WF_provisioningVars(RequestStep(c))
=============================================================================
