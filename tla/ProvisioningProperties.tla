------------------------ MODULE ProvisioningProperties ------------------------
(***************************************************************************)
(* What must hold of organizations that are created, opened and entered.   *)
(***************************************************************************)
EXTENDS Provisioning

(* While requests create and enter organizations, an organization's runtime *)
(* is never opened beside an earlier one of the same organization that is   *)
(* open, being opened or being closed, and no more runtimes than allowed    *)
(* are (tenant-runtime-router.ts:119-159).                                  *)
OwnersDoNotOverlap ==
    LET unfinished == {e \in Opened : runtimes[e].state \in Unfinished} IN
    /\ \A e, other \in unfinished :
           runtimes[e].organization = runtimes[other].organization => e = other
    /\ Cardinality(unfinished) <= MaxActive

(* While the router is open, nobody's runtime is closed under a lease, held *)
(* already or still waiting for the opening to settle, the one a creation   *)
(* waits for included (tenant-runtime-router.ts:128).                       *)
LeasedRuntimesStayOpen ==
    router = "open" =>
        \A c \in Callers :
            /\ callers[c].status = "holding" => runtimes[callers[c].runtime].state \in {"open", "aborted"}
            /\ callers[c].status = "waiting" =>
                   runtimes[callers[c].runtime].state \in {"opening", "open", "aborted", "failed"}

(* close() leaves no runtime behind, not the one that is being opened for a *)
(* creation, or evicted for one, either (tenant-runtime-router.ts:101).     *)
CloseLeavesNothingOpen ==
    router = "closed" => \A e \in Opened : runtimes[e].state \in {"closed", "failed", "stuck"}

(* An active organization's runtime has been opened, and so its directory   *)
(* has its first owner: whichever of several overlapping creations marked   *)
(* it, and whatever they reported.  Entering an organization passes no      *)
(* bootstrap owner (tenant-runtime-router.ts:66-92).                        *)
ActiveMeansEstablished ==
    \A o \in Organizations : states[o] = "active" =>
        \E e \in Opened : /\ runtimes[e].organization = o
                          /\ runtimes[e].state \notin {"opening", "failed"}

Users(e) ==
    {c \in Callers : \/ callers[c].runtime = e
                     \/ current.pc = "open" /\ current.runtime = e /\ current.caller = c}

(* A lease belongs to a request that is under way: no way a creation can    *)
(* fail leaves one behind, which would keep the runtime from ever making    *)
(* room (tenant-runtime-router.ts:94-98, browser-api.ts:1764-1772).         *)
LeasesAreReturned ==
    /\ \A c \in Callers : callers[c].status # "idle" => requests[c].pc # "idle"
    /\ \A e \in Residents : runtimes[e].references = Cardinality(Users(e))

(* Every creation is answered, behind failed openings and evictions, lost   *)
(* transactions, a full router and its close.                               *)
CreationsSettle ==
    \A c \in Callers :
        requests[c].pc \notin {"idle", "entering", "visiting"}
            ~> requests[c].pc \in {"idle", "entering", "visiting"}

(* maxOrganizationsPerAccount is a "hard per-account creation bound"        *)
(* (tenancy-postgres.ts:123).                                               *)
CreationBound == Cardinality(Created) <= MaxOrganizations
=============================================================================
