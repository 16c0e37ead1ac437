------------------------ MODULE ImportQueueProperties ------------------------
(***************************************************************************)
(* What must hold of queued imports.                                       *)
(***************************************************************************)
EXTENDS ImportQueue

(* An import that was accepted is never lost or changed into another one,   *)
(* and it settles once: neither a second delivery after a timeout, nor a    *)
(* device that fetches twice at the same time, nor a retry of the request,  *)
(* nor a restart takes a settled import back (saas-import-queue.ts:423).    *)
ImportsSettleOnce ==
    [][\A o \in Kept :
          /\ disk'[o].target = disk[o].target /\ disk'[o].version = disk[o].version
          /\ disk[o].status # "queued" => disk'[o] = disk[o]]_vars

(* A completed import has arrived: a device that never answered, answered   *)
(* too late or asked to be retried leaves the import queued.                *)
CompletedImportsArrived ==
    \A o \in Imports : disk[o].status = "completed" => device[o] = "imported"

(* A refresh is confirmed, and an import completed, only while the member   *)
(* may still import and the device may still receive exactly what was read  *)
(* before the keys were granted: not when access was lost, or lost and      *)
(* given back, while the device was at work (saas-import-queue.ts:426).     *)
TakenAsAuthorized ==
    [][\A c \in Calls :
          LET o == calls[c].import IN
          /\ calls[c].pc # "released" /\ calls'[c].pc = "released"
          /\ calls[c].kind = "dispatch" => disk[o].status = "queued" /\ disk'[o].status = "completed"
          => /\ access.allowed /\ receives[calls[c].target]
             /\ disk[o].version <= calls[c].version /\ calls[c].version = access.version]_vars

(* Every call to the queue comes to an end: a device that does not answer   *)
(* holds up the whole organization only for the delivery's time             *)
(* (saas-import-queue.ts:548).                                              *)
CallsSettle ==
    \A c \in Calls : calls[c].pc # "idle" ~> calls[c].pc = "idle"
=============================================================================
