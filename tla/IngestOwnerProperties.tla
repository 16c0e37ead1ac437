----------------------- MODULE IngestOwnerProperties -----------------------
(***************************************************************************)
(* What makes the serialized owner correct, over IngestOwner.              *)
(***************************************************************************)
EXTENDS IngestOwner, FiniteSetsExt

RowType == [version : 0..MaxVersion, state : {"live", "retired", "erased"}]
EntryType ==
    [kind : {"read", "change", "directory", "sweep", "malformed"},
     outcome : {"unfinished", "observed", "unchanged", "committed", "rejected"}, versions : Nat]
StoreType ==
    [rows : [Disclosures -> RowType],
     directory : [revision : 0..MaxVersion, active : SUBSET Members],
     journal : Seq(EntryType)]

(* The store, the chain and the calls have the shapes the code gives them.   *)
TypeOK ==
    /\ disk \in StoreType /\ memory \in StoreType
    /\ cache \subseteq Members
    /\ queue \in Seq(Callers)
    /\ current.pc \in {"idle", "attempt", "decide", "write", "publish"}
    /\ current # Idle => current.caller \in Callers
    /\ calls \in [Callers -> [status : {"idle", "waiting", "ok", "rejected", "unknown", "lost"},
                              op : OperationType \cup {[kind |-> "none"]}]]
    /\ phase \in {"open", "closing", "closed", "down"}
    /\ unavailable \in BOOLEAN
    /\ heard \in [Disclosures -> 0..MaxVersion]

Serving == phase \in {"open", "closing"} /\ ~unavailable

(* No operation is ever decided on stale tables: while the owner serves,     *)
(* what it reads is what the backend holds, whatever writes were rejected    *)
(* after having committed and whatever was in flight at a crash.             *)
ServesDurableState == Serving => memory = disk

(* The journal accounts for every authorization version ever taken: none     *)
(* exists on disk without the completed entry of the operation that took it, *)
(* no entry claims a version that did not land, and what was interrupted or  *)
(* refused never outgrows the capacity with which the store is opened again. *)
JournalAccountsForVersions ==
    Journaled =>
        /\ MapThenSumSet(LAMBDA d : disk.rows[d].version, Disclosures)
             = MapThenSumSet(LAMBDA i : disk.journal[i].versions, 1..Len(disk.journal))
        /\ Len(disk.journal) <= MaxOperations

(* A subscriber is never told of a version before it is durable, and knows   *)
(* every version in force before the next operation of a serving owner runs. *)
ListenersKeepUp ==
    /\ phase # "down" => \A d \in Disclosures : heard[d] <= disk.rows[d].version
    /\ Serving /\ current.pc \in {"idle", "attempt", "decide"} => heard = Versions(disk)

---------------------------------------------------------------------------
Answered(c, status) == calls[c].status = "waiting" /\ calls'[c].status = status

(* A device credential is accepted only while its member is active in the    *)
(* durable directory, although the check reads a cached copy of it.          *)
CredentialsFollowDirectory ==
    [][\A c \in Callers :
          Answered(c, "ok") /\ calls[c].op.kind = "credential"
              => calls[c].op.member \in disk.directory.active]_vars

(* The owner implements AtomicOwner: a call is done from the moment its      *)
(* batch has landed until it is answered.                                    *)
CallStatus(c) ==
    IF current.pc = "publish" /\ current.outcome = "committed" /\ current.caller = c
    THEN [calls[c] EXCEPT !.status = "done"] ELSE calls[c]

Atomic == INSTANCE AtomicOwner WITH
    rows <- disk.rows,
    directory <- disk.directory,
    calls <- [c \in Callers |-> CallStatus(c)]

(* Every call takes effect at most once, at one instant, and its answer      *)
(* tells whether it did.                                                     *)
ImplementsAtomicOwner == Atomic!Spec

(* Every admitted call is answered, behind failed writes and a close too,    *)
(* unless the process dies first, and close() drains and releases the        *)
(* domain, whatever was queued or failed.                                    *)
EveryCallSettles ==
    /\ \A c \in Callers : calls[c].status = "waiting" ~> calls[c].status # "waiting"
    /\ phase = "closing" ~> phase \in {"closed", "down"}
=============================================================================
