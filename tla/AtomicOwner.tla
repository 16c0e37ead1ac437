----------------------------- MODULE AtomicOwner -----------------------------
(***************************************************************************)
(* What callers of the registry owner may rely on, whatever fails: every   *)
(* call takes effect at most once, at one instant between its submission   *)
(* and its answer.  A call answered "ok" took effect, a call answered      *)
(* "rejected" did not, and one whose answer is "unknown" (the store's      *)
(* outcome was ambiguous) or that was "lost" in a crash may have.  Only a  *)
(* maintenance sweep takes effect several times, once per row it erases,   *)
(* and may still be rejected after the first of them, when the journal is  *)
(* full or the next row cannot take two more versions.                     *)
(***************************************************************************)
EXTENDS Integers, FiniteSets

CONSTANTS Callers, Disclosures, Members, Admin, Operations

VARIABLES
    rows,       \* [Disclosures -> [version, state]]
    directory,  \* [revision, active]
    calls       \* [Callers -> [status, op]]

atomicVars == <<rows, directory, calls>>

Status(c) == calls[c].status
Becomes(c, status) ==
    calls' = [calls EXCEPT ![c] =
                 [status |-> status,
                  op |-> IF status \in {"waiting", "done"} THEN calls[c].op ELSE [kind |-> "none"]]]

(* What each operation does to the store, in one instant. *)
ChangeRow(op) ==
    /\ op.kind = "change"
    /\ op.member \in directory.active
    /\ rows[op.row].version = op.expected /\ rows[op.row].state # "erased"
    /\ rows' = [rows EXCEPT ![op.row] = [version |-> op.expected + 1, state |-> op.target]]
    /\ UNCHANGED directory

ChangeDirectory(op) ==
    /\ op.kind = "directory"
    /\ Admin \in directory.active /\ op.expected = directory.revision
    /\ directory' = [revision |-> op.expected + 1, active |-> op.active]
    /\ rows' = [d \in Disclosures |->
                    IF rows[d].state = "erased" THEN rows[d]
                    ELSE [rows[d] EXCEPT !.version = @ + 1]]

EraseOne(op) ==
    /\ op.kind = "sweep"
    /\ \E d \in Disclosures :
           /\ rows[d].state = "retired"
           /\ rows' = [rows EXCEPT ![d].state = "erased", ![d].version = @ + 2]
    /\ UNCHANGED directory

Effect(op) == ChangeRow(op) \/ ChangeDirectory(op) \/ EraseOne(op)

(* An operation with nothing to change: a read, a retry, a finished sweep. *)
Harmless(op) ==
    \/ op.kind \in {"read", "credential"} /\ op.member \in directory.active
    \/ op.kind = "change" /\ op.member \in directory.active
       /\ rows[op.row] = [version |-> op.expected, state |-> op.target]
    \/ op.kind = "directory" /\ op.expected = directory.revision /\ op.active = directory.active
    \/ op.kind = "sweep"

Submit(c, op) ==
    /\ Status(c) # "waiting" /\ Status(c) # "done"
    /\ calls' = [calls EXCEPT ![c] = [status |-> "waiting", op |-> op]]
    /\ UNCHANGED <<rows, directory>>

(* The instant of a call: it is done, or no longer knows how it went. *)
TakeEffect(c) ==
    /\ Status(c) = "waiting"
    /\ Effect(calls[c].op)
    /\ \/ Becomes(c, "done") \/ Becomes(c, "unknown")
       \/ calls[c].op.kind = "sweep" /\ UNCHANGED calls

Answer(c) ==
    /\ UNCHANGED <<rows, directory>>
    /\ \/ Status(c) = "done" /\ Becomes(c, "ok")
       \/ /\ Status(c) = "done" /\ calls[c].op.kind = "sweep"
          /\ Becomes(c, "waiting") \/ Becomes(c, "rejected")
       \/ Status(c) = "waiting" /\ Harmless(calls[c].op) /\ Becomes(c, "ok")
       \/ Status(c) = "waiting" /\ Becomes(c, "rejected")
       \/ Status(c) = "waiting" /\ Becomes(c, "unknown")

(* A crash answers nobody; the one call it interrupted may still have happened. *)
Crash ==
    /\ calls' = [c \in Callers |-> IF Status(c) \in {"waiting", "done"}
                                   THEN [status |-> "lost", op |-> [kind |-> "none"]] ELSE calls[c]]
    /\ \/ UNCHANGED <<rows, directory>>
       \/ \E c \in Callers : Status(c) = "waiting" /\ Effect(calls[c].op)

Init ==
    /\ rows = [d \in Disclosures |-> [version |-> 0, state |-> "live"]]
    /\ directory = [revision |-> 0, active |-> Members]
    /\ calls = [c \in Callers |-> [status |-> "idle", op |-> [kind |-> "none"]]]

Next ==
    \/ \E c \in Callers :
           (\E op \in Operations : Submit(c, op)) \/ TakeEffect(c) \/ Answer(c)
    \/ Crash

Spec == Init /\ [][Next]_atomicVars

=============================================================================
