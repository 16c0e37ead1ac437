------------------------- MODULE EnrollmentProperties -------------------------
(***************************************************************************)
(* What must hold of the member directory and of device enrollment.        *)
(***************************************************************************)
EXTENDS Enrollment

(* Types of the directory, the binding records, the clock and the journal's *)
(* attribution.                                                             *)
TypeOK ==
    /\ directory \in Directory
    /\ bindings \in [Bindings -> Binding]
    /\ now \in Time
    /\ actor \in Members \cup {Null}

(* The stored directory always parses again (parseDirectory at open): the    *)
(* organization never loses its last active owner, no team lists a removed   *)
(* or unknown member, and no bound is passed, whatever commands succeed.     *)
DirectoryReopens == Parses(directory)

(* Removing somebody is never blocked by the teams they are in: an active    *)
(* owner can remove every other member who is still there (the teams let the *)
(* member go in the same change, directory.ts:117).                          *)
RemovalIsAlwaysOpen ==
    \A a \in Active(directory), m \in Known(directory) :
        HasRole(directory, a, "owner") /\ a # m =>
            Parses(WithMember(directory, m, [directory.members[m] EXCEPT !.state = "removed"]))

(* Standing above a plain member is given, changed and taken by owners only: *)
(* no sequence of an administrator's own commands touches an owner or an     *)
(* administrator, itself included (directory.ts:113).                        *)
OnlyOwnersTouchManagers ==
    [][\A m \in Members :
           directory'.members[m] # directory.members[m]
           /\ (\E d \in {directory, directory'} :
                   HasRole(d, m, "owner") \/ HasRole(d, m, "admin"))
           => HasRole(directory, actor', "owner")]_enrollmentVars

(* parseBinding on a stored record. *)
BindingParses(r) ==
    LET opened(at) == r.createdAt <= at /\ at < r.expiresAt IN
    /\ r.createdAt < r.expiresAt /\ r.expiresAt - r.createdAt <= Ttl
    /\ r.phase = "rejected" => opened(r.endedAt)
    /\ r.phase \in {"approved", "confirmed", "revoked"} => opened(r.approvedAt)
    /\ r.phase \in {"confirmed", "revoked"} => r.approvedAt <= r.confirmedAt /\ r.confirmedAt < r.expiresAt
    /\ r.phase = "revoked" => r.confirmedAt <= r.endedAt

(* Whatever the clock does between two calls, set back included, every       *)
(* binding written is one the next opening accepts, and there are never more *)
(* of them than it accepts: one bad timestamp would keep the whole           *)
(* organization's registry closed (binding.ts:123-144, index.ts:204).        *)
BindingsReopen ==
    /\ Cardinality(Stored) <= MaxBindings
    /\ \A b \in Stored : BindingParses(bindings[b])

(* The registry opens again over what any sequence of directory commands and *)
(* enrollments has left: both decoders run before it serves (index.ts:204).  *)
EnrollmentReopens == DirectoryReopens /\ BindingsReopen

StageOf ==
    [unused |-> "unknown", pending |-> "offered", approved |-> "accepted",
     confirmed |-> "trusted", rejected |-> "refused", revoked |-> "withdrawn",
     pruned |-> "forgotten"]

Promise == INSTANCE EnrollmentPromise WITH
    Devices <- Bindings, Accounts <- Members, None <- Null,
    stage <- [b \in Bindings |-> StageOf[bindings[b].phase]],
    account <- [b \in Bindings |-> bindings[b].member],
    standing <- Active(directory),
    departed <- {m \in Members : HasState(directory, m, "removed")}

(* Enrollment keeps its promise: a device is trusted only after an account   *)
(* accepted it and while that account is active, belongs to it for good, is  *)
(* never trusted again once revoked, pruning forgets only attempts that were *)
(* never trusted, and a removed account inherits nothing by coming back.    *)
ImplementsEnrollmentPromise == Promise!Spec

=============================================================================
