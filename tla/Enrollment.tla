------------------------------ MODULE Enrollment ------------------------------
(***************************************************************************)
(* Who may act in an organization: its member directory                    *)
(* (packages/a2a/registry-ingest/src/directory.ts) and the bindings that   *)
(* tie a device's key to a member (binding.ts), as the serialized owner    *)
(* commits them (index.ts).  Each action is one accepted operation of the  *)
(* owner; a refused call changes nothing and is not a step.  IngestOwner   *)
(* is about what happens inside such an operation.                         *)
(*                                                                         *)
(* The server's clock is Date.now(), which an administrator or NTP may set *)
(* back.  Names, keys, codes and signatures are left out: a call below is  *)
(* one that presents the right ones.                                       *)
(***************************************************************************)
EXTENDS Integers, FiniteSets

CONSTANTS
    Members, Teams,
    Bootstrap,          \* the configured first owner
    Bindings,           \* randomUUID() identifiers, each drawn once
    MaxMembers, MaxTeams, MaxTeamMembers, MaxBindings,
    Ttl,                \* enrollment lifetime
    MaxRevision, MaxTime,
    Null

ASSUME EnrollmentAssumption ==
    /\ Bootstrap \in Members
    /\ IsFiniteSet(Members) /\ IsFiniteSet(Teams) /\ IsFiniteSet(Bindings)
    /\ {MaxMembers, MaxTeams, MaxTeamMembers, MaxBindings, Ttl} \subseteq Nat \ {0}
    /\ {MaxRevision, MaxTime} \subseteq Nat

VARIABLES
    directory,      \* [revision, members, teams]; an absent member or team is Null
    bindings,       \* [Bindings -> record]
    now,            \* Date.now()
    actor           \* the member the last directory change is attributed to in the journal

enrollmentVars == <<directory, bindings, now, actor>>

Roles == {"owner", "admin", "member"}
Memberships == {"active", "suspended", "removed"}
Member == [role : Roles, state : Memberships]
Directory == [revision : 0..MaxRevision, members : [Members -> Member \cup {Null}],
              teams : [Teams -> (SUBSET Members) \cup {Null}]]

ASSUME NullAssumption ==
    /\ Null \notin Members
    /\ \A value \in Member : value # Null
    /\ \A listed \in SUBSET Members : listed # Null

Phases == {"unused", "pending", "approved", "confirmed", "rejected", "revoked", "pruned"}
Binding == [phase : Phases, member : Members \cup {Null}, createdAt : Nat, expiresAt : Nat,
            approvedAt : Nat, confirmedAt : Nat, endedAt : Nat]

Slot(phase, from, until) ==
    [phase |-> phase, member |-> Null, createdAt |-> from, expiresAt |-> until,
     approvedAt |-> 0, confirmedAt |-> 0, endedAt |-> 0]
Blank(phase) == Slot(phase, 0, 0)

Time == 0..MaxTime

---------------------------------------------------------------------------
(* The directory. *)

Known(d) == {m \in Members : d.members[m] # Null}
HasState(d, m, state) == m \in Known(d) /\ d.members[m].state = state
HasRole(d, m, role) == m \in Known(d) /\ d.members[m].role = role
Active(d) == {m \in Members : HasState(d, m, "active")}
Formed(d) == {t \in Teams : d.teams[t] # Null}

(* parseDirectory: what the opener, and a change before it commits, accept. *)
Parses(d) ==
    /\ Cardinality(Known(d)) <= MaxMembers /\ Cardinality(Formed(d)) <= MaxTeams
    /\ \E m \in Active(d) : HasRole(d, m, "owner")
    /\ \A t \in Formed(d) :
           /\ Cardinality(d.teams[t]) <= MaxTeamMembers
           /\ \A m \in d.teams[t] : m \in Known(d) /\ ~HasState(d, m, "removed")

Manages(d, a) == a \in Active(d) /\ d.members[a].role \in {"owner", "admin"}

(* Owners manage everyone, administrators only plain members. *)
Ranks(d, a, m, value) ==
    \/ HasRole(d, a, "owner")
    \/ value.role = "member" /\ (m \notin Known(d) \/ HasRole(d, m, "member"))

(* Removal is for good, and a member joins active. *)
MayBecome(d, m, value) ==
    /\ HasState(d, m, "removed") => value.state = "removed"
    /\ m \notin Known(d) => value.state = "active"

(* A removed member leaves every team in the same change. *)
WithMember(d, m, value) ==
    [d EXCEPT !.members[m] = value,
              !.teams = [t \in Teams |-> IF t \in Formed(d) /\ value.state = "removed"
                                         THEN d.teams[t] \ {m} ELSE d.teams[t]]]

WithTeam(d, t, listed) == [d EXCEPT !.teams[t] = listed]

Revised(d) == [d EXCEPT !.revision = @ + 1]

(* Mutant: a candidate is committed without being parsed. *)
CommitUnparsed(a, candidate) ==
    /\ directory.revision < MaxRevision
    /\ directory' = Revised(candidate)
    /\ actor' = a
    /\ UNCHANGED <<bindings, now>>

(* A candidate the parser refuses is refused; what differs takes a revision. *)
CommitDirectory(a, candidate) ==
    /\ directory.revision < MaxRevision
    /\ Parses(Revised(candidate))
    /\ directory' = Revised(candidate)
    /\ actor' = a
    /\ UNCHANGED <<bindings, now>>

(* The same role and state under another display name is a change too. *)
PutMember(a, m, value) ==
    /\ Manages(directory, a)
    /\ Ranks(directory, a, m, value) /\ MayBecome(directory, m, value)
    /\ CommitDirectory(a, WithMember(directory, m, value))

PutTeam(a, t, listed) ==
    /\ Manages(directory, a)
    /\ CommitDirectory(a, WithTeam(directory, t, listed))

RemoveTeam(a, t) ==
    /\ Manages(directory, a)
    /\ t \in Formed(directory)
    /\ CommitDirectory(a, WithTeam(directory, t, Null))

---------------------------------------------------------------------------
(* Bindings. *)

Stored == {b \in Bindings : bindings[b].phase \notin {"unused", "pruned"}}
InWindow(r, time) == r.createdAt <= time /\ time < r.expiresAt

Prunable(time) ==
    {b \in Stored : /\ bindings[b].phase \in {"pending", "approved", "rejected"}
                    /\ bindings[b].expiresAt <= time}

(* pruneOneExpiredBinding: at most one, among those that expired first. *)
Pruned(time) ==
    IF Prunable(time) = {} THEN {bindings}
    ELSE {[bindings EXCEPT ![b] = Blank("pruned")] :
              b \in {c \in Prunable(time) :
                         \A o \in Prunable(time) : bindings[c].expiresAt <= bindings[o].expiresAt}}

(* startBinding prunes first, in a write of its own, then admits a new     *)
(* attempt if there is room for it.                                        *)
StartBinding(b) ==
    /\ bindings[b].phase = "unused"
    /\ \E kept \in Pruned(now) :
           /\ Cardinality({c \in Bindings : kept[c].phase \notin {"unused", "pruned"}}) < MaxBindings
           /\ bindings' = [kept EXCEPT ![b] = Slot("pending", now, now + Ttl)]
    /\ UNCHANGED <<directory, now, actor>>

(* The prune is durable even if the journal, the capacity or a crash then  *)
(* stops the start.                                                        *)
StartOnlyPrunes ==
    /\ Prunable(now) # {}
    /\ bindings' \in Pruned(now)
    /\ UNCHANGED <<directory, now, actor>>

MemberActs(b, phase, record) ==
    /\ bindings[b].phase = phase
    /\ bindings' = [bindings EXCEPT ![b] = record]
    /\ UNCHANGED <<directory, now, actor>>

(* The member who holds the attempt's code accepts it, once. *)
ApproveBinding(b, m) ==
    /\ m \in Active(directory)
    /\ InWindow(bindings[b], now)
    /\ MemberActs(b, "pending", [bindings[b] EXCEPT !.phase = "approved", !.member = m,
                                                     !.approvedAt = now])

RejectBinding(b, m) ==
    /\ m \in Active(directory)
    /\ InWindow(bindings[b], now)
    /\ MemberActs(b, "pending", [bindings[b] EXCEPT !.phase = "rejected", !.member = m,
                                                     !.endedAt = now])

(* Mutant: a proof is taken after the attempt expired. *)
ConfirmsLate(r) == now >= r.approvedAt

Confirms(r) == InWindow(r, now) /\ now >= r.approvedAt

(* Mutant: the approving member's standing is not looked up again. *)
ConfirmAnyMember(b) ==
    /\ Confirms(bindings[b])
    /\ MemberActs(b, "approved", [bindings[b] EXCEPT !.phase = "confirmed", !.confirmedAt = now])

(* The device proves its key; the approving member must still be active. *)
ConfirmBinding(b) ==
    /\ bindings[b].member \in Active(directory)
    /\ Confirms(bindings[b])
    /\ MemberActs(b, "approved", [bindings[b] EXCEPT !.phase = "confirmed", !.confirmedAt = now])

(* requireOwner: only the account that approved the binding revokes it. *)
RevokeBinding(b, m) ==
    /\ m = bindings[b].member /\ m \in Active(directory)
    /\ now >= bindings[b].confirmedAt
    /\ MemberActs(b, "confirmed", [bindings[b] EXCEPT !.phase = "revoked", !.endedAt = now])

(* authenticateBindingCredential and currentBindingHistory: what a device  *)
(* credential and every producer operation of its instance are checked for.*)
Authorized(b, time) ==
    /\ bindings[b].phase = "confirmed"
    /\ bindings[b].member \in Active(directory)
    /\ time >= bindings[b].confirmedAt

SetClock ==
    /\ now' \in Time
    /\ UNCHANGED <<directory, bindings, actor>>

---------------------------------------------------------------------------
EnrollmentInit ==
    /\ directory = [revision |-> 0,
                    members |-> [m \in Members |-> IF m = Bootstrap
                                    THEN [role |-> "owner", state |-> "active"] ELSE Null],
                    teams |-> [t \in Teams |-> Null]]
    /\ bindings = [b \in Bindings |-> Blank("unused")]
    /\ now = 0
    /\ actor = Null

DirectoryNext ==
    \E a \in Members :
        \/ \E m \in Members, value \in Member : PutMember(a, m, value)
        \/ \E t \in Teams, listed \in SUBSET Members : PutTeam(a, t, listed)
        \/ \E t \in Teams : RemoveTeam(a, t)

BindingNext ==
    \/ \E b \in Bindings :
           \/ StartBinding(b) \/ ConfirmBinding(b)
           \/ \E m \in Members : ApproveBinding(b, m) \/ RejectBinding(b, m) \/ RevokeBinding(b, m)
    \/ StartOnlyPrunes
    \/ SetClock

EnrollmentNext == DirectoryNext \/ BindingNext

Spec == EnrollmentInit /\ [][EnrollmentNext]_enrollmentVars

=============================================================================
