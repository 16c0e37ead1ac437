----------------------------- MODULE Invitations -----------------------------
(***************************************************************************)
(* How an account becomes a member: invitations and memberships of the     *)
(* control plane (PostgresRegistryTenancy of tenancy-postgres.ts, in       *)
(* packages/bundle/registry-app/src), the directory of the organization    *)
(* (Enrollment), and the requests of browser-api.ts that keep the two in   *)
(* step without a transaction over both.                                   *)
(*                                                                         *)
(* A control-plane transaction locks the invitation or the membership it   *)
(* changes and is one step; so is a directory change.  A request may be    *)
(* cut off between any two of its steps, a transaction may have committed  *)
(* when it is reported as failed, and requests of several people           *)
(* interleave.  An account carries one member id everywhere, so both are   *)
(* called a member here.  The limit on pending invitations, counted        *)
(* without a lock, is left out; so is the moment between the look at the   *)
(* inviter's role in the directory and the transaction that trusts it.     *)
(***************************************************************************)
EXTENDS Enrollment

CONSTANTS
    Invitations,    \* randomUUID() identifiers, each drawn once
    Requests,       \* requests that accept an invitation
    MaxAttempts,    \* tries at entering the directory
    MaxSyncs        \* bounds the mirrored changes on their way

VARIABLES
    invitations,    \* [Invitations -> row]
    memberships,    \* [Members -> [role, state], or Null]
    due,            \* invitations whose expires_at has passed
    accepts,        \* [Requests -> what acceptInvitation holds]
    syncs           \* directory changes still to be mirrored

control == <<invitations, memberships>>
invitationVars == <<enrollmentVars, invitations, memberships, due, accepts, syncs>>

NotCreated == [status |-> "none", role |-> "member", creator |-> Null, claimant |-> Null]
Idle == [pc |-> "idle", member |-> Null, invitation |-> Null,
         revision |-> 0, attempt |-> 0, inserted |-> FALSE]

Standing(m) == IF memberships[m] = Null THEN "none" ELSE memberships[m].state
Linked(m) == Standing(m) = "active"
SetState(m, state) == [memberships EXCEPT ![m].state = state]

(* A browser session acts for an organization when both stores know an      *)
(* active member; the role is the directory's (oidc-account-auth.ts).       *)
Enters(m) == Linked(m) /\ m \in Active(directory)
Administers(m) == Enters(m) /\ Manages(directory, m)

(* A pending invitation found due is expired, and with it the suspended     *)
(* membership of its claimant, by whichever transaction commits next.       *)
Lapsed(i) == invitations[i].status = "pending" /\ i \in due
Open(i) == invitations[i].status = "pending" /\ i \notin due

Ends(i, status) == [invitations EXCEPT ![i].status = status]
RemovesSuspended(m) == IF Standing(m) = "suspended" THEN SetState(m, "removed") ELSE memberships

(* expireInvitations *)
Expire(S) ==
    LET claimants == {invitations[i].claimant : i \in {j \in S : Lapsed(j)}} IN
    /\ invitations' = [i \in Invitations |->
           IF i \in S /\ Lapsed(i) THEN [invitations[i] EXCEPT !.status = "expired"] ELSE invitations[i]]
    /\ memberships' = [m \in Members |->
           IF m \in claimants /\ Standing(m) = "suspended" THEN [memberships[m] EXCEPT !.state = "removed"]
           ELSE memberships[m]]

---------------------------------------------------------------------------
(* What members do to invitations. *)

(* The time of an ended invitation is of no more consequence. *)
Lapse(i) ==
    /\ invitations[i].status = "pending" /\ i \notin due
    /\ due' = due \cup {i}
    /\ UNCHANGED <<enrollmentVars, control, accepts, syncs>>

(* listInvitations: reading the list expires what is due. *)
List(a) ==
    /\ Administers(a)
    /\ Expire(Invitations)
    /\ UNCHANGED <<enrollmentVars, due, accepts, syncs>>

(* createInvitation, which expires what is due as well: List may come first. *)
Create(a, i, role) ==
    /\ Administers(a) /\ role \in {"admin", "member"}
    /\ HasRole(directory, a, "owner") \/ role = "member"
    /\ invitations[i].status = "none" /\ \A j \in Invitations : ~Lapsed(j)
    /\ invitations' = [invitations EXCEPT ![i] =
           [status |-> "pending", role |-> role, creator |-> a, claimant |-> Null]]
    /\ UNCHANGED <<enrollmentVars, memberships, due, accepts, syncs>>

Revoke(a, i) ==
    /\ Administers(a) /\ Open(i)
    /\ HasRole(directory, a, "owner") \/ invitations[i].role = "member"
    /\ invitations' = Ends(i, "revoked")
    /\ memberships' = IF invitations[i].claimant = Null THEN memberships
                      ELSE RemovesSuspended(invitations[i].claimant)
    /\ UNCHANGED <<enrollmentVars, due, accepts, syncs>>

(* declineInvitation: declining also claims, and ends a suspended membership *)
(* of whoever declines.                                                      *)
Decline(m, i) ==
    /\ Open(i) /\ invitations[i].claimant \in {Null, m}
    /\ invitations' = [invitations EXCEPT ![i].status = "declined", ![i].claimant = m]
    /\ memberships' = RemovesSuspended(m)
    /\ UNCHANGED <<enrollmentVars, due, accepts, syncs>>

---------------------------------------------------------------------------
(* acceptInvitation: claim in the control plane, enter the directory as the *)
(* creator of the invitation, activate in the control plane.                *)

(* A request goes on, or is cut off after what its step did. *)
Continues(q, next) ==
    accepts' = [accepts EXCEPT ![q] = next] \/ accepts' = [accepts EXCEPT ![q] = Idle]
At(q, pc) == [accepts[q] EXCEPT !.pc = pc]

(* Mutant: whoever comes first is not remembered. *)
ClaimableByAnyone(m, i) ==
    /\ invitations[i].status \in {"pending", "accepted"} /\ ~Lapsed(i)
    /\ Standing(m) # "removed"

(* claimInvitation.  The one pending invitation an account has claimed keeps *)
(* it from claiming another (organization_invitations_pending_claim_uidx).   *)
Claimable(m, i) ==
    /\ Open(i) \/ invitations[i].status = "accepted"
    /\ invitations[i].claimant \in {Null, m}
    /\ Standing(m) # "removed"
    /\ invitations[i].status = "pending" =>
           /\ Linked(invitations[i].creator)
           /\ memberships[m] # Null => memberships[m].role = invitations[i].role
           /\ \A j \in Invitations \ {i} :
                  ~(invitations[j].status = "pending" /\ invitations[j].claimant = m)

Claim(q, m, i) ==
    /\ accepts[q] = Idle /\ Claimable(m, i)
    /\ memberships' = IF memberships[m] # Null THEN memberships
                      ELSE [memberships EXCEPT ![m] = [role |-> invitations[i].role, state |-> "suspended"]]
    /\ invitations' = [invitations EXCEPT ![i].claimant = m]
    /\ Continues(q, [Idle EXCEPT !.pc = IF invitations[i].status = "pending" THEN "read" ELSE "enter",
                                 !.member = m, !.invitation = i, !.attempt = 1])
    /\ UNCHANGED <<enrollmentVars, due, syncs>>

(* directory.read as the creator; whoever is there already must be there as  *)
(* invited.                                                                  *)
ReadDirectory(q) ==
    LET m == accepts[q].member
        row == invitations[accepts[q].invitation]
    IN
    /\ accepts[q].pc = "read"
    /\ \/ /\ Manages(directory, row.creator) /\ m \notin Known(directory)
          /\ accepts' = [accepts EXCEPT ![q] = [At(q, "insert") EXCEPT !.revision = directory.revision]]
       \/ /\ Manages(directory, row.creator) /\ m \in Known(directory)
          /\ directory.members[m] = [role |-> row.role, state |-> "active"]
          /\ accepts' = [accepts EXCEPT ![q] = At(q, "activate")]
    /\ UNCHANGED <<enrollmentVars, control, due, syncs>>

(* directory.change at the revision that was read; only a conflict is retried. *)
InsertMember(q) ==
    LET m == accepts[q].member
        row == invitations[accepts[q].invitation]
    IN
    /\ accepts[q].pc = "insert"
    /\ \/ /\ directory.revision = accepts[q].revision
          /\ PutMember(row.creator, m, [role |-> row.role, state |-> "active"])
          /\ Continues(q, [At(q, "activate") EXCEPT !.inserted = TRUE])
       \/ /\ directory.revision # accepts[q].revision /\ Manages(directory, row.creator)
          /\ accepts[q].attempt < MaxAttempts
          /\ accepts' = [accepts EXCEPT ![q] = [At(q, "read") EXCEPT !.attempt = @ + 1]]
          /\ UNCHANGED enrollmentVars
    /\ UNCHANGED <<control, due, syncs>>

Activatable(m, i) ==
    /\ Open(i) \/ invitations[i].status = "accepted"
    /\ invitations[i].claimant = m
    /\ Open(i) => /\ Linked(invitations[i].creator)
                  /\ memberships[m].role = invitations[i].role
                  /\ Standing(m) \in {"suspended", "active"}
    /\ invitations[i].status = "accepted" => Linked(m)

(* Mutant: every failed activation counts as final. *)
AfterFailureAsFinal(q) == IF accepts[q].inserted THEN At(q, "cleanup") ELSE Idle

(* A failure is looked into before anything is undone. *)
AfterFailure(q) == At(q, "preview")

(* activateInvitation: membership and invitation change together; what it    *)
(* reports may be wrong about that.  A conflict counts as final at once.     *)
Activate(q) ==
    LET m == accepts[q].member
        i == accepts[q].invitation
        conflict == /\ Open(i) \/ invitations[i].status = "accepted"
                    /\ invitations[i].claimant = m
                    /\ Open(i) => Linked(invitations[i].creator)
                    /\ \/ Open(i) /\ memberships[m].role # invitations[i].role
                       \/ Standing(m) \notin {"suspended", "active"}
    IN
    /\ accepts[q].pc = "activate"
    /\ \/ /\ Activatable(m, i)
          /\ IF invitations[i].status = "pending"
             THEN memberships' = SetState(m, "active") /\ invitations' = Ends(i, "accepted")
             ELSE UNCHANGED control
          /\ accepts' \in {[accepts EXCEPT ![q] = Idle], [accepts EXCEPT ![q] = AfterFailure(q)]}
       \/ /\ accepts' = [accepts EXCEPT ![q] =
                 IF conflict /\ accepts[q].inserted THEN At(q, "cleanup") ELSE AfterFailure(q)]
          /\ UNCHANGED control
    /\ UNCHANGED <<enrollmentVars, due, syncs>>

(* An accepted invitation only shows the access it gave. *)
EnterAgain(q) ==
    /\ accepts[q].pc = "enter"
    /\ accepts' = [accepts EXCEPT ![q] = Idle]
    /\ UNCHANGED <<enrollmentVars, control, due, syncs>>

(* previewInvitation, which expires what is due. *)
Preview(q) ==
    LET i == accepts[q].invitation
        ended == invitations'[i].status \in {"revoked", "expired", "declined"}
    IN
    /\ accepts[q].pc = "preview"
    /\ Expire({i})
    /\ Continues(q, IF ended /\ accepts[q].inserted THEN At(q, "cleanup") ELSE Idle)
    /\ UNCHANGED <<enrollmentVars, due, syncs>>

(* The entry this request made is read again, and removed if it is as made.  *)
RereadEntry(q) ==
    LET m == accepts[q].member
        row == invitations[accepts[q].invitation]
    IN
    /\ accepts[q].pc = "cleanup" /\ Manages(directory, row.creator)
    /\ m \in Known(directory) /\ directory.members[m] = [role |-> row.role, state |-> "active"]
    /\ accepts' = [accepts EXCEPT ![q] = [At(q, "tombstone") EXCEPT !.revision = directory.revision]]
    /\ UNCHANGED <<enrollmentVars, control, due, syncs>>

Tombstone(q) ==
    LET m == accepts[q].member
        row == invitations[accepts[q].invitation]
    IN
    /\ accepts[q].pc = "tombstone" /\ directory.revision = accepts[q].revision
    /\ PutMember(row.creator, m, [role |-> row.role, state |-> "removed"])
    /\ accepts' = [accepts EXCEPT ![q] = Idle]
    /\ UNCHANGED <<control, due, syncs>>

(* Refused, failed or cut off: the request ends where it is. *)
Abandon(q) ==
    /\ accepts[q] # Idle
    /\ accepts' = [accepts EXCEPT ![q] = Idle]
    /\ UNCHANGED <<enrollmentVars, control, due, syncs>>

---------------------------------------------------------------------------
(* A directory change by an administrator is mirrored afterwards, unless the *)
(* request is gone by then; saving what is there already is mirrored too.    *)
ChangeDirectory(a, m, value) ==
    /\ Administers(a) /\ Cardinality(syncs) < MaxSyncs
    /\ \/ PutMember(a, m, value)
       \/ /\ m \in Known(directory) /\ directory.members[m] = value
          /\ Ranks(directory, a, m, value) /\ UNCHANGED enrollmentVars
    /\ syncs' \in {syncs, syncs \cup {[member |-> m, role |-> value.role, state |-> value.state]}}
    /\ UNCHANGED <<control, due, accepts>>

(* Mutant: any suspended membership is resumed. *)
MirrorsSuspended(s) ==
    Standing(s.member) # "removed" /\ (Standing(s.member) = "suspended" => s.state = "active")

(* Only an accepted linkage is resumed. *)
Mirrors(s) ==
    /\ Standing(s.member) # "removed"
    /\ Standing(s.member) = "suspended" =>
           /\ s.state = "active"
           /\ \E i \in Invitations : invitations[i].status = "accepted" /\ invitations[i].claimant = s.member

(* syncMembershipFromDirectory; concurrent ones commit in any order. *)
Sync(s) ==
    /\ s \in syncs
    /\ syncs' = syncs \ {s}
    /\ memberships' = IF memberships[s.member] # Null /\ Mirrors(s)
                      THEN [memberships EXCEPT ![s.member] = [role |-> s.role, state |-> s.state]]
                      ELSE memberships
    /\ UNCHANGED <<enrollmentVars, invitations, due, accepts>>

LoseSync(s) ==
    /\ s \in syncs
    /\ syncs' = syncs \ {s}
    /\ UNCHANGED <<enrollmentVars, control, due, accepts>>

---------------------------------------------------------------------------
(* provision() leaves the creating owner in both stores. *)
InvitationInit ==
    /\ EnrollmentInit
    /\ invitations = [i \in Invitations |-> NotCreated]
    /\ memberships = [m \in Members |-> IF m = Bootstrap THEN [role |-> "owner", state |-> "active"] ELSE Null]
    /\ due = {}
    /\ accepts = [q \in Requests |-> Idle]
    /\ syncs = {}

InvitationStep ==
    \/ \E i \in Invitations : Lapse(i) \/ \E a \in Members : Revoke(a, i) \/ Decline(a, i)
    \/ \E i \in Invitations, a \in Members, role \in Roles : Create(a, i, role)
    \/ \E a \in Members : List(a)

AcceptStep ==
    \E q \in Requests :
        \/ \E m \in Members, i \in Invitations : Claim(q, m, i)
        \/ ReadDirectory(q) \/ InsertMember(q) \/ Activate(q) \/ EnterAgain(q)
        \/ Preview(q) \/ RereadEntry(q) \/ Tombstone(q) \/ Abandon(q)

DirectoryStep ==
    \/ \E a \in Members, m \in Members, value \in Member : ChangeDirectory(a, m, value)
    \/ \E s \in syncs : Sync(s) \/ LoseSync(s)

InvitationNext == InvitationStep \/ AcceptStep \/ DirectoryStep

InvitationSpec == InvitationInit /\ [][InvitationNext]_invitationVars
=============================================================================
