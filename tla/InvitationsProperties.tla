------------------------ MODULE InvitationsProperties ------------------------
(***************************************************************************)
(* What must hold of invitations, memberships and the directory together.  *)
(***************************************************************************)
EXTENDS Invitations

AcceptedBy(m) ==
    \E i \in Invitations : invitations[i].status = "accepted" /\ invitations[i].claimant = m

(* Nobody but the first owner belongs to an organization without an         *)
(* invitation accepted in that account: not by an entry left over in the    *)
(* directory, nor by a change of it that is mirrored.  Until then a claim   *)
(* gives a suspended membership, and no longer than the claimed invitation  *)
(* is pending (tenancy-postgres.ts:1330, 1423, browser-api.ts:1844).        *)
LinkageIsExplained ==
    \A m \in Members \ {Bootstrap} :
        AcceptedBy(m)
        \/ Standing(m) \in {"none", "removed"}
        \/ /\ Standing(m) = "suspended"
           /\ \E i \in Invitations : /\ invitations[i].status = "pending"
                                     /\ invitations[i].claimant = m
                                     /\ invitations[i].role = memberships[m].role

(* An invitation, once claimed, stays with that account, and its end is     *)
(* final: two accounts with the same link, or a revocation, a refusal or    *)
(* an expiry that races an acceptance, leave exactly one outcome, and a     *)
(* removed membership never comes back by another invitation or a mirrored  *)
(* change (design/a2a-registry/SSOT.md:20-21).                              *)
OutcomesAreFinal ==
    [][/\ \A i \in Invitations :
             /\ invitations[i].claimant # Null => invitations'[i].claimant = invitations[i].claimant
             /\ invitations[i].status \notin {"none", "pending"} =>
                    invitations'[i].status = invitations[i].status
       /\ \A m \in Members : Standing(m) = "removed" => Standing(m)' = "removed"]_invitationVars

(* Undoing a failed acceptance only removes directory entries that gave     *)
(* nobody access: an acceptance that did commit, or that another request    *)
(* of the same account completed, is not undone (browser-api.ts:1844-1860). *)
CleanupSparesMembers ==
    [][\A q \in Requests :
          accepts[q].pc = "tombstone" /\ directory' # directory /\ accepts'[q] = Idle
              => ~Linked(accepts[q].member)]_invitationVars

=============================================================================
