---------------------------- MODULE MCInvitations ----------------------------
(* An owner and an invited account over two invitations, accepted by two     *)
(* requests at the same time while the directory changes; the owner may use  *)
(* a link too, and the invited become inviters.                              *)
EXTENDS InvitationsProperties, TLC

Alike == Permutations(Members \ {Bootstrap}) \cup Permutations(Invitations) \cup Permutations(Requests)
=============================================================================
