----------------------------- MODULE MCEnrollment -----------------------------
(* The member directory, with a team, and bindings under a clock that may be *)
(* set back.                                                                 *)
EXTENDS EnrollmentProperties, TLC

Alike == Permutations(Members \ {Bootstrap}) \cup Permutations(Bindings)
=============================================================================
