-------------------------- MODULE MCProducerSockets --------------------------
(* One binding's life under sockets that come and go.  The directory's       *)
(* changes are those of a plain member: roles beside the bootstrap owner's   *)
(* matter to who may change the directory, which MCEnrollment is about.      *)
EXTENDS ProducerSocketsProperties

PlainMembers == \A m \in Members \ {Bootstrap} : ~HasRole(directory', m, "owner") /\ ~HasRole(directory', m, "admin")

PlainSpec == Init /\ [][Next /\ PlainMembers]_vars /\ Fairness
=============================================================================
