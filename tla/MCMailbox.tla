------------------------------ MODULE MCMailbox ------------------------------
(* Mailbox on small instances.  One request and two executors exercise the   *)
(* grants; several requests and one executor the bounds of the table.        *)
EXTENDS MailboxProperties

MCOneRequest == {"r1"}
MCThreeRequests == {"r1", "r2", "r3"}

MCExpiresAt == [r \in Requests |-> IF r = "r1" THEN 3 ELSE 2]
MCKeyOrder == [r \in Requests |-> IF r = "r1" THEN 1 ELSE IF r = "r2" THEN 2 ELSE 3]

MCForward == {1}
MCSetBack == {1, -1}
=============================================================================
