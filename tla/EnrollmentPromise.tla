-------------------------- MODULE EnrollmentPromise --------------------------
(***************************************************************************)
(* What enrollment promises about a device: it is trusted only after one   *)
(* account accepted it and while that account stood in the organization,   *)
(* it stays that account's for good, trust once withdrawn never comes      *)
(* back, only an attempt that never became trusted is forgotten, and an    *)
(* account that left the organization never stands in it again.            *)
(***************************************************************************)
CONSTANTS Devices, Accounts, None

VARIABLES
    stage,      \* "unknown", "offered", "accepted", "trusted", "withdrawn", "refused", "forgotten"
    account,    \* the account that accepted or refused the device
    standing,   \* accounts that are active in the organization
    departed    \* accounts that were removed from it

promiseVars == <<stage, account, standing, departed>>

Init ==
    /\ stage = [d \in Devices |-> "unknown"]
    /\ account = [d \in Devices |-> None]
    /\ standing \subseteq Accounts
    /\ departed = {}

Turns(d, from, to) == stage[d] \in from /\ stage'[d] = to
Keeps(d) == account'[d] = account[d]
By(d) == account'[d] \in standing

Step(d) ==
    \/ stage'[d] = stage[d] /\ Keeps(d)
    \/ Turns(d, {"unknown"}, "offered") /\ account'[d] = None
    \/ Turns(d, {"offered"}, "accepted") /\ By(d)
    \/ Turns(d, {"offered"}, "refused") /\ By(d)
    \/ Turns(d, {"accepted"}, "trusted") /\ Keeps(d) /\ By(d)
    \/ Turns(d, {"trusted"}, "withdrawn") /\ Keeps(d) /\ By(d)
    \/ Turns(d, {"offered", "accepted", "refused"}, "forgotten") /\ account'[d] = None

(* Accounts come and go, but never in the same step as a device, and one   *)
(* that left is gone for good: its bindings wait for nobody's return.      *)
Next ==
    /\ \A d \in Devices : Step(d)
    /\ <<stage, account>>' # <<stage, account>> => standing' = standing
    /\ standing' \subseteq Accounts \ departed'
    /\ departed \subseteq departed'

Spec == Init /\ [][Next]_promiseVars

=============================================================================
