----------------------------- MODULE AlertPromise -----------------------------
(***************************************************************************)
(* What the operators' endpoint may rely on: an alert that was accepted    *)
(* disappears only after the endpoint took it, and is given up only after  *)
(* it was offered as often as the policy says, and refused or unanswered   *)
(* each time.  An alert given up is kept for a while.  The endpoint may be *)
(* offered an alert more than once, and after its end.                     *)
(***************************************************************************)
EXTENDS Naturals

CONSTANTS
    Alerts,
    Unreadable,         \* alerts that cannot be decoded, and are never offered
    DeliveryAttempts

VARIABLES
    stage,      \* [Alerts -> "new", "pending", "failed", "gone"]
    taken,      \* alerts the endpoint has taken
    refusals    \* [Alerts -> Nat]: offers refused, unanswered or cut off

promiseVars == <<stage, taken, refusals>>

Init ==
    /\ stage = [a \in Alerts |-> "new"]
    /\ taken = {}
    /\ refusals = [a \in Alerts |-> 0]

Forgotten(next) ==
    \A a \in Alerts : next[a] = stage[a] \/ (stage[a] = "failed" /\ next[a] = "gone")

(* Accepting an alert or giving one up may forget others given up before. *)
Moves(a, from, to) ==
    /\ stage[a] = from /\ stage'[a] = to
    /\ Forgotten([stage' EXCEPT ![a] = from])
    /\ UNCHANGED <<taken, refusals>>

Accept(a) == Moves(a, "new", "pending")
Finish(a) == a \in taken /\ Moves(a, "pending", "gone")
GiveUp(a) == (a \in Unreadable \/ refusals[a] >= DeliveryAttempts) /\ Moves(a, "pending", "failed")

Offer(a) ==
    /\ stage[a] # "new" /\ a \notin Unreadable
    /\ taken' \in {taken, taken \cup {a}}
    /\ refusals' \in {refusals, [refusals EXCEPT ![a] = @ + 1]}
    /\ UNCHANGED stage

Next == \E a \in Alerts : Accept(a) \/ Finish(a) \/ GiveUp(a) \/ Offer(a)

Spec == Init /\ [][Next]_promiseVars
=============================================================================
