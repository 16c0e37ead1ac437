-------------------------- MODULE ConfirmedHistory --------------------------
(***************************************************************************)
(* What the registry promises about a disclosure, without saying how: the  *)
(* history confirmed to readers only grows while the disclosure is open,   *)
(* a sealed disclosure never opens again, erasing it is final, and every   *)
(* administrative step takes a version nobody has seen before.             *)
(***************************************************************************)
EXTENDS Integers, Sequences

CONSTANT Disclosures

VARIABLES
    phase,      \* "absent", "open", "held", "sealed" or "erased"
    confirmed,  \* the history a reader may be shown
    version     \* authorization version, -1 before registration

historyVars == <<phase, confirmed, version>>

Extends(longer, shorter) ==
    /\ Len(shorter) <= Len(longer)
    /\ \A i \in 1..Len(shorter) : longer[i] = shorter[i]

OthersKeep(d) ==
    \A o \in Disclosures \ {d} :
        /\ phase'[o] = phase[o]
        /\ confirmed'[o] = confirmed[o]
        /\ version'[o] = version[o]

Init ==
    /\ phase = [d \in Disclosures |-> "absent"]
    /\ confirmed = [d \in Disclosures |-> <<>>]
    /\ version = [d \in Disclosures |-> -1]

(* A disclosure begins open, with nothing confirmed. *)
Announce(d) ==
    /\ phase[d] = "absent" /\ phase'[d] = "open"
    /\ confirmed'[d] = <<>> /\ version'[d] = 0
    /\ OthersKeep(d)

(* Only an open disclosure confirms more, and what was confirmed stays. *)
Confirm(d) ==
    /\ phase[d] = "open" /\ phase'[d] = "open"
    /\ Extends(confirmed'[d], confirmed[d])
    /\ version'[d] = version[d]
    /\ OthersKeep(d)

(* An integrity conflict seals the history without a new version. *)
Conflict(d) ==
    /\ phase[d] = "open" /\ phase'[d] = "sealed"
    /\ confirmed'[d] = confirmed[d] /\ version'[d] = version[d]
    /\ OthersKeep(d)

(* Hold, resume, seal or change who may read: one new version each. *)
Administer(d) ==
    /\ phase[d] \in {"open", "held", "sealed"}
    /\ phase'[d] \in IF phase[d] = "sealed" THEN {"sealed"} ELSE {"open", "held", "sealed"}
    /\ confirmed'[d] = confirmed[d]
    /\ version'[d] = version[d] + 1
    /\ OthersKeep(d)

Erase(d) ==
    /\ phase[d] \in {"open", "held", "sealed"} /\ phase'[d] = "erased"
    /\ confirmed'[d] = <<>>
    /\ version'[d] > version[d]
    /\ OthersKeep(d)

(* A change of the organization's directory renews every version at once. *)
Renew ==
    /\ phase' = phase /\ confirmed' = confirmed
    /\ \A d \in Disclosures :
           version'[d] = IF phase[d] \in {"open", "held", "sealed"}
                         THEN version[d] + 1 ELSE version[d]

Next ==
    \/ \E d \in Disclosures :
           Announce(d) \/ Confirm(d) \/ Conflict(d) \/ Administer(d) \/ Erase(d)
    \/ Renew

Spec == Init /\ [][Next]_historyVars

=============================================================================
