------------------------- MODULE DisclosureDomain -------------------------
(***************************************************************************)
(* The pure authorization rules of packages/a2a/registry-domain: control   *)
(* and request state machines, reader authorization, upload eligibility,   *)
(* versioned access changes and the dispatch decision of a queued          *)
(* question.  One organization is fixed, so organization checks that       *)
(* compare with it are always true and do not appear.                      *)
(*                                                                         *)
(* An access is a record [instance, control, ingest, terms, version, hash] *)
(* where `terms` is what the source owner grants: an expiry, the           *)
(* capabilities offered, the grants and their serialized weight.           *)
(***************************************************************************)
EXTENDS Integers, FiniteSets

CONSTANTS
    MaxVersion,     \* Number.MAX_SAFE_INTEGER, the last version a record can hold
    NoHash          \* null: no checkpoint is published

ASSUME MaxVersionAssumption == MaxVersion \in Nat

ControlStates == {"active", "paused", "revoked", "expired", "deleting", "deleted"}
IngestStates == {"pending", "ready", "frozen"}

(* Mutant: a revoked disclosure may be reactivated. *)
ControlTransitionsReviving ==
    [active   |-> {"paused", "revoked", "expired"},
     paused   |-> {"active", "revoked", "expired"},
     revoked  |-> {"deleting", "active"},
     expired  |-> {"deleting"},
     deleting |-> {"deleted"},
     deleted  |-> {}]

ControlTransitions ==
    [active   |-> {"paused", "revoked", "expired"},
     paused   |-> {"active", "revoked", "expired"},
     revoked  |-> {"deleting"},
     expired  |-> {"deleting"},
     deleting |-> {"deleted"},
     deleted  |-> {}]

RequestTransitions ==
    [created   |-> {"queued", "cancelled", "expired"},
     queued    |-> {"delivered", "cancelled", "expired"},
     delivered |-> {"running", "failed"},
     running   |-> {"completed", "failed"},
     completed |-> {},
     expired   |-> {},
     cancelled |-> {},
     failed    |-> {}]

(* An idempotent request transition, or one the table lists. *)
RequestMayBecome(state, target) == state = target \/ target \in RequestTransitions[state]

(* Readers are admitted while the disclosure is open, stopped uploads included. *)
Accessible(access, now) ==
    /\ now < access.terms.expiresAt
    /\ access.control \in {"active", "paused"}

RequiredCapabilities(action) ==
    IF action \in {"read", "subscribe"}
    THEN {"conversation.read"}
    ELSE {"conversation.read", "branch.create"}

MatchingGrants(subject, terms, now) ==
    {g \in terms.grants :
        /\ g.active
        /\ now < g.expiresAt
        /\ g.target \in {subject.member} \cup subject.teams}

Authorized(subject, action, access, now) ==
    /\ subject.active
    /\ Accessible(access, now)
    /\ access.ingest # "pending"
    /\ access.hash # NoHash
    /\ \A c \in RequiredCapabilities(action) :
           /\ c \in access.terms.capabilities
           /\ \E g \in MatchingGrants(subject, access.terms, now) : c \in g.capabilities

CanUpload(access, instance, now) ==
    /\ now < access.terms.expiresAt
    /\ access.control = "active"
    /\ access.ingest # "frozen"
    /\ access.instance = instance

(* A version is never reused: at the maximum every versioned change is refused. *)
CanIncrement(access) == access.version < MaxVersion

InvalidateAuthorization(access) == [access EXCEPT !.version = @ + 1]

UpdateAllowed(access, terms, now) ==
    /\ Accessible(access, now)
    /\ now < terms.expiresAt
    /\ terms = access.terms \/ CanIncrement(access)

UpdateAccess(access, terms) ==
    IF terms = access.terms THEN access
    ELSE [access EXCEPT !.terms = terms, !.version = @ + 1]

ControlAllowed(access, target, now) ==
    \/ target = access.control
    \/ /\ target \in ControlTransitions[access.control]
       /\ target = "active" => now < access.terms.expiresAt
       /\ target = "expired" => now >= access.terms.expiresAt
       /\ CanIncrement(access)

(* Mutant: a control change keeps the version. *)
MoveControlUnversioned(access, target) == [access EXCEPT !.control = target]

MoveControl(access, target) ==
    IF target = access.control THEN access
    ELSE [access EXCEPT !.control = target, !.version = @ + 1]

(* transitionRegistryIngest: readiness is published once, a freeze is final. *)
MoveIngest(state, target) ==
    IF state = target \/ target = "frozen" \/ (state = "pending" /\ target = "ready")
    THEN target ELSE state

===========================================================================
