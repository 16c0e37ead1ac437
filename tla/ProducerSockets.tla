---------------------------- MODULE ProducerSockets ----------------------------
(***************************************************************************)
(* How a device's socket comes to speak for its binding, and stops: the    *)
(* connection (packages/bundle/registry-app/src/sync-connection.ts), the   *)
(* authenticator that leases a runtime to it (binding-producer-auth.ts)    *)
(* and the runtime that announces lost authority (runtime-store.ts), over  *)
(* the directory and bindings of Enrollment.                               *)
(*                                                                         *)
(* The owner's queue answers one question at a time; the asker learns the  *)
(* answer in a later turn, and a change is announced in a turn after the   *)
(* one that committed it.  In between anything else may run.               *)
(***************************************************************************)
EXTENDS Enrollment

CONSTANT Connections

ASSUME ConnectionsAssumption == IsFiniteSet(Connections)

VARIABLES
    owner,      \* "idle", "publishing" (committed, not announced), "failing", "closed"
    lost,       \* bindings whose loss is about to be announced
    accepting,  \* the authenticator admits new attempts
    conn,       \* [Connections -> Connection]
    references  \* the runtime's references in the tenant router

socketVars == <<owner, lost, accepting, conn, references>>
vars == <<enrollmentVars, socketVars>>

Steps == {"idle", "resolving", "begin", "challenged", "prove", "select", "verify",
          "open", "request", "operate", "reply", "failed", "closed"}
Connection ==
    [step : Steps, binding : Bindings \cup {Null},
     answered : BOOLEAN,    \* the owner's answer is on its way
     lease : BOOLEAN,       \* BindingCredentialLease, subscribed and not released
     store : BOOLEAN,       \* selectStore's lease of the same runtime
     aborted : BOOLEAN,     \* lease.invalidated
     stopped : BOOLEAN]     \* the connection's own abort signal

Fresh == [step |-> "idle", binding |-> Null, answered |-> FALSE, lease |-> FALSE,
          store |-> FALSE, aborted |-> FALSE, stopped |-> FALSE]

AskingSteps == {"begin", "prove", "verify", "request"}
AuthenticatedSteps == {"select", "verify", "open", "request", "operate", "reply"}
RestingSteps == {"idle", "challenged", "open", "failed"}

Put(c, r) == conn' = [conn EXCEPT ![c] = r]
Cost(r) == (IF r.lease THEN 1 ELSE 0) + (IF r.store THEN 1 ELSE 0)
SocketOnly == UNCHANGED <<enrollmentVars, owner, lost>>

(* current(): checked when a turn resumes, before anything is sent. *)
Current(r) == ~r.stopped /\ ~r.aborted /\ owner # "closed"

(* An error answers the peer if it can, then stops the connection. *)
Failed(r) == [r EXCEPT !.step = "failed", !.answered = FALSE, !.stopped = TRUE]

---------------------------------------------------------------------------
(* hello: the token names a binding; its tenant's runtime is resolved. *)
Hello(c, b) ==
    /\ conn[c].step = "idle" /\ ~conn[c].stopped /\ accepting
    /\ Put(c, [conn[c] EXCEPT !.step = "resolving", !.binding = b])
    /\ SocketOnly /\ UNCHANGED <<accepting, references>>

(* open(): the lease subscribes before the first question; it starts out    *)
(* aborted when the connection or the authenticator already is.  A runtime  *)
(* that is no longer active is given back at once.                          *)
Resolve(c) ==
    /\ conn[c].step = "resolving"
    /\ \/ /\ owner # "closed"
          /\ Put(c, [conn[c] EXCEPT !.step = "begin", !.lease = TRUE,
                                    !.aborted = conn[c].stopped \/ ~accepting])
          /\ references' = references + 1
       \/ Put(c, Failed(conn[c])) /\ UNCHANGED references
    /\ SocketOnly /\ UNCHANGED accepting

(* The owner's queue answers authenticateBindingCredential, or with it      *)
(* verifyConnection, when it is that question's turn.                       *)
OwnerAnswers(c) ==
    /\ conn[c].step \in AskingSteps /\ ~conn[c].answered
    /\ owner = "idle"
    /\ Authorized(conn[c].binding, now)
    /\ Put(c, [conn[c] EXCEPT !.answered = TRUE])
    /\ SocketOnly /\ UNCHANGED <<accepting, references>>

(* A refusal, from the owner or because it is gone.  begin() releases the   *)
(* lease it took; later attempts and connections are released by close().  *)
OwnerRefuses(c) ==
    LET r == conn[c] IN
    /\ r.step \in AskingSteps /\ ~r.answered
    /\ owner = "closed" \/ (owner = "idle" /\ ~Authorized(r.binding, now))
    /\ IF r.step = "begin"
       THEN /\ Put(c, [Failed(r) EXCEPT !.lease = FALSE])
            /\ references' = references - 1
       ELSE Put(c, Failed(r)) /\ UNCHANGED references
    /\ SocketOnly /\ UNCHANGED accepting

(* The rest of begin(): the challenge is issued unless authority moved.     *)
Challenge(c) ==
    LET r == conn[c] IN
    /\ r.step = "begin" /\ r.answered
    /\ IF Current(r) /\ accepting
       THEN Put(c, [r EXCEPT !.step = "challenged", !.answered = FALSE]) /\ UNCHANGED references
       ELSE /\ Put(c, [Failed(r) EXCEPT !.lease = FALSE])
            /\ references' = references - 1
    /\ SocketOnly /\ UNCHANGED accepting

Prove(c) ==
    /\ conn[c].step = "challenged" /\ ~conn[c].stopped
    /\ Put(c, IF Current(conn[c]) THEN [conn[c] EXCEPT !.step = "prove"] ELSE Failed(conn[c]))
    /\ SocketOnly /\ UNCHANGED <<accepting, references>>

(* finish(): the signature verifies, and the authenticator adopts the       *)
(* connection in place of the attempt.                                      *)
Adopt(c) ==
    /\ conn[c].step = "prove" /\ conn[c].answered
    /\ \/ /\ Current(conn[c]) /\ accepting
          /\ Put(c, [conn[c] EXCEPT !.step = "select", !.answered = FALSE])
       \/ Put(c, Failed(conn[c]))   \* also a bad or late signature
    /\ SocketOnly /\ UNCHANGED <<accepting, references>>

(* selectStore: a second lease of the runtime, with its own subscription.   *)
Select(c) ==
    /\ conn[c].step = "select"
    /\ IF owner # "closed"
       THEN /\ references' = references + 1
            /\ Put(c, IF Current(conn[c]) THEN [conn[c] EXCEPT !.step = "verify", !.store = TRUE]
                      ELSE [Failed(conn[c]) EXCEPT !.store = TRUE])
       ELSE Put(c, Failed(conn[c])) /\ UNCHANGED references
    /\ SocketOnly /\ UNCHANGED accepting

(* verifyConnection held: the device is told that it is authenticated. *)
Admit(c) ==
    /\ conn[c].step = "verify" /\ conn[c].answered
    /\ Put(c, IF Current(conn[c]) THEN [conn[c] EXCEPT !.step = "open", !.answered = FALSE]
              ELSE Failed(conn[c]))
    /\ SocketOnly /\ UNCHANGED <<accepting, references>>

(* One request at a time: withAuthority asks again before it is performed. *)
Request(c) ==
    /\ conn[c].step = "open" /\ ~conn[c].stopped
    /\ Put(c, IF Current(conn[c]) THEN [conn[c] EXCEPT !.step = "request"] ELSE Failed(conn[c]))
    /\ SocketOnly /\ UNCHANGED <<accepting, references>>

Perform(c) ==
    /\ conn[c].step = "request" /\ conn[c].answered
    /\ Put(c, IF Current(conn[c]) THEN [conn[c] EXCEPT !.step = "operate", !.answered = FALSE]
              ELSE Failed(conn[c]))
    /\ SocketOnly /\ UNCHANGED <<accepting, references>>

(* The operation runs in the owner's queue and looks its authority up anew. *)
Operate(c) ==
    LET r == conn[c] IN
    /\ r.step = "operate" /\ owner \in {"idle", "closed"}
    /\ Put(c, IF Current(r) /\ Authorized(r.binding, now) THEN [r EXCEPT !.step = "reply"]
              ELSE Failed(r))
    /\ SocketOnly /\ UNCHANGED <<accepting, references>>

Reply(c) ==
    /\ conn[c].step = "reply"
    /\ Put(c, IF Current(conn[c]) THEN [conn[c] EXCEPT !.step = "open"] ELSE Failed(conn[c]))
    /\ SocketOnly /\ UNCHANGED <<accepting, references>>

---------------------------------------------------------------------------
(* The peer leaves, a protocol error, or a timer. *)
Stop(c) ==
    /\ ~conn[c].stopped /\ conn[c].step # "closed"
    /\ Put(c, [conn[c] EXCEPT !.stopped = TRUE, !.aborted = @ \/ conn[c].lease])
    /\ SocketOnly /\ UNCHANGED <<accepting, references>>

(* setTimeout(stop, handshakeTimeoutMs): armed until the socket is open. *)
HandshakeTimeout(c) == conn[c].step \notin {"open", "request", "operate", "reply"} /\ Stop(c)

(* Mutant: a connection gives back the lease its authenticator released. *)
CostAgain(r) == 1 + (IF r.store THEN 1 ELSE 0)

(* What releasing r gives back: each lease releases once. *)
GivesBack(r) == Cost(r)

(* run() after the close event: the pending turn has settled, then the      *)
(* attempt or the authority is closed, and the store's lease released.      *)
Cleanup(c) ==
    LET r == conn[c] IN
    /\ r.stopped /\ r.step \in RestingSteps
    /\ references' = references - GivesBack(r)
    /\ Put(c, [Fresh EXCEPT !.step = "closed", !.stopped = TRUE])
    /\ SocketOnly /\ UNCHANGED accepting

(* The authenticator closes: every lease is invalidated at once ... *)
ProviderCloses ==
    /\ accepting
    /\ accepting' = FALSE
    /\ conn' = [c \in Connections |->
                   [conn[c] EXCEPT !.aborted = @ \/ conn[c].lease,
                                   !.stopped = @ \/ (conn[c].lease /\ conn[c].step \in AuthenticatedSteps)]]
    /\ SocketOnly /\ UNCHANGED references

(* ... and released when its attempt or connection has no question pending. *)
ProviderReleases(c) ==
    /\ ~accepting /\ conn[c].lease /\ conn[c].step \in RestingSteps \cup {"select"}
    /\ Put(c, [conn[c] EXCEPT !.lease = FALSE])
    /\ references' = references - 1
    /\ SocketOnly /\ UNCHANGED accepting

---------------------------------------------------------------------------
(* changeDirectory and revokeBinding: whose authority the commit took. *)
Loses ==
    {b \in Bindings : /\ bindings[b].phase = "confirmed"
                      /\ \/ bindings'[b].phase = "revoked"
                         \/ bindings[b].member \in Active(directory) \ Active(directory')}

(* An operation of the owner commits; what it must announce comes later. *)
OwnerCommits ==
    /\ owner = "idle"
    /\ DirectoryNext \/ BindingNext
    /\ lost' = Loses
    /\ owner' = IF Loses = {} THEN "idle" ELSE "publishing"
    /\ UNCHANGED <<accepting, conn, references>>

(* A write fails, having committed or not: the owner is isolated. *)
OwnerFails ==
    /\ owner = "idle"
    /\ DirectoryNext \/ BindingNext \/ UNCHANGED enrollmentVars
    /\ owner' = "failing"
    /\ UNCHANGED <<lost, accepting, conn, references>>

(* Mutant: before it knows its instance a lease ignores what is announced. *)
HearsKnown(r, who) == r.lease /\ r.step # "begin" /\ r.binding \in who

(* onInvalidation: before it knows its instance a lease heeds every notice. *)
Hears(r, who) == r.lease /\ (r.step = "begin" \/ r.binding \in who)

(* Mutant: a connection waits for its next request to notice. *)
AnnouncedQuietly(who) ==
    conn' = [c \in Connections |-> [conn[c] EXCEPT !.aborted = @ \/ Hears(conn[c], who)]]

(* A notice runs every listener in one turn; an authenticated connection    *)
(* stops its socket there and then.                                         *)
Announced(who) ==
    conn' = [c \in Connections |->
                [conn[c] EXCEPT
                    !.aborted = @ \/ Hears(conn[c], who),
                    !.stopped = @ \/ /\ conn[c].step \in AuthenticatedSteps
                                     /\ conn[c].binding \in who
                                     /\ conn[c].lease \/ conn[c].store]]

Publish ==
    /\ owner = "publishing"
    /\ Announced(lost)
    /\ owner' = "idle" /\ lost' = {}
    /\ UNCHANGED <<enrollmentVars, accepting, references>>

(* release(): "owner-unavailable" reaches every connection; the next        *)
(* operation opens the store again.                                         *)
Release ==
    /\ owner = "failing"
    /\ Announced(Bindings)
    /\ owner' = "idle" /\ lost' = {}
    /\ UNCHANGED <<enrollmentVars, accepting, references>>

RuntimeCloses ==
    /\ owner # "closed"
    /\ Announced(Bindings)
    /\ owner' = "closed" /\ lost' = {}
    /\ UNCHANGED <<enrollmentVars, accepting, references>>

---------------------------------------------------------------------------
Init ==
    /\ EnrollmentInit
    /\ owner = "idle" /\ lost = {}
    /\ accepting = TRUE
    /\ conn = [c \in Connections |-> Fresh]
    /\ references = 0

(* Turns of connection c that wait for the owner's queue, which is a FIFO. *)
Asks(c) == OwnerAnswers(c) \/ OwnerRefuses(c) \/ Operate(c)

(* Turns that its other pending promises bring about. *)
Settles(c) ==
    \/ Resolve(c) \/ Challenge(c) \/ Adopt(c) \/ Select(c) \/ Admit(c)
    \/ Perform(c) \/ Reply(c) \/ Cleanup(c) \/ ProviderReleases(c)

ConnectionNext(c) ==
    \/ Asks(c) \/ Settles(c)
    \/ \E b \in Bindings : Hello(c, b)
    \/ Prove(c) \/ Request(c) \/ Stop(c)

OwnerNext == OwnerCommits \/ OwnerFails \/ Publish \/ Release \/ RuntimeCloses

Next == OwnerNext \/ ProviderCloses \/ \E c \in Connections : ConnectionNext(c)

SafeSpec == Init /\ [][Next]_vars

(* Pending promises settle, a question keeps its place in the queue however  *)
(* often the owner is busy, and the handshake timer fires.                   *)
Fairness ==
    /\ WF_vars(Publish) /\ WF_vars(Release)
    /\ \A c \in Connections :
           SF_vars(Asks(c)) /\ WF_vars(Settles(c)) /\ WF_vars(HandshakeTimeout(c))

FairSpec == SafeSpec /\ Fairness

=============================================================================
