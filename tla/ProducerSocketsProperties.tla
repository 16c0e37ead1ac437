---------------------- MODULE ProducerSocketsProperties ----------------------
(***************************************************************************)
(* What must hold of the sockets devices keep open to the registry.        *)
(***************************************************************************)
EXTENDS ProducerSockets

Stands(b) == bindings[b].phase = "confirmed" /\ bindings[b].member \in Active(directory)

Usable(r) == /\ r.step \in {"challenged", "prove", "open", "request", "operate", "reply"} \cup AuthenticatedSteps
             /\ ~r.aborted /\ ~r.stopped

(* Once a change has been announced, no connection that can still go on      *)
(* speaks for a device whose binding was revoked or whose member is no       *)
(* longer active: whatever was in flight when authority was lost, even a     *)
(* first authentication, is cut off (binding-producer-auth.ts:98-104).       *)
UsableSocketsAreAuthorized ==
    owner = "idle" => \A c \in Connections : Usable(conn[c]) => Stands(conn[c].binding)

(* The runtime is referenced exactly by the leases that use it, whoever of   *)
(* the peer, the authenticator, the runtime and a failure ends a connection: *)
(* a lease released twice lets the router close a runtime under another      *)
(* connection, one never released keeps it resident for good.                *)
RuntimeHeldByItsUsers ==
    LET holders == {c \in Connections : conn[c].lease}
        stores == {c \in Connections : conn[c].store}
    IN /\ references = Cardinality(holders) + Cardinality(stores)
       /\ \A c \in Connections : Usable(conn[c]) => references > 0

(* A connection whose authority was invalidated does not linger: its socket  *)
(* is closed and its leases are released, without waiting for the peer.      *)
InvalidatedSocketsClose ==
    \A c \in Connections : conn[c].aborted ~> conn[c].step = "closed"

=============================================================================
