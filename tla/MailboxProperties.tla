-------------------------- MODULE MailboxProperties --------------------------
(***************************************************************************)
(* What the question queue must never get wrong.                           *)
(***************************************************************************)
EXTENDS Mailbox

StoreType == [Requests -> Record \cup {Null}]

OperationType ==
    [pc : {"evict", "seal", "write", "open"}, request : Requests, next : Record,
     then : {"receipt", "hidden", "open", "grant", "sweep"}, by : Executors \cup {Null},
     at : Nat, version : Nat, victim : Requests \cup {Null}, left : Int]

(* Every variable keeps its type. *)
TypeOK ==
    /\ disk \in StoreType /\ memory \in StoreType
    /\ now \in Nat
    /\ access \in [version : Nat, allowed : BOOLEAN]
    /\ current \in OperationType \cup {Idle}
    /\ status \in {"open", "unavailable", "closing", "down"}
    /\ worker \in {"running", "stopped"}
    /\ holds \in [Executors -> [Requests -> Nat]]

(* What is durable can be opened again, at any instant: every record parses   *)
(* and neither bound is exceeded, even by a write that was reported as failed *)
(* and by an enqueue cut off between its eviction and its own write.          *)
MailboxReopens == Opens(disk)

(* An owner that still serves answers from exactly what is durable. *)
ServesDurableRecords == status = "open" => memory = disk

(* A durable reply was written by the executor that held the newest grant,    *)
(* and whose lease had not run out when the reply was authorized.             *)
RepliesComeFromTheHolder ==
    [][\A r \in Requests :
         disk'[r] # disk[r] /\ disk'[r] # Null /\ disk[r] # Null /\ disk[r].reply = Null
           /\ disk'[r].reply # Null =>
             /\ holds[disk'[r].reply][r] = disk[r].version
             /\ disk'[r].updatedAt - disk[r].updatedAt < ExecutionLease]_vars

(* A body leaves the mailbox only under the access it was authorized with,    *)
(* unmoved since, and only while the durable record still holds that body:    *)
(* not after a stop or a purge landed, were it reported as failed.            *)
BodiesLeaveUnderAuthority ==
    [][answer' # answer /\ answer'.kind = "body" =>
         LET r == answer'.request IN
         /\ access.allowed /\ access.version = current.version
         /\ disk[r] # Null /\ disk[r].version = answer'.version
         /\ answer'.body \in {disk[r].question, disk[r].reply} \ {Null}]_vars

(* The queue keeps its promise to every request, on what is durable. *)
Promise == INSTANCE QuestionPromise WITH
    question <- [r \in Requests |-> IF disk[r] = Null THEN Null ELSE disk[r].text],
    reply    <- [r \in Requests |-> IF disk[r] = Null THEN Null ELSE disk[r].answered],
    ended    <- [r \in Requests |-> disk[r] # Null /\ disk[r].state \in Terminal],
    kept     <- [r \in Requests |-> HasBody(disk[r])]

(* One question per identity, answered at most once, never after a stop, and  *)
(* nothing that was dropped comes back: retries, takeovers, evictions, failed *)
(* writes and crashes included.                                               *)
ImplementsQuestionPromise == Promise!Spec

(* A kept reply that neither expired nor lost its access is given up only to  *)
(* make room in a full mailbox, and then the oldest kept reply is.            *)
OnlyTheOldestReplyIsEvicted ==
    [][\A r \in Present(disk) :
         disk[r].reply # Null /\ disk'[r].reply = Null
           /\ now < ExpiresAt[r] /\ access.allowed /\ access.version = current.version =>
             /\ Cardinality(Occupied(disk)) >= MaxRequests
             /\ \A other \in Present(disk) :
                    disk[other].reply # Null => disk[r].updatedAt <= disk[other].updatedAt]_vars

(* While the expiry worker runs, what has expired is erased from storage,     *)
(* questions and kept replies alike, unless the clock is set back first.      *)
ExpiredBodiesErased ==
    \A r \in Requests :
        (HasBody(disk[r]) /\ now >= ExpiresAt[r])
            ~> (~HasBody(disk[r]) \/ now < ExpiresAt[r] \/ worker = "stopped")
=============================================================================
