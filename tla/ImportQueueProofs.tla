--------------------------- MODULE ImportQueueProofs ---------------------------
(***************************************************************************)
(* Proofs, for any number of imports, targets and calls, that an accepted  *)
(* import settles once, truthfully, and under the authority it was read    *)
(* under.                                                                  *)
(***************************************************************************)
EXTENDS ImportQueueProperties, TLAPS

Times == {0} \cup {1 + Cardinality(S) : S \in SUBSET Imports}

Row == [status : {"none", "queued", "completed", "failed"}, target : Targets \cup {None},
        version : Nat, created : Times, updated : Times]

Call == [pc : {"idle", "queued", "admit", "read", "grant", "check", "send", "wait", "confirm", "released"},
         kind : {"none", "import", "dispatch", "refresh"},
         import : Imports \cup {None}, target : Targets \cup {None}, version : Nat,
         outcome : {"none", "completed", "retry", "wrong"}]

TypeOK ==
    /\ disk \in [Imports -> Row]
    /\ chain \in Seq(Calls)
    /\ calls \in [Calls -> Call]
    /\ access \in [version : Nat, allowed : BOOLEAN]
    /\ receives \in [Targets -> BOOLEAN]
    /\ device \in [Imports -> {"none", "delivered", "imported"}]

(* The stages of a delivery, whose record was selected.                      *)
Delivering == {"read", "grant", "check", "send", "wait", "confirm"}

(* What a call on its way knows of the record it is about.                   *)
CallAgrees(c) ==
    LET call == calls[c]
        row == disk[call.import]
    IN
    /\ call.kind = "import" => call.import \in Imports /\ call.target \in Targets
    /\ call.pc = "admit" => call.kind = "import"
    /\ call.pc \in Delivering =>
           /\ call.kind # "import" /\ call.import \in Imports
           /\ row.target = call.target
           /\ row.status = IF call.kind = "dispatch" THEN "queued" ELSE "completed"
    /\ call.pc = "confirm" /\ call.outcome = "completed" => device[call.import] = "imported"

(* Only one operation runs, which keeps the record it selected from changing *)
(* under it.                                                                 *)
OneRuns == \A c, d \in Running : c = d

QueueInv ==
    /\ TypeOK /\ OneRuns
    /\ \A c \in Calls : CallAgrees(c)
    /\ \A o \in Imports : disk[o].status = "none" => disk[o] = Absent
    /\ CompletedImportsArrived

---------------------------------------------------------------------------
(* Steps *)

(* What ImportsSettleOnce says of a step.                                    *)
SettlesOnce ==
    \A o \in Kept :
        /\ disk'[o].target = disk[o].target /\ disk'[o].version = disk[o].version
        /\ disk[o].status # "queued" => disk'[o] = disk[o]

(* A call goes on; the records stay.                                         *)
LEMMA CallMoves ==
    ASSUME QueueInv, NEW c \in Calls, NEW next \in Call,
           calls' = [calls EXCEPT ![c] = next], UNCHANGED disk,
           chain' \in Seq(Calls), UNCHANGED <<access, receives>>,
           device' \in [Imports -> {"none", "delivered", "imported"}],
           \A o \in Imports : device[o] = "imported" => device'[o] = "imported",
           next.pc \in {"idle", "queued"} \/ c \in Running \/ Running = {},
           CallAgrees(c)'
    PROVE  QueueInv' /\ SettlesOnce
<1>1. TypeOK'
    BY DEF QueueInv, TypeOK
<1>2. calls'[c] = next /\ \A d \in Calls \ {c} : calls'[d] = calls[d]
    BY DEF QueueInv, TypeOK
<1>3. OneRuns'
    BY <1>2 DEF QueueInv, OneRuns, Running
<1>4. \A d \in Calls : CallAgrees(d)'
    <2>1. SUFFICES ASSUME NEW d \in Calls, d # c PROVE CallAgrees(d)'
        OBVIOUS
    <2>2. CallAgrees(d) /\ calls'[d] = calls[d]
        BY <1>2, <2>1 DEF QueueInv
    <2>3. calls[d].pc = "confirm" => calls[d].import \in Imports
        BY <2>2 DEF CallAgrees, Delivering
    <2> QED BY <2>2, <2>3 DEF CallAgrees
<1>5. CompletedImportsArrived'
    BY DEF QueueInv, CompletedImportsArrived
<1> QED BY <1>1, <1>3, <1>4, <1>5 DEF QueueInv, SettlesOnce

LEMMA AwayType == Away \in Call
BY DEF Away, Call

LEMMA NowType ==
    ASSUME NEW field(_)
    PROVE  Now(field) \in Times
<1>1. {o \in Kept : field(o) # 0} \in SUBSET Imports
    BY DEF Kept
<1> QED BY <1>1 DEF Now, Times

LEMMA SettledFacts ==
    ASSUME TypeOK, NEW o \in Imports, NEW status \in {"completed", "failed"}
    PROVE  /\ Settled(o, status) \in Row
           /\ Settled(o, status).status = status
           /\ Settled(o, status).target = disk[o].target
           /\ Settled(o, status).version = disk[o].version
<1> DEFINE at == Now(LAMBDA p : disk[p].updated)
<1>1. at \in Times
    BY NowType
<1>2. Settled(o, status) = [disk[o] EXCEPT !.status = status, !.updated = at]
    BY DEF Settled
<1>3. disk[o] \in Row
    BY DEF TypeOK
<1> HIDE DEF at
<1> QED BY <1>1, <1>2, <1>3 DEF Row

(* A record is given its end, or the write fails; the call is over, but for  *)
(* what it tells the device.                                                 *)
LEMMA Settling ==
    ASSUME QueueInv, NEW c \in Running, c \in Calls, calls[c].pc \in Delivering, calls[c].kind = "dispatch",
           NEW status \in {"completed", "failed"},
           status = "completed" => device[calls[c].import] = "imported",
           disk' \in {disk, [disk EXCEPT ![calls[c].import] = Settled(calls[c].import, status)]},
           NEW next \in Call, calls' = [calls EXCEPT ![c] = next], next.pc \in {"idle", "released"},
           next.kind # "import",
           UNCHANGED <<chain, access, receives, device>>
    PROVE  QueueInv' /\ SettlesOnce
<1> DEFINE o == calls[c].import
           row == Settled(o, status)
<1>1. o \in Imports /\ disk[o].status = "queued"
    BY DEF QueueInv, CallAgrees
<1>2. row \in Row /\ row.status = status /\ row.target = disk[o].target /\ row.version = disk[o].version
    BY <1>1, SettledFacts DEF QueueInv
<1> HIDE DEF row
<1>3. /\ disk' \in [Imports -> Row]
      /\ \A p \in Imports \ {o} : disk'[p] = disk[p]
      /\ disk'[o] \in {disk[o], row}
    BY <1>1, <1>2 DEF QueueInv, TypeOK, row
<1> HIDE DEF o
<1>4. TypeOK'
    BY <1>3 DEF QueueInv, TypeOK
<1>5. calls'[c] = next /\ \A d \in Calls \ {c} : calls'[d] = calls[d] /\ d \notin Running
    BY DEF QueueInv, TypeOK, OneRuns, Running
<1>6. OneRuns'
    BY <1>5 DEF OneRuns, Running
<1>7. \A d \in Calls : CallAgrees(d)'
    <2>1. CallAgrees(c)'
        BY <1>5 DEF CallAgrees, Delivering
    <2>2. ASSUME NEW d \in Calls \ {c} PROVE CallAgrees(d)'
        <3>1. calls'[d] = calls[d] /\ calls[d].pc \in {"idle", "queued"} /\ CallAgrees(d)
            BY <1>5 DEF Running, QueueInv
        <3> QED BY <3>1 DEF CallAgrees, Delivering
    <2> QED BY <2>1, <2>2
<1>8. CompletedImportsArrived'
    BY <1>1, <1>2, <1>3 DEF QueueInv, CompletedImportsArrived, o
<1>9. \A p \in Imports : disk'[p].status = "none" => disk'[p] = Absent
    BY <1>1, <1>2, <1>3 DEF QueueInv
<1>10. SettlesOnce
    BY <1>1, <1>2, <1>3 DEF SettlesOnce, Kept
<1> QED BY <1>4, <1>6, <1>7, <1>8, <1>9, <1>10 DEF QueueInv

(* A call that only ends, whatever it was at.                                *)
LEMMA CallEnds ==
    ASSUME QueueInv, NEW c \in Calls, Ends(c), UNCHANGED <<disk, access, receives, device>>,
           chain' \in Seq(Calls)
    PROVE  QueueInv' /\ SettlesOnce
<1>1. calls' = [calls EXCEPT ![c] = Away] /\ Away \in Call /\ Away.pc = "idle"
    BY AwayType DEF Ends, Becomes, Away
<1>2. CallAgrees(c)'
    <2>1. calls'[c] = Away
        BY <1>1 DEF QueueInv, TypeOK
    <2> QED BY <2>1 DEF CallAgrees, Away, Delivering
<1> QED BY <1>1, <1>2, CallMoves DEF QueueInv, TypeOK

LEMMA RefuseStep ==
    ASSUME QueueInv, NEW c \in Calls, calls[c].pc \in Delivering, Refuse(c),
           UNCHANGED <<chain, access, receives, device>>
    PROVE  QueueInv' /\ SettlesOnce
<1>1. CASE calls[c].kind = "dispatch"
    <2>1. disk' \in {disk, [disk EXCEPT ![calls[c].import] = Settled(calls[c].import, "failed")]}
        BY <1>1 DEF Refuse, Put, PutDone, PutFails
    <2>2. calls' = [calls EXCEPT ![c] = Away] /\ Away \in Call /\ Away.pc = "idle" /\ Away.kind = "none"
        BY AwayType DEF Refuse, Ends, Becomes, Away
    <2>3. c \in Running
        BY DEF Running, Delivering
    <2> QED BY <1>1, <2>1, <2>2, <2>3, Settling
<1>2. CASE calls[c].kind # "dispatch"
    BY <1>2, CallEnds DEF Refuse, QueueInv, TypeOK
<1> QED BY <1>1, <1>2

(* A call goes to its next stage and remembers what it had.                  *)
LEMMA StageStep ==
    ASSUME QueueInv, NEW c \in Calls, calls[c].pc \in Delivering,
           NEW next \in Call, calls' = [calls EXCEPT ![c] = next],
           next.kind = calls[c].kind, next.import = calls[c].import, next.target = calls[c].target,
           next.pc \in (Delivering \ {"confirm"}) \cup {"released"},
           UNCHANGED <<disk, chain, access, receives>>,
           device' \in [Imports -> {"none", "delivered", "imported"}],
           \A o \in Imports : device[o] = "imported" => device'[o] = "imported"
    PROVE  QueueInv' /\ SettlesOnce
<1>1. CallAgrees(c)'
    <2>1. calls'[c] = next /\ CallAgrees(c)
        BY DEF QueueInv, TypeOK
    <2> QED BY <2>1 DEF CallAgrees, Delivering
<1>2. c \in Running
    BY DEF Running, Delivering
<1> QED BY <1>1, <1>2, CallMoves DEF QueueInv, TypeOK

---------------------------------------------------------------------------
(* The actions *)

LEMMA AtType ==
    ASSUME TypeOK, NEW c \in Calls,
           NEW pc \in {"queued", "admit", "read", "grant", "check", "send", "wait", "confirm", "released"}
    PROVE  /\ At(c, pc) \in Call /\ At(c, pc).pc = pc
           /\ At(c, pc).kind = calls[c].kind /\ At(c, pc).import = calls[c].import
           /\ At(c, pc).target = calls[c].target /\ At(c, pc).outcome = calls[c].outcome
           /\ At(c, pc).version = calls[c].version
<1>1. calls[c] \in Call
    BY DEF TypeOK
<1> QED BY <1>1 DEF At, Call

LEMMA AskStep ==
    ASSUME QueueInv, NEW c \in Calls, Ask(c)
    PROVE  QueueInv' /\ SettlesOnce
<1>1. CASE \E t \in Targets, o \in Imports : AskImport(c, o, t)
    <2>1. PICK t \in Targets, o \in Imports : AskImport(c, o, t)
        BY <1>1
    <2> DEFINE next == [Away EXCEPT !.pc = "queued", !.kind = "import", !.import = o, !.target = t,
                                    !.version = access.version]
    <2>2. access.version \in Nat
        BY DEF QueueInv, TypeOK
    <2>3. next \in Call /\ next.pc = "queued" /\ next.kind = "import" /\ next.import = o /\ next.target = t
        BY <2>2, AwayType DEF Call
    <2>4. calls' = [calls EXCEPT ![c] = next] /\ UNCHANGED <<disk, access, receives, device>>
          /\ chain' \in Seq(Calls)
        BY <2>1 DEF AskImport, Becomes, authority, QueueInv, TypeOK
    <2> HIDE DEF next
    <2>5. CallAgrees(c)'
        <3>1. calls'[c] = next
            BY <2>4 DEF QueueInv, TypeOK
        <3> QED BY <2>3, <3>1 DEF CallAgrees, Delivering
    <2> QED BY <2>3, <2>4, <2>5, CallMoves DEF QueueInv, TypeOK
<1>2. CASE \E t \in Targets, kind \in {"dispatch", "refresh"} : AskAsDevice(c, kind, t)
    <2>1. PICK t \in Targets, kind \in {"dispatch", "refresh"} : AskAsDevice(c, kind, t)
        BY <1>2
    <2> DEFINE next == [Away EXCEPT !.pc = "queued", !.kind = kind, !.target = t]
    <2>3. next \in Call /\ next.pc = "queued" /\ next.kind = kind
        BY AwayType DEF Call
    <2>4. calls' = [calls EXCEPT ![c] = next] /\ UNCHANGED <<disk, access, receives, device>>
          /\ chain' \in Seq(Calls)
        BY <2>1 DEF AskAsDevice, Becomes, authority, QueueInv, TypeOK
    <2> HIDE DEF next
    <2>5. CallAgrees(c)'
        <3>1. calls'[c] = next
            BY <2>4 DEF QueueInv, TypeOK
        <3> QED BY <2>3, <3>1 DEF CallAgrees, Delivering
    <2> QED BY <2>3, <2>4, <2>5, CallMoves DEF QueueInv, TypeOK
<1> QED BY <1>1, <1>2 DEF Ask

LEMMA TurnStep ==
    ASSUME QueueInv, NEW c \in Calls, Turn(c)
    PROVE  QueueInv' /\ SettlesOnce
<1>1. /\ Running = {} /\ UNCHANGED <<disk, access, receives, device>> /\ chain' \in Seq(Calls)
    BY DEF Turn, Begin, authority, QueueInv, TypeOK
<1>2. CASE Ends(c)
    BY <1>1, <1>2, CallEnds
<1>3. CASE calls[c].kind = "import" /\ Becomes(c, At(c, "admit"))
    <2>1. calls' = [calls EXCEPT ![c] = At(c, "admit")] /\ At(c, "admit") \in Call
          /\ At(c, "admit").pc = "admit" /\ At(c, "admit").kind = "import"
        BY <1>3, AtType DEF Becomes, QueueInv
    <2>2. CallAgrees(c)'
        <3>1. calls'[c] = At(c, "admit") /\ CallAgrees(c)
            BY <2>1 DEF QueueInv, TypeOK
        <3> QED BY <1>3, <2>1, <3>1, AtType DEF CallAgrees, Delivering, QueueInv
    <2> QED BY <1>1, <2>1, <2>2, CallMoves DEF QueueInv, TypeOK
<1>4. CASE \E o \in Selected(calls[c].kind, calls[c].target) :
              calls[c].kind # "import" /\ Becomes(c, [At(c, "read") EXCEPT !.import = o])
    <2>1. PICK o \in Selected(calls[c].kind, calls[c].target) :
              calls[c].kind # "import" /\ Becomes(c, [At(c, "read") EXCEPT !.import = o])
        BY <1>4
    <2>2. /\ o \in Imports /\ disk[o].target = calls[c].target
          /\ disk[o].status = IF calls[c].kind = "dispatch" THEN "queued" ELSE "completed"
        BY DEF Selected, For, Kept
    <2> DEFINE next == [At(c, "read") EXCEPT !.import = o]
    <2>3. /\ next \in Call /\ next.pc = "read" /\ next.kind = calls[c].kind
          /\ next.import = o /\ next.target = calls[c].target
        <3>1. At(c, "read") \in Call /\ At(c, "read").pc = "read" /\ At(c, "read").kind = calls[c].kind
              /\ At(c, "read").target = calls[c].target
            BY AtType DEF QueueInv
        <3> QED BY <2>2, <3>1 DEF Call
    <2>4. calls' = [calls EXCEPT ![c] = next]
        BY <2>1 DEF Becomes
    <2> HIDE DEF next
    <2>5. CallAgrees(c)'
        <3>1. calls'[c] = next
            BY <2>4 DEF QueueInv, TypeOK
        <3> QED BY <1>1, <2>1, <2>2, <2>3, <3>1 DEF CallAgrees, Delivering
    <2> QED BY <1>1, <2>3, <2>4, <2>5, CallMoves DEF QueueInv, TypeOK
<1> QED BY <1>2, <1>3, <1>4 DEF Turn, Begin

LEMMA AdmitStep ==
    ASSUME QueueInv, NEW c \in Calls, Admit(c)
    PROVE  QueueInv' /\ SettlesOnce
<1> DEFINE o == calls[c].import
           row == [status |-> "queued", target |-> calls[c].target, version |-> calls[c].version,
                   created |-> Now(LAMBDA p : disk[p].created), updated |-> 0]
<1>1. o \in Imports /\ calls[c].target \in Targets /\ calls[c] \in Call /\ c \in Running
    BY DEF Admit, QueueInv, CallAgrees, TypeOK, Running
<1>2. CASE UNCHANGED disk
    BY <1>2, CallEnds DEF Admit, authority, QueueInv, TypeOK
<1>3. CASE o \notin Kept /\ disk' = [disk EXCEPT ![o] = row]
    <2>1. row \in Row /\ row.status = "queued"
        <3>1. Now(LAMBDA p : disk[p].created) \in Times
            BY NowType
        <3> QED BY <1>1, <3>1 DEF Row, Call, Times
    <2> HIDE DEF row
    <2>2. /\ disk' \in [Imports -> Row] /\ disk'[o] = row
          /\ \A p \in Imports \ {o} : disk'[p] = disk[p]
        BY <1>1, <1>3, <2>1 DEF QueueInv, TypeOK
    <2>3. disk[o].status = "none" /\ Absent.status = "none"
        BY <1>1, <1>3 DEF Kept, Absent
    <2> HIDE DEF o
    <2>4. /\ calls' = [calls EXCEPT ![c] = Away] /\ UNCHANGED <<chain, access, receives, device>>
          /\ Away \in Call /\ Away.pc = "idle" /\ Away.kind = "none"
        BY AwayType DEF Admit, Ends, Becomes, authority, Away
    <2>5. TypeOK'
        BY <2>2, <2>4 DEF QueueInv, TypeOK
    <2>6. calls'[c] = Away /\ \A d \in Calls \ {c} : calls'[d] = calls[d] /\ d \notin Running
        BY <1>1, <2>4 DEF QueueInv, TypeOK, OneRuns, Running
    <2>7. OneRuns'
        BY <2>4, <2>6 DEF OneRuns, Running
    <2>8. \A d \in Calls : CallAgrees(d)'
        <3>1. CallAgrees(c)'
            BY <2>4, <2>6 DEF CallAgrees, Delivering
        <3>2. ASSUME NEW d \in Calls \ {c} PROVE CallAgrees(d)'
            <4>1. calls'[d] = calls[d] /\ calls[d].pc \in {"idle", "queued"} /\ CallAgrees(d)
                BY <2>6 DEF Running, QueueInv
            <4> QED BY <4>1 DEF CallAgrees, Delivering
        <3> QED BY <3>1, <3>2
    <2>9. CompletedImportsArrived' /\ (\A p \in Imports : disk'[p].status = "none" => disk'[p] = Absent)
        BY <2>1, <2>2, <2>4 DEF QueueInv, CompletedImportsArrived
    <2>10. SettlesOnce
        BY <1>3, <2>2 DEF SettlesOnce, Kept, o
    <2> QED BY <2>5, <2>7, <2>8, <2>9, <2>10 DEF QueueInv
<1> QED BY <1>2, <1>3 DEF Admit, Put, PutDone, PutFails

LEMMA DeliveryStep ==
    ASSUME QueueInv, NEW c \in Calls, Read(c) \/ Grant(c) \/ Check(c) \/ Send(c)
    PROVE  QueueInv' /\ SettlesOnce
<1>1. /\ calls[c].pc \in Delivering /\ UNCHANGED <<chain, access, receives>>
      /\ device' \in [Imports -> {"none", "delivered", "imported"}]
      /\ \A o \in Imports : device[o] = "imported" => device'[o] = "imported"
    BY DEF Read, Grant, Check, Send, Delivering, authority, QueueInv, TypeOK
<1>2. CASE Refuse(c) /\ UNCHANGED device
    BY <1>1, <1>2, RefuseStep
<1>3. CASE Becomes(c, [At(c, "grant") EXCEPT !.version = access.version]) /\ UNCHANGED disk
    <2> DEFINE next == [At(c, "grant") EXCEPT !.version = access.version]
    <2>1. next \in Call /\ next.pc = "grant" /\ next.kind = calls[c].kind
          /\ next.import = calls[c].import /\ next.target = calls[c].target
        <3>1. At(c, "grant") \in Call /\ At(c, "grant").pc = "grant" /\ At(c, "grant").kind = calls[c].kind
              /\ At(c, "grant").import = calls[c].import /\ At(c, "grant").target = calls[c].target
            BY AtType DEF QueueInv
        <3>2. access.version \in Nat
            BY DEF QueueInv, TypeOK
        <3> QED BY <3>1, <3>2 DEF Call
    <2>2. calls' = [calls EXCEPT ![c] = next]
        BY <1>3 DEF Becomes
    <2> HIDE DEF next
    <2> QED BY <1>1, <1>3, <2>1, <2>2, StageStep DEF Delivering
<1>4. CASE \E pc \in {"check", "send", "wait"} : Becomes(c, At(c, pc)) /\ UNCHANGED disk
    <2>1. PICK pc \in {"check", "send", "wait"} : Becomes(c, At(c, pc)) /\ UNCHANGED disk
        BY <1>4
    <2>2. At(c, pc) \in Call /\ At(c, pc).pc = pc /\ At(c, pc).kind = calls[c].kind
          /\ At(c, pc).import = calls[c].import /\ At(c, pc).target = calls[c].target
        BY AtType DEF QueueInv
    <2> QED BY <1>1, <2>1, <2>2, StageStep DEF Becomes, Delivering
<1> QED BY <1>2, <1>3, <1>4 DEF Read, Grant, Check, Send

LEMMA AnswerStep ==
    ASSUME QueueInv, NEW c \in Calls, NEW outcome \in {"completed", "retry", "wrong"}, Answer(c, outcome)
    PROVE  QueueInv' /\ SettlesOnce
<1> DEFINE next == [At(c, "confirm") EXCEPT !.outcome = outcome]
<1>1. next \in Call /\ next.pc = "confirm" /\ next.kind = calls[c].kind /\ next.outcome = outcome
      /\ next.import = calls[c].import /\ next.target = calls[c].target
    <2>1. At(c, "confirm") \in Call /\ At(c, "confirm").pc = "confirm"
          /\ At(c, "confirm").kind = calls[c].kind
          /\ At(c, "confirm").import = calls[c].import /\ At(c, "confirm").target = calls[c].target
        BY AtType DEF QueueInv
    <2> QED BY <2>1 DEF Call
<1>2. /\ calls' = [calls EXCEPT ![c] = next] /\ calls[c].pc = "wait"
      /\ UNCHANGED <<disk, chain, access, receives, device>>
    BY DEF Answer, Becomes, authority
<1> HIDE DEF next
<1>3. CallAgrees(c)'
    <2>1. calls'[c] = next /\ CallAgrees(c)
        BY <1>2 DEF QueueInv, TypeOK
    <2> QED BY <1>1, <1>2, <2>1 DEF CallAgrees, Delivering, Answer
<1> QED BY <1>1, <1>2, <1>3, CallMoves DEF QueueInv, TypeOK, Running

LEMMA ConfirmStep ==
    ASSUME QueueInv, NEW c \in Calls, Confirm(c)
    PROVE  QueueInv' /\ SettlesOnce
<1>1. calls[c].pc = "confirm" /\ c \in Running /\ UNCHANGED <<chain, access, receives, device>>
    BY DEF Confirm, Running, authority
<1>2. /\ Away \in Call /\ Away.pc = "idle" /\ Away.kind = "none"
      /\ At(c, "released") \in Call /\ At(c, "released").pc = "released"
      /\ At(c, "released").kind = calls[c].kind /\ At(c, "released").import = calls[c].import
      /\ At(c, "released").target = calls[c].target
    BY AwayType, AtType DEF Away, QueueInv
<1>3. ASSUME NEW status \in {"completed", "failed"}, calls[c].kind = "dispatch", Settles(c, status),
             status = "completed" => device[calls[c].import] = "imported"
      PROVE  QueueInv' /\ SettlesOnce
    <2>1. disk' \in {disk, [disk EXCEPT ![calls[c].import] = Settled(calls[c].import, status)]}
        BY <1>3 DEF Settles, PutDone, PutFails
    <2>2. calls' = [calls EXCEPT ![c] = Away] \/ calls' = [calls EXCEPT ![c] = At(c, "released")]
        BY <1>3 DEF Settles, Ends, Becomes
    <2>3. CASE calls' = [calls EXCEPT ![c] = Away]
        BY <1>1, <1>2, <1>3, <2>1, <2>3, Settling DEF Delivering
    <2>4. CASE calls' = [calls EXCEPT ![c] = At(c, "released")]
        BY <1>1, <1>2, <1>3, <2>1, <2>4, Settling DEF Delivering
    <2> QED BY <2>2, <2>3, <2>4
<1>4. CASE calls[c].kind = "dispatch" /\ calls[c].outcome = "completed" /\ Settles(c, "completed")
    <2>1. device[calls[c].import] = "imported"
        BY <1>1, <1>4 DEF QueueInv, CallAgrees
    <2> QED BY <1>3, <1>4, <2>1
<1>5. CASE calls[c].kind = "dispatch" /\ Settles(c, "failed")
    BY <1>3, <1>5
<1>6. CASE /\ calls[c].kind = "dispatch" /\ Ends(c)
           /\ Put(calls[c].import, Settled(calls[c].import, "failed"))
    BY <1>1, <1>6, RefuseStep DEF Refuse, Delivering
<1>7. CASE Becomes(c, At(c, "released")) /\ UNCHANGED <<disk, owner>>
    BY <1>1, <1>2, <1>7, StageStep DEF Becomes, Delivering, QueueInv, TypeOK
<1>8. CASE Refuse(c)
    BY <1>1, <1>8, RefuseStep DEF Delivering
<1> QED BY <1>4, <1>5, <1>6, <1>7, <1>8 DEF Confirm, Record

LEMMA WorldStep ==
    ASSUME QueueInv,
           \/ \E o \in Imports : DeviceImports(o)
           \/ \E t \in Targets : BindingRevoked(t)
           \/ AccessMoves \/ Close \/ Closed \/ Crash \/ Reopen
           \/ UNCHANGED vars
    PROVE  QueueInv' /\ SettlesOnce
<1>1. UNCHANGED disk
    BY DEF DeviceImports, BindingRevoked, AccessMoves, Close, Closed, Crash, Reopen, vars
<1>2. /\ device' \in [Imports -> {"none", "delivered", "imported"}]
      /\ \A o \in Imports : device[o] = "imported" => device'[o] = "imported"
    BY DEF DeviceImports, BindingRevoked, AccessMoves, Close, Closed, Crash, Reopen, vars, QueueInv, TypeOK
<1>3. access' \in [version : Nat, allowed : BOOLEAN]
    BY DEF DeviceImports, BindingRevoked, AccessMoves, Close, Closed, Crash, Reopen, vars, authority,
           QueueInv, TypeOK
<1>4. receives' \in [Targets -> BOOLEAN]
    BY DEF DeviceImports, BindingRevoked, AccessMoves, Close, Closed, Crash, Reopen, vars, authority,
           QueueInv, TypeOK
<1>5. CASE Crash
    <2>1. calls' = [c \in Calls |-> Away] /\ chain' = <<>> /\ UNCHANGED <<access, receives, device>>
        BY <1>5 DEF Crash, authority
    <2>2. Away \in Call /\ Away.pc = "idle" /\ Away.kind = "none"
        BY AwayType DEF Away
    <2>3. TypeOK'
        BY <1>1, <2>1, <2>2 DEF QueueInv, TypeOK
    <2>4. OneRuns' /\ \A c \in Calls : CallAgrees(c)'
        BY <2>1, <2>2 DEF OneRuns, Running, CallAgrees, Delivering
    <2> QED BY <1>1, <2>1, <2>3, <2>4 DEF QueueInv, CompletedImportsArrived, SettlesOnce
<1>6. CASE UNCHANGED <<calls, chain>>
    <2>1. TypeOK'
        BY <1>1, <1>2, <1>3, <1>4, <1>6 DEF QueueInv, TypeOK
    <2>2. OneRuns'
        BY <1>6 DEF QueueInv, OneRuns, Running
    <2>3. \A c \in Calls : CallAgrees(c)'
        <3>1. SUFFICES ASSUME NEW c \in Calls PROVE CallAgrees(c)'
            OBVIOUS
        <3>2. CallAgrees(c) /\ calls'[c] = calls[c]
            BY <1>6 DEF QueueInv
        <3> QED BY <1>1, <1>2, <3>2 DEF CallAgrees, Delivering
    <2>4. CompletedImportsArrived'
        BY <1>1, <1>2 DEF QueueInv, CompletedImportsArrived
    <2> QED BY <1>1, <2>1, <2>2, <2>3, <2>4 DEF QueueInv, SettlesOnce
<1> QED BY <1>5, <1>6 DEF DeviceImports, BindingRevoked, AccessMoves, Close, Closed, Reopen, vars

LEMMA QueueStep ==
    ASSUME QueueInv, [Next]_vars
    PROVE  QueueInv' /\ SettlesOnce
<1>1. ASSUME NEW c \in Calls, Ask(c) PROVE QueueInv' /\ SettlesOnce
    BY <1>1, AskStep
<1>2. ASSUME NEW c \in Calls, Step(c) PROVE QueueInv' /\ SettlesOnce
    <2>1. CASE Turn(c)
        BY <2>1, TurnStep
    <2>2. CASE Admit(c)
        BY <2>2, AdmitStep
    <2>3. CASE Read(c) \/ Grant(c) \/ Check(c) \/ Send(c)
        BY <2>3, DeliveryStep
    <2>4. CASE Timeout(c) \/ Released(c)
        BY <2>4, CallEnds DEF Timeout, Released, authority, QueueInv, TypeOK
    <2>5. CASE Confirm(c)
        BY <2>5, ConfirmStep
    <2> QED BY <1>2, <2>1, <2>2, <2>3, <2>4, <2>5 DEF Step
<1>3. ASSUME NEW c \in Calls, Lost(c) PROVE QueueInv' /\ SettlesOnce
    BY <1>3, CallEnds DEF Lost, authority, QueueInv, TypeOK
<1>4. ASSUME NEW c \in Calls, NEW outcome \in {"completed", "retry", "wrong"}, Answer(c, outcome)
      PROVE  QueueInv' /\ SettlesOnce
    BY <1>4, AnswerStep
<1>5. CASE \/ \E o \in Imports : DeviceImports(o)
           \/ \E t \in Targets : BindingRevoked(t)
           \/ AccessMoves \/ Close \/ Closed \/ Crash \/ Reopen
           \/ UNCHANGED vars
    BY <1>5, WorldStep
<1> QED BY <1>1, <1>2, <1>3, <1>4, <1>5 DEF Next

(* Nothing but a confirmation releases.                                      *)
LEMMA OnlyConfirmReleases ==
    ASSUME QueueInv, [Next]_vars, NEW c \in Calls,
           calls[c].pc # "released", calls'[c].pc = "released"
    PROVE  Confirm(c)
<1>1. SUFFICES ASSUME ~Confirm(c) PROVE FALSE
    OBVIOUS
<1>2. ASSUME NEW d \in Calls, NEW next, calls' = [calls EXCEPT ![d] = next], d # c \/ next.pc # "released"
      PROVE  FALSE
    BY <1>2 DEF QueueInv, TypeOK
<1>3. Away.pc = "idle"
    BY DEF Away
<1>4. ASSUME NEW d \in Calls, Ends(d) PROVE FALSE
    BY <1>2, <1>3, <1>4 DEF Ends, Becomes
<1>5. ASSUME NEW d \in Calls, NEW pc \in {"admit", "read", "grant", "check", "send", "wait", "confirm"},
             Becomes(d, At(d, pc))
      PROVE  FALSE
    <2>1. At(d, pc).pc = pc
        BY AtType DEF QueueInv
    <2> QED BY <1>2, <1>5, <2>1 DEF Becomes
<1>6. ASSUME NEW d \in Calls, Ask(d) PROVE FALSE
    <2>1. ASSUME NEW kind, NEW o, NEW t, NEW v,
                 Becomes(d, [Away EXCEPT !.pc = "queued", !.kind = kind, !.import = o, !.target = t,
                                         !.version = v])
          PROVE  FALSE
        <3>1. [Away EXCEPT !.pc = "queued", !.kind = kind, !.import = o, !.target = t,
                           !.version = v].pc = "queued"
            BY DEF Away
        <3> QED BY <1>2, <2>1, <3>1 DEF Becomes
    <2>2. ASSUME NEW kind, NEW t,
                 Becomes(d, [Away EXCEPT !.pc = "queued", !.kind = kind, !.target = t])
          PROVE  FALSE
        <3>1. [Away EXCEPT !.pc = "queued", !.kind = kind, !.target = t].pc = "queued"
            BY DEF Away
        <3> QED BY <1>2, <2>2, <3>1 DEF Becomes
    <2> QED BY <1>6, <2>1, <2>2 DEF Ask, AskImport, AskAsDevice
<1>7. ASSUME NEW d \in Calls, Turn(d) PROVE FALSE
    <2>1. ASSUME NEW o, Becomes(d, [At(d, "read") EXCEPT !.import = o]) PROVE FALSE
        <3>1. At(d, "read") \in Call /\ At(d, "read").pc = "read"
            BY AtType DEF QueueInv
        <3>2. [At(d, "read") EXCEPT !.import = o].pc = "read"
            BY <3>1 DEF Call
        <3> QED BY <1>2, <2>1, <3>2 DEF Becomes
    <2> QED BY <1>4, <1>5, <1>7, <2>1 DEF Turn, Begin
<1>8. ASSUME NEW d \in Calls, Admit(d) \/ Timeout(d) \/ Released(d) \/ Lost(d) PROVE FALSE
    BY <1>4, <1>8 DEF Admit, Timeout, Released, Lost
<1>9. ASSUME NEW d \in Calls, Read(d) \/ Grant(d) \/ Check(d) \/ Send(d) PROVE FALSE
    <2>1. ASSUME Becomes(d, [At(d, "grant") EXCEPT !.version = access.version]) PROVE FALSE
        <3>1. At(d, "grant") \in Call /\ At(d, "grant").pc = "grant"
            BY AtType DEF QueueInv
        <3>2. [At(d, "grant") EXCEPT !.version = access.version].pc = "grant"
            BY <3>1 DEF Call
        <3> QED BY <1>2, <2>1, <3>2 DEF Becomes
    <2> QED BY <1>4, <1>5, <1>9, <2>1 DEF Read, Grant, Check, Send, Refuse
<1>10. ASSUME NEW d \in Calls, NEW outcome, Answer(d, outcome) PROVE FALSE
    <2>1. At(d, "confirm") \in Call /\ At(d, "confirm").pc = "confirm"
        BY AtType DEF QueueInv
    <2>2. [At(d, "confirm") EXCEPT !.outcome = outcome].pc = "confirm"
        BY <2>1 DEF Call
    <2> QED BY <1>2, <1>10, <2>2 DEF Answer, Becomes
<1>11. ASSUME NEW d \in Calls, Confirm(d) PROVE FALSE
    <2>1. d # c
        BY <1>1, <1>11
    <2> QED BY <1>2, <1>4, <1>11, <2>1 DEF Confirm, Record, Settles, Refuse, Becomes
<1>12. CASE \/ \E o \in Imports : DeviceImports(o)
            \/ \E t \in Targets : BindingRevoked(t)
            \/ AccessMoves \/ Close \/ Closed \/ Crash \/ Reopen
            \/ UNCHANGED vars
    <2>1. calls' = calls \/ calls' = [d \in Calls |-> Away]
        BY <1>12 DEF DeviceImports, BindingRevoked, AccessMoves, Close, Closed, Crash, Reopen, vars
    <2> QED BY <1>3, <2>1
<1> QED BY <1>6, <1>7, <1>8, <1>9, <1>10, <1>11, <1>12 DEF Next, Step

(* What TakenAsAuthorized says of a step.                                    *)
TakenFor(c) ==
    LET o == calls[c].import IN
    /\ calls[c].pc # "released" /\ calls'[c].pc = "released"
    /\ calls[c].kind = "dispatch" => disk[o].status = "queued" /\ disk'[o].status = "completed"
    => /\ access.allowed /\ receives[calls[c].target]
       /\ disk[o].version <= calls[c].version /\ calls[c].version = access.version

LEMMA TakenStep ==
    ASSUME QueueInv, [Next]_vars, NEW c \in Calls
    PROVE  TakenFor(c)
<1> DEFINE o == calls[c].import
<1>1. SUFFICES ASSUME calls[c].pc # "released", calls'[c].pc = "released",
                      calls[c].kind = "dispatch" => disk[o].status = "queued" /\ disk'[o].status = "completed"
               PROVE  /\ access.allowed /\ receives[calls[c].target]
                      /\ disk[o].version <= calls[c].version /\ calls[c].version = access.version
    BY DEF TakenFor
<1>2. Confirm(c)
    BY <1>1, OnlyConfirmReleases
<1>3. /\ calls[c].pc = "confirm" /\ o \in Imports /\ disk[o].target = calls[c].target
      /\ disk[o].version \in Nat /\ access.version \in Nat /\ disk \in [Imports -> Row]
    <2>1. o \in Imports /\ disk[o].target = calls[c].target /\ calls[c].pc = "confirm"
        BY <1>2 DEF Confirm, QueueInv, CallAgrees, Delivering
    <2> QED BY <2>1 DEF QueueInv, TypeOK, Row
<1>4. AsRead(c)
    <2>1. SUFFICES ASSUME ~AsRead(c) PROVE FALSE
        OBVIOUS
    <2>2. CASE calls[c].kind = "dispatch" /\ Settles(c, "failed")
        <3>1. Settled(o, "failed").status = "failed"
            BY <1>3, SettledFacts DEF QueueInv
        <3>2. CASE PutDone(o, Settled(o, "failed"))
            <4>1. disk'[o] = Settled(o, "failed")
                BY <1>3, <3>2 DEF PutDone
            <4> QED BY <1>1, <2>2, <3>1, <4>1
        <3>3. CASE Ends(c)
            <4>1. calls'[c] = Away
                BY <3>3 DEF Ends, Becomes, QueueInv, TypeOK
            <4> QED BY <1>1, <4>1 DEF Away
        <3> QED BY <2>2, <3>2, <3>3 DEF Settles
    <2>3. CASE Refuse(c)
        <3>1. calls'[c] = Away
            BY <2>3 DEF Refuse, Ends, Becomes, QueueInv, TypeOK
        <3> QED BY <1>1, <3>1 DEF Away
    <2> QED BY <1>2, <2>1, <2>2, <2>3 DEF Confirm
<1> QED BY <1>3, <1>4 DEF AsRead, Authorized

LEMMA QueueInit == Init => QueueInv
<1> SUFFICES ASSUME Init PROVE QueueInv
    OBVIOUS
<1>1. Absent \in Row /\ Absent.status = "none"
    BY DEF Absent, Row, Times
<1>2. Away \in Call /\ Away.pc = "idle" /\ Away.kind = "none"
    BY AwayType DEF Away
<1>3. TypeOK
    BY <1>1, <1>2 DEF Init, TypeOK
<1>4. OneRuns /\ \A c \in Calls : CallAgrees(c)
    BY <1>2 DEF Init, OneRuns, Running, CallAgrees, Delivering
<1> QED BY <1>1, <1>3, <1>4 DEF QueueInv, Init, CompletedImportsArrived

---------------------------------------------------------------------------
(* The invariant: types, one operation at a time, and what a delivery knows  *)
(* of the record it selected.                                                *)
THEOREM QueueInvariant == Spec => []QueueInv
<1>1. QueueInv /\ [Next]_vars => QueueInv'
    BY QueueStep
<1> QED BY <1>1, QueueInit, PTL DEF Spec

(* A completed import has arrived at its device, for any number of imports,  *)
(* devices and callers.                                                      *)
THEOREM CompletedHaveArrived == Spec => []CompletedImportsArrived
<1>1. QueueInv => CompletedImportsArrived
    BY DEF QueueInv
<1> QED BY <1>1, QueueInvariant, PTL

(* An accepted import stays what it is and settles once.                     *)
THEOREM SettleOnce == Spec => ImportsSettleOnce
<1>1. QueueInv /\ [Next]_vars => [SettlesOnce]_vars
    BY QueueStep
<1> QED BY <1>1, QueueInvariant, PTL DEF Spec, ImportsSettleOnce, SettlesOnce

(* Nothing is confirmed but under the authority that was read, while the     *)
(* member may import and the device may receive.                             *)
THEOREM TakenUnderAuthority == Spec => TakenAsAuthorized
<1>1. QueueInv /\ [Next]_vars => [\A c \in Calls : TakenFor(c)]_vars
    BY TakenStep
<1> QED BY <1>1, QueueInvariant, PTL DEF Spec, TakenAsAuthorized, TakenFor

---------------------------------------------------------------------------
(* Each call that waits for its turn has one place in the chain, and nobody  *)
(* else has any.                                                             *)
EachHasItsTurn ==
    /\ \A i \in DOMAIN chain : calls[chain[i]].pc = "queued"
    /\ \A i, j \in DOMAIN chain : chain[i] = chain[j] => i = j
    /\ \A c \in Calls : calls[c].pc = "queued" => \E i \in DOMAIN chain : chain[i] = c

(* A call joins the chain at its end.                                        *)
LEMMA TurnGiven ==
    ASSUME TypeOK, EachHasItsTurn, NEW c \in Calls, calls[c].pc = "idle", calls'[c].pc = "queued",
           \A d \in Calls \ {c} : calls'[d] = calls[d], chain' = Append(chain, c)
    PROVE  EachHasItsTurn'
<1>1. /\ DOMAIN chain = 1..Len(chain) /\ DOMAIN chain' = 1..Len(chain) + 1 /\ Len(chain) \in Nat
      /\ \A i \in DOMAIN chain : chain'[i] = chain[i] /\ chain[i] \in Calls
      /\ chain'[Len(chain) + 1] = c
    BY DEF TypeOK
<1>2. \A i \in DOMAIN chain : chain[i] # c
    BY DEF EachHasItsTurn
<1>3. \A i \in DOMAIN chain' : calls'[chain'[i]].pc = "queued"
    BY <1>1, <1>2 DEF EachHasItsTurn
<1>4. \A i, j \in DOMAIN chain' : chain'[i] = chain'[j] => i = j
    BY <1>1, <1>2 DEF EachHasItsTurn
<1>5. \A d \in Calls : calls'[d].pc = "queued" => \E i \in DOMAIN chain' : chain'[i] = d
    <2>1. Len(chain) + 1 \in DOMAIN chain' /\ \A i \in DOMAIN chain : i \in DOMAIN chain'
        BY <1>1
    <2> QED BY <1>1, <2>1 DEF EachHasItsTurn
<1> QED BY <1>3, <1>4, <1>5 DEF EachHasItsTurn

(* The call at the head leaves the chain.                                    *)
LEMMA TurnTaken ==
    ASSUME TypeOK, EachHasItsTurn, chain # <<>>, NEW c \in Calls, Head(chain) = c, chain' = Tail(chain),
           calls'[c].pc # "queued", \A d \in Calls \ {c} : calls'[d] = calls[d]
    PROVE  EachHasItsTurn'
<1>1. /\ DOMAIN chain = 1..Len(chain) /\ DOMAIN chain' = 1..Len(chain) - 1 /\ Len(chain) \in Nat \ {0}
      /\ \A i \in DOMAIN chain' : chain'[i] = chain[i + 1]
      /\ chain[1] = c /\ \A i \in DOMAIN chain : chain[i] \in Calls
    BY DEF TypeOK
<1>2. \A i \in DOMAIN chain' : i + 1 \in DOMAIN chain /\ i + 1 # 1 /\ 1 \in DOMAIN chain
    BY <1>1
<1>3. \A i \in DOMAIN chain' : chain'[i] \in Calls \ {c}
    BY <1>1, <1>2 DEF EachHasItsTurn
<1>4. \A i \in DOMAIN chain' : calls'[chain'[i]].pc = "queued"
    BY <1>1, <1>2, <1>3 DEF EachHasItsTurn
<1>5. \A i, j \in DOMAIN chain' : chain'[i] = chain'[j] => i = j
    <2>1. \A i, j \in DOMAIN chain' : i \in Int /\ j \in Int /\ (i + 1 = j + 1 => i = j)
        BY <1>1
    <2> QED BY <1>1, <1>2, <2>1 DEF EachHasItsTurn
<1>6. ASSUME NEW d \in Calls, calls'[d].pc = "queued" PROVE \E i \in DOMAIN chain' : chain'[i] = d
    <2>1. d # c
        BY <1>6
    <2>2. PICK i \in DOMAIN chain : chain[i] = d
        BY <1>6, <2>1 DEF EachHasItsTurn
    <2>3. i # 1 /\ i \in 1..Len(chain)
        BY <1>1, <2>1, <2>2
    <2>4. i - 1 \in DOMAIN chain' /\ (i - 1) + 1 = i
        BY <1>1, <2>3
    <2> QED BY <1>1, <2>2, <2>4
<1> QED BY <1>4, <1>5, <1>6 DEF EachHasItsTurn

(* A call that runs goes on, or comes to its end.                            *)
LEMMA TurnGoesOn ==
    ASSUME TypeOK, EachHasItsTurn, NEW c \in Running, c \in Calls, calls'[c].pc # "queued",
           \A d \in Calls \ {c} : calls'[d] = calls[d], UNCHANGED chain
    PROVE  EachHasItsTurn'
<1>1. \A i \in DOMAIN chain : chain[i] \in Calls \ {c}
    BY DEF EachHasItsTurn, TypeOK, Running
<1> QED BY <1>1 DEF EachHasItsTurn

LEMMA TurnsStep == QueueInv /\ EachHasItsTurn /\ [Next]_vars => EachHasItsTurn'
<1> SUFFICES ASSUME QueueInv, EachHasItsTurn, [Next]_vars PROVE EachHasItsTurn'
    OBVIOUS
<1>0. TypeOK
    BY DEF QueueInv
<1>1. calls \in [Calls -> Call] /\ Away.pc = "idle"
    BY <1>0 DEF TypeOK, Away
<1>3. ASSUME NEW c \in Calls, Ask(c) PROVE EachHasItsTurn'
    <2>1. calls'[c].pc = "queued" /\ \A d \in Calls \ {c} : calls'[d] = calls[d]
        BY <1>1, <1>3 DEF Ask, AskImport, AskAsDevice, Becomes, Away
    <2>2. calls[c].pc = "idle" /\ chain' = Append(chain, c)
        BY <1>1, <1>3 DEF Ask, AskImport, AskAsDevice
    <2> QED BY <1>0, <2>1, <2>2, TurnGiven
<1>4. ASSUME NEW c \in Calls, Turn(c) PROVE EachHasItsTurn'
    <2>1. calls'[c].pc # "queued" /\ \A d \in Calls \ {c} : calls'[d] = calls[d]
        <3>1. CASE Ends(c)
            BY <1>1, <3>1 DEF Ends, Becomes
        <3>2. CASE Becomes(c, At(c, "admit"))
            BY <1>1, <3>2 DEF Becomes, At, Call
        <3>3. CASE \E o \in Imports : Becomes(c, [At(c, "read") EXCEPT !.import = o])
            BY <1>1, <3>3 DEF Becomes, At, Call
        <3> QED BY <1>4, <3>1, <3>2, <3>3 DEF Turn, Begin, Selected, For, Kept
    <2>2. chain # <<>> /\ Head(chain) = c /\ chain' = Tail(chain)
        BY <1>4 DEF Turn, Begin
    <2> QED BY <1>0, <2>1, <2>2, TurnTaken
<1>5. ASSUME NEW c \in Calls,
             \/ Admit(c) \/ Read(c) \/ Grant(c) \/ Check(c) \/ Send(c) \/ Timeout(c) \/ Confirm(c)
             \/ Released(c) \/ Lost(c) \/ \E outcome \in {"completed", "retry", "wrong"} : Answer(c, outcome)
      PROVE  EachHasItsTurn'
    <2>1. c \in Running /\ UNCHANGED chain
        BY <1>5 DEF Admit, Read, Grant, Check, Send, Timeout, Confirm, Released, Lost, Answer, Running
    <2>2. calls'[c].pc # "queued" /\ \A d \in Calls \ {c} : calls'[d] = calls[d]
        <3>1. CASE Ends(c)
            BY <1>1, <3>1 DEF Ends, Becomes
        <3>2. CASE \E pc \in {"check", "send", "wait", "released"} : Becomes(c, At(c, pc))
            BY <1>1, <3>2 DEF Becomes, At, Call
        <3>3. CASE Becomes(c, [At(c, "grant") EXCEPT !.version = access.version])
            BY <1>1, <3>3 DEF Becomes, At, Call
        <3>4. CASE \E outcome \in {"completed", "retry", "wrong"} :
                       Becomes(c, [At(c, "confirm") EXCEPT !.outcome = outcome])
            BY <1>1, <3>4 DEF Becomes, At, Call
        <3>5. CASE Admit(c) \/ Timeout(c) \/ Released(c) \/ Lost(c)
            BY <3>1, <3>5 DEF Admit, Timeout, Released, Lost
        <3>6. CASE Read(c) \/ Grant(c) \/ Check(c) \/ Send(c)
            BY <3>1, <3>2, <3>3, <3>6 DEF Read, Grant, Check, Send, Refuse
        <3>7. CASE Confirm(c)
            BY <3>1, <3>2, <3>7 DEF Confirm, Record, Settles, Refuse
        <3>8. CASE \E outcome \in {"completed", "retry", "wrong"} : Answer(c, outcome)
            BY <3>4, <3>8 DEF Answer
        <3> QED BY <1>5, <3>5, <3>6, <3>7, <3>8
    <2> QED BY <1>0, <2>1, <2>2, TurnGoesOn
<1>6. CASE Crash
    BY <1>6 DEF Crash, EachHasItsTurn, Away
<1>7. CASE \/ \E o \in Imports : DeviceImports(o)
           \/ \E t \in Targets : BindingRevoked(t)
           \/ AccessMoves \/ Close \/ Closed \/ Reopen \/ UNCHANGED vars
    <2>1. UNCHANGED <<chain, calls>>
        BY <1>7 DEF DeviceImports, BindingRevoked, AccessMoves, Close, Closed, Reopen, vars
    <2> QED BY <2>1 DEF EachHasItsTurn
<1> QED BY <1>3, <1>4, <1>5, <1>6, <1>7 DEF Next, Step

(* No call loses its turn: whatever fails, is lost, runs out of time or      *)
(* closes in front of it, a queued call is in the chain, once, and the chain *)
(* holds nobody who has gone (saas-import-queue.ts:525-537).                 *)
THEOREM NoTurnIsLost == Spec => []EachHasItsTurn
<1>1. Init => EachHasItsTurn
    BY DEF Init, EachHasItsTurn, Away
<1> QED BY <1>1, TurnsStep, QueueInvariant, PTL DEF Spec
=============================================================================
