--------------------------- MODULE IngestOwnerProofs ---------------------------
(***************************************************************************)
(* Proofs, for any number of callers, rows and members, with and without a *)
(* journal, that the owner decides on durable tables, tells subscribers    *)
(* what is durable, accepts the credentials of active members only,        *)
(* implements AtomicOwner, and journals every version it takes.            *)
(***************************************************************************)
EXTENDS IngestOwnerProperties, FiniteSetTheorems, SequenceTheorems, WellFoundedInduction, TLAPS

Outcomes == {"observed", "unchanged", "committed", "rejected"}

(* What may run, and where it stands.                                        *)
CurrentType ==
    {Idle}
    \cup [pc : {"attempt", "decide"}, caller : Callers, row : Disclosures]
    \cup [pc : {"write", "publish"}, caller : Callers, next : StoreType,
          outcome : Outcomes, touched : SUBSET Disclosures]

Running == current.pc # "idle"
RunningOp == calls[current.caller].op

(* A running call is nobody else's, waits for its answer, and runs only      *)
(* while the owner serves; so does whatever is queued, once.                 *)
ChainOK ==
    /\ Running => Serving /\ calls[current.caller].status = "waiting" /\ RunningOp \in OperationType
    /\ current.pc \in {"attempt", "write", "publish"} => RunningOp.kind # "credential"
    /\ current.pc \in {"attempt", "decide"} /\ RunningOp.kind \in {"read", "change"}
           => current.row = RunningOp.row
    /\ queue # <<>> => phase \in {"open", "closing"}
    /\ \A i \in DOMAIN queue :
           /\ calls[queue[i]].status = "waiting" /\ calls[queue[i]].op \in OperationType
           /\ Running => queue[i] # current.caller
           /\ \A j \in DOMAIN queue : queue[i] = queue[j] => i = j

RefreshDue == RunningOp.kind = "directory" /\ current.outcome = "committed"

(* A batch under way moves versions forward, only those it will announce,    *)
(* and the members only in a change that will refresh the cache.             *)
BatchOK ==
    current.pc = "write" =>
        /\ current.next.directory.active = memory.directory.active \/ RefreshDue
        /\ \A d \in Disclosures :
               /\ memory.rows[d].version <= current.next.rows[d].version
               /\ d \notin current.touched => current.next.rows[d].version = memory.rows[d].version

CacheOK ==
    Serving => cache = memory.directory.active \/ (current.pc = "publish" /\ RefreshDue)

HeardOK ==
    /\ \A d \in Disclosures : heard[d] <= disk.rows[d].version
    /\ Serving => \A d \in Disclosures :
           \/ heard[d] = disk.rows[d].version
           \/ current.pc = "publish" /\ d \in current.touched

OwnerInv ==
    /\ TypeOK /\ current \in CurrentType
    /\ ServesDurableState /\ ChainOK /\ BatchOK /\ CacheOK /\ HeardOK

---------------------------------------------------------------------------
(* Stores *)

LEMMA StoreFacts ==
    ASSUME NEW s \in StoreType
    PROVE  /\ s.rows \in [Disclosures -> RowType]
           /\ s.directory.active \subseteq Members /\ s.directory.revision \in 0..MaxVersion
           /\ s.journal \in Seq(EntryType)
           /\ Versions(s) \in [Disclosures -> 0..MaxVersion]
           /\ \A d \in Disclosures : Versions(s)[d] = s.rows[d].version
BY DEF StoreType, RowType, Versions

LEMMA AttemptedType ==
    ASSUME NEW s \in StoreType, NEW op \in OperationType, op.kind # "credential"
    PROVE  /\ Attempted(s, op) \in StoreType
           /\ Attempted(s, op).rows = s.rows /\ Attempted(s, op).directory = s.directory
<1>1. op.kind \in {"read", "change", "directory", "sweep", "malformed"}
    BY DEF OperationType
<1>2. [kind |-> op.kind, outcome |-> "unfinished", versions |-> 0] \in EntryType
    BY <1>1 DEF EntryType
<1>3. Append(s.journal, [kind |-> op.kind, outcome |-> "unfinished", versions |-> 0]) \in Seq(EntryType)
    BY <1>2, StoreFacts
<1> QED BY <1>3 DEF Attempted, StoreType

LEMMA CompletedType ==
    ASSUME NEW s \in StoreType, NEW outcome \in Outcomes, NEW versions \in Nat
    PROVE  /\ Completed(s, outcome, versions) \in StoreType
           /\ Completed(s, outcome, versions).rows = s.rows
           /\ Completed(s, outcome, versions).directory = s.directory
<1> DEFINE n == Len(s.journal)
           first == [s.journal EXCEPT ![n].outcome = outcome]
           entries == [first EXCEPT ![n].versions = versions]
<1>1. CASE ~Journaled
    BY <1>1 DEF Completed
<1>2. CASE Journaled
    <2>1. s.journal \in [1..n -> EntryType] /\ n \in Nat
        BY StoreFacts
    <2>2. first \in [1..n -> EntryType]
        <3>1. \A e \in EntryType : [e EXCEPT !.outcome = outcome] \in EntryType
            BY DEF EntryType, Outcomes
        <3> QED BY <2>1, <3>1
    <2>3. entries \in [1..n -> EntryType]
        <3>1. \A e \in EntryType : [e EXCEPT !.versions = versions] \in EntryType
            BY DEF EntryType
        <3> HIDE DEF first
        <3> QED BY <2>2, <3>1
    <2> HIDE DEF n, entries
    <2>4. entries \in Seq(EntryType)
        BY <2>1, <2>3, SeqDef
    <2>5. Completed(s, outcome, versions) = [s EXCEPT !.journal = entries]
        BY <1>2 DEF Completed, StoreType, n, entries
    <2> QED BY <2>4, <2>5 DEF StoreType
<1> QED BY <1>1, <1>2

(* What an allowed operation makes of the tables.                            *)
LEMMA ChangedFacts ==
    ASSUME memory \in StoreType, NEW op \in OperationType, NEW d \in Disclosures, Allowed(op, d),
           op.kind \in {"read", "change"} => op.row = d
    PROVE  /\ Changed(op, d) \in StoreType
           /\ Touched(op, d) \subseteq Disclosures
           /\ \A r \in Disclosures :
                  /\ memory.rows[r].version <= Changed(op, d).rows[r].version
                  /\ r \notin Touched(op, d) => Changed(op, d).rows[r] = memory.rows[r]
           /\ \/ Changed(op, d).directory.active = memory.directory.active
              \/ op.kind = "directory" /\ OutcomeOf(op, d) = "committed"
<1> DEFINE row(r) == IF r \notin Touched(op, d) THEN memory.rows[r]
                     ELSE IF op.kind = "sweep" THEN [version |-> memory.rows[r].version + 2, state |-> "erased"]
                     ELSE [version |-> memory.rows[r].version + 1,
                           state |-> IF op.kind = "change" THEN op.target ELSE memory.rows[r].state]
           rows == [r \in Disclosures |-> row(r)]
           moves == op.kind = "directory" /\ op.active # memory.directory.active
           members == IF moves THEN [revision |-> op.expected + 1, active |-> op.active]
                      ELSE memory.directory
<1>1. Changed(op, d) = [memory EXCEPT !.rows = rows, !.directory = members]
    BY DEF Changed, StoreType
<1>2. op.kind \in {"read", "change", "directory", "sweep"}
    BY DEF Allowed, OperationType
<1>3. Touched(op, d) \subseteq Disclosures
    BY DEF Touched, Unerased
<1>4. ASSUME NEW r \in Disclosures
      PROVE  row(r) \in RowType /\ memory.rows[r].version <= row(r).version
    <2>1. memory.rows[r] \in RowType
        BY StoreFacts
    <2>2. CASE r \notin Touched(op, d)
        BY <2>1, <2>2 DEF RowType
    <2>3. CASE r \in Touched(op, d) /\ op.kind = "sweep"
        <3>1. r = d /\ memory.rows[r].version + 2 <= MaxVersion
            BY <2>3 DEF Touched, Allowed, DeletionAllowed
        <3> QED BY <2>1, <2>3, <3>1, OwnerAssumption DEF RowType
    <2>4. CASE r \in Touched(op, d) /\ op.kind = "change"
        <3>1. r = d /\ memory.rows[d].state # op.target /\ op.target \in {"live", "retired"}
            BY <2>4 DEF Touched, OperationType
        <3>2. memory.rows[d].version < MaxVersion
            BY <2>4, <3>1 DEF Allowed, ChangeAllowed, OperationType
        <3> QED BY <2>1, <2>4, <3>1, <3>2, OwnerAssumption DEF RowType
    <2>5. CASE r \in Touched(op, d) /\ op.kind = "directory"
        <3>1. r \in Unerased /\ op.active # memory.directory.active
            BY <2>5 DEF Touched
        <3>2. memory.rows[r].version < MaxVersion
            BY <2>5, <3>1 DEF Allowed, DirectoryAllowed
        <3> QED BY <2>1, <2>5, <3>2, OwnerAssumption DEF RowType
    <2>6. CASE r \in Touched(op, d) /\ op.kind = "read"
        BY <2>6 DEF Touched
    <2> QED BY <1>2, <2>2, <2>3, <2>4, <2>5, <2>6
<1>5. members \in [revision : 0..MaxVersion, active : SUBSET Members]
    <2>1. CASE moves
        <3>1. op.active \in SUBSET Members /\ op.expected \in 0..MaxVersion /\ op.expected < MaxVersion
            BY <2>1 DEF OperationType, Allowed, DirectoryAllowed
        <3> QED BY <2>1, <3>1, OwnerAssumption
    <2>2. CASE ~moves
        BY <2>2 DEF StoreType
    <2> QED BY <2>1, <2>2
<1>6. Changed(op, d) \in StoreType /\ Changed(op, d).rows = rows /\ Changed(op, d).directory = members
    <2>1. rows \in [Disclosures -> RowType]
        BY <1>4
    <2> HIDE DEF rows, members
    <2> QED BY <1>1, <1>5, <2>1 DEF StoreType
<1>7. \/ Changed(op, d).directory.active = memory.directory.active
      \/ op.kind = "directory" /\ OutcomeOf(op, d) = "committed"
    <2>1. CASE moves
        <3>1. Changed(op, d) # memory
            BY <1>6, <2>1
        <3> QED BY <2>1, <3>1 DEF OutcomeOf
    <2>2. CASE ~moves
        BY <1>6, <2>2
    <2> QED BY <2>1, <2>2
<1> QED BY <1>3, <1>4, <1>6, <1>7

---------------------------------------------------------------------------
(* Steps *)

(* The part of the invariant about stores and calls, which most steps leave  *)
(* alone.                                                                    *)
LEMMA InitOwner == Init => OwnerInv
<1> SUFFICES ASSUME Init PROVE OwnerInv
    OBVIOUS
<1>1. disk \in StoreType
    <2>1. <<>> \in Seq(EntryType)
        OBVIOUS
    <2> QED BY <2>1, OwnerAssumption DEF Init, StoreType, RowType
<1>2. TypeOK
    <2>1. heard \in [Disclosures -> 0..MaxVersion]
        BY <1>1, StoreFacts DEF Init
    <2>2. calls \in [Callers -> [status : {"idle", "waiting", "ok", "rejected", "unknown", "lost"},
                                op : OperationType \cup {[kind |-> "none"]}]]
        BY DEF Init, Nothing
    <2>3. cache \subseteq Members
        BY DEF Init
    <2>4. queue \in Seq(Callers) /\ current.pc = "idle" /\ current = Idle
        BY DEF Init, Idle
    <2>5. unavailable \in BOOLEAN /\ phase = "open" /\ memory = disk
        BY DEF Init
    <2> QED BY <1>1, <2>1, <2>2, <2>3, <2>4, <2>5 DEF TypeOK
<1>3. HeardOK
    <2>1. \A d \in Disclosures : heard[d] = disk.rows[d].version
        BY <1>1, StoreFacts DEF Init
    <2>2. \A d \in Disclosures : disk.rows[d].version \in Int
        BY <1>1, StoreFacts DEF RowType
    <2> QED BY <2>1, <2>2 DEF HeardOK
<1> QED BY <1>2, <1>3 DEF Init, OwnerInv, CurrentType, ServesDurableState, ChainOK, BatchOK, CacheOK,
                          Idle, Running

LEMMA SubmitStep ==
    ASSUME OwnerInv, NEW c \in Callers, NEW op \in Operations, Submit(c, op)
    PROVE  OwnerInv'
<1>1. op \in OperationType
    BY OperationsAssumption
<1>2. calls \in [Callers -> [status : {"idle", "waiting", "ok", "rejected", "unknown", "lost"},
                             op : OperationType \cup {[kind |-> "none"]}]]
      /\ queue \in Seq(Callers) /\ (Running => current.caller \in Callers)
    BY DEF OwnerInv, TypeOK, CurrentType, Running, Idle
<1>3. Running => calls'[current.caller] = calls[current.caller]
    BY <1>2 DEF Submit, OwnerInv, ChainOK
<1>4. TypeOK'
    BY <1>1, <1>2 DEF OwnerInv, TypeOK, Submit
<1>5. ChainOK'
    <2>1. \A i \in DOMAIN queue : queue[i] # c /\ queue[i] \in Callers
        BY <1>2 DEF OwnerInv, ChainOK, Submit
    <2>2. /\ DOMAIN queue' = 1..Len(queue) + 1 /\ queue'[Len(queue) + 1] = c
          /\ \A i \in 1..Len(queue) : queue'[i] = queue[i]
        BY <1>2 DEF Submit
    <2>3. Running => current.caller # c
        BY DEF OwnerInv, ChainOK, Submit
    <2> QED BY <1>1, <1>2, <1>3, <2>1, <2>2, <2>3 DEF OwnerInv, ChainOK, Submit, Running, RunningOp, Serving
<1>6. BatchOK' /\ CacheOK' /\ HeardOK' /\ ServesDurableState' /\ (current \in CurrentType)'
    BY <1>3 DEF OwnerInv, Submit, BatchOK, CacheOK, HeardOK, ServesDurableState, CurrentType, RefreshDue,
                RunningOp, Serving, Running
<1> QED BY <1>4, <1>5, <1>6 DEF OwnerInv

(* A caller is answered and the chain is free.                               *)
LEMMA AnswerType ==
    ASSUME TypeOK, NEW c \in Callers, NEW status \in {"ok", "rejected", "unknown"}, Answer(c, status)
    PROVE  /\ calls' \in [Callers -> [status : {"idle", "waiting", "ok", "rejected", "unknown", "lost"},
                                      op : OperationType \cup {[kind |-> "none"]}]]
           /\ \A b \in Callers \ {c} : calls'[b] = calls[b]
           /\ calls'[c].status = status
BY DEF Answer, TypeOK, Nothing

(* What admit() leaves of an operation: it has been answered, or it runs.    *)
LEMMA AdmitFacts ==
    ASSUME TypeOK, NEW c \in Callers, calls[c].op \in OperationType, calls[c].status = "waiting", Admit(c)
    PROVE  \/ /\ current' = Idle
              /\ \E status \in {"ok", "rejected"} :
                     Answer(c, status) /\ (status = "ok" => calls[c].op.kind = "sweep")
           \/ /\ UNCHANGED calls
              /\ \E d \in Disclosures, pc \in {"attempt", "decide"} :
                     /\ current' = [pc |-> pc, caller |-> c, row |-> d]
                     /\ pc = "attempt" => calls[c].op.kind # "credential"
                     /\ calls[c].op.kind \in {"read", "change"} => d = calls[c].op.row
                     /\ calls[c].op.kind = "sweep" => d \in Retired(memory)
<1> DEFINE op == calls[c].op
           targets == IF op.kind = "sweep" THEN Retired(memory)
                      ELSE IF op.kind \in {"read", "change"} THEN {op.row} ELSE Disclosures
<1>1. op.kind \in {"read", "change"} => op.row \in Disclosures
    BY DEF OperationType
<1>2. targets \subseteq Disclosures
    BY <1>1 DEF Retired
<1>3. CASE op.kind = "sweep" /\ Answer(c, "ok") /\ current' = Idle
    BY <1>3
<1>4. CASE Answer(c, "rejected") /\ current' = Idle
    BY <1>4
<1>5. CASE \E d \in targets : /\ current' = At(IF Audited(op) THEN "attempt" ELSE "decide", c, d)
                              /\ UNCHANGED calls
    BY <1>1, <1>2, <1>5 DEF At, Audited
<1> QED BY <1>3, <1>4, <1>5 DEF Admit

(* The running call is answered and nothing runs.                            *)
LEMMA AnsweredChain ==
    ASSUME OwnerInv, Running, NEW status \in {"ok", "rejected", "unknown"},
           Answer(current.caller, status), current' = Idle, UNCHANGED <<queue, phase>>
    PROVE  /\ ChainOK' /\ (current \in CurrentType)' /\ BatchOK'
           /\ calls' \in [Callers -> [status : {"idle", "waiting", "ok", "rejected", "unknown", "lost"},
                                      op : OperationType \cup {[kind |-> "none"]}]]
<1>1. TypeOK /\ current.caller \in Callers
    BY DEF OwnerInv, TypeOK, Running, Idle
<1>2. /\ calls' \in [Callers -> [status : {"idle", "waiting", "ok", "rejected", "unknown", "lost"},
                                 op : OperationType \cup {[kind |-> "none"]}]]
      /\ \A b \in Callers \ {current.caller} : calls'[b] = calls[b]
    BY <1>1, AnswerType
<1>3. \A i \in DOMAIN queue : queue[i] \in Callers \ {current.caller}
    BY <1>1 DEF TypeOK, OwnerInv, ChainOK
<1>4. ~Running' /\ current'.pc = "idle"
    BY DEF Running, Idle
<1>5. ChainOK'
    BY <1>2, <1>3, <1>4 DEF OwnerInv, ChainOK
<1>6. (current \in CurrentType)' /\ BatchOK'
    BY <1>4 DEF CurrentType, BatchOK
<1> QED BY <1>2, <1>5, <1>6

(* The running call goes on.                                                 *)
LEMMA MovedChain ==
    ASSUME OwnerInv, Running, current' \in CurrentType, Running', current'.caller = current.caller,
           UNCHANGED <<calls, queue>>, Serving',
           current'.pc \in {"attempt", "write", "publish"} => RunningOp.kind # "credential",
           current'.pc \in {"attempt", "decide"} /\ RunningOp.kind \in {"read", "change"}
               => current'.row = RunningOp.row
    PROVE  ChainOK'
<1>1. RunningOp' = RunningOp
    BY DEF RunningOp
<1>2. \A i \in DOMAIN queue : queue'[i] # current'.caller
    BY DEF OwnerInv, ChainOK
<1> QED BY <1>1, <1>2 DEF OwnerInv, ChainOK, Serving

LEMMA TailFacts ==
    ASSUME NEW S, NEW s \in Seq(S), s # <<>>
    PROVE  /\ Head(s) = s[1] /\ Head(s) \in S /\ 1 \in DOMAIN s /\ Tail(s) \in Seq(S)
           /\ \A i \in DOMAIN Tail(s) : Tail(s)[i] = s[i + 1] /\ i + 1 \in DOMAIN s /\ i + 1 # 1
           /\ \A i, j \in DOMAIN Tail(s) : i + 1 = j + 1 => i = j
OBVIOUS

LEMMA BeginStep ==
    ASSUME OwnerInv, Begin
    PROVE  OwnerInv'
<1> DEFINE c == Head(queue)
<1>1. TypeOK /\ current = Idle /\ queue # <<>> /\ queue' = Tail(queue)
      /\ UNCHANGED <<disk, memory, cache, phase, unavailable, heard>>
    BY DEF OwnerInv, Begin
<1>2. queue \in Seq(Callers)
    BY <1>1 DEF TypeOK
<1>3. c \in Callers /\ calls[c].status = "waiting" /\ calls[c].op \in OperationType
      /\ queue' \in Seq(Callers) /\ phase' \in {"open", "closing"}
    BY <1>1, <1>2, TailFacts DEF OwnerInv, ChainOK
<1>4. \A i \in DOMAIN queue' :
          /\ queue'[i] \in Callers \ {c}
          /\ calls[queue'[i]].status = "waiting" /\ calls[queue'[i]].op \in OperationType
          /\ \A j \in DOMAIN queue' : queue'[i] = queue'[j] => i = j
    BY <1>1, <1>2, <1>3, TailFacts DEF OwnerInv, ChainOK
<1>5. ASSUME NEW status \in {"ok", "rejected", "unknown"}, Answer(c, status), current' = Idle
      PROVE  OwnerInv'
    <2>1. /\ calls' \in [Callers -> [status : {"idle", "waiting", "ok", "rejected", "unknown", "lost"},
                                     op : OperationType \cup {[kind |-> "none"]}]]
          /\ \A b \in Callers \ {c} : calls'[b] = calls[b]
        BY <1>1, <1>3, <1>5, AnswerType
    <2>2. ChainOK'
        BY <1>3, <1>4, <1>5, <2>1 DEF ChainOK, Running, Idle
    <2>3. TypeOK'
        BY <1>1, <1>3, <1>5, <2>1 DEF TypeOK, Idle
    <2>4. ServesDurableState' /\ BatchOK' /\ CacheOK' /\ HeardOK' /\ current' \in CurrentType
        BY <1>1, <1>5 DEF OwnerInv, ServesDurableState, BatchOK, CacheOK, HeardOK, CurrentType, Idle, Serving
    <2> QED BY <2>2, <2>3, <2>4 DEF OwnerInv
<1>6. CASE unavailable
    <2>1. Answer(c, "unknown") /\ current' = Idle
        BY <1>1, <1>6 DEF Begin
    <2> QED BY <1>5, <2>1
<1>7. CASE ~unavailable
    <2>1. Admit(c)
        BY <1>7 DEF Begin
    <2>2. CASE \E status \in {"ok", "rejected"} : Answer(c, status) /\ current' = Idle
        BY <1>5, <2>2
    <2>3. CASE UNCHANGED calls /\ \E d \in Disclosures, pc \in {"attempt", "decide"} :
                   /\ current' = [pc |-> pc, caller |-> c, row |-> d]
                   /\ pc = "attempt" => calls[c].op.kind # "credential"
                   /\ calls[c].op.kind \in {"read", "change"} => d = calls[c].op.row
        <3>1. /\ current' \in CurrentType /\ current'.pc \in {"attempt", "decide"} /\ current'.caller = c
              /\ current'.pc = "attempt" => calls[c].op.kind # "credential"
              /\ calls[c].op.kind \in {"read", "change"} => current'.row = calls[c].op.row
              /\ current' # Idle
            BY <1>3, <2>3 DEF CurrentType, Idle
        <3>2. Serving'
            BY <1>1, <1>7, <3>1 DEF Serving, OwnerInv, ChainOK
        <3>3. ChainOK'
            BY <1>3, <1>4, <2>3, <3>1, <3>2 DEF ChainOK, Running, RunningOp
        <3>4. TypeOK'
            BY <1>1, <1>3, <2>3, <3>1 DEF TypeOK, Idle
        <3>5. ServesDurableState' /\ BatchOK' /\ CacheOK' /\ HeardOK'
            BY <1>1, <3>1 DEF OwnerInv, ServesDurableState, BatchOK, CacheOK, HeardOK, Idle, Serving
        <3> QED BY <3>1, <3>3, <3>4, <3>5 DEF OwnerInv
    <2> QED BY <1>1, <1>3, <2>1, <2>2, <2>3, AdmitFacts
<1> QED BY <1>6, <1>7

(* A batch that fails, landed or not, isolates the owner.                    *)
LEMMA FailedStep ==
    ASSUME OwnerInv, Running, NEW next \in StoreType, Failed(next),
           \A d \in Disclosures : disk.rows[d].version <= next.rows[d].version,
           Answer(current.caller, "unknown"), current' = Idle,
           UNCHANGED <<cache, queue, phase, heard>>
    PROVE  OwnerInv'
<1>1. disk' \in StoreType /\ memory' = memory /\ unavailable' = TRUE
    BY DEF Failed, OwnerInv, TypeOK
<1>2. HeardOK'
    <2>1. \A d \in Disclosures : /\ heard[d] \in Int /\ disk.rows[d].version \in Int
                               /\ next.rows[d].version \in Int /\ heard[d] <= disk.rows[d].version
        BY StoreFacts DEF OwnerInv, HeardOK, TypeOK, RowType
    <2>2. \A d \in Disclosures : heard'[d] <= disk'.rows[d].version
        BY <2>1 DEF Failed
    <2> QED BY <1>1, <2>2 DEF HeardOK, Serving
<1>3. ServesDurableState' /\ CacheOK'
    BY <1>1 DEF ServesDurableState, CacheOK, Serving
<1>4. ChainOK' /\ (current \in CurrentType)' /\ BatchOK'
      /\ calls' \in [Callers -> [status : {"idle", "waiting", "ok", "rejected", "unknown", "lost"},
                                 op : OperationType \cup {[kind |-> "none"]}]]
    BY AnsweredChain
<1>5. TypeOK'
    BY <1>1, <1>4 DEF TypeOK, OwnerInv, Idle
<1> QED BY <1>2, <1>3, <1>4, <1>5 DEF OwnerInv

LEMMA WriteAttemptStep ==
    ASSUME OwnerInv, WriteAttempt
    PROVE  OwnerInv'
<1> DEFINE op == RunningOp
           next == Attempted(memory, op)
<1>1. /\ TypeOK /\ current.pc = "attempt" /\ Running /\ Serving /\ memory = disk
      /\ op \in OperationType /\ op.kind # "credential" /\ memory \in StoreType
    BY DEF OwnerInv, WriteAttempt, Running, ChainOK, ServesDurableState, TypeOK
<1>2. next \in StoreType /\ next.rows = memory.rows /\ next.directory = memory.directory
    BY <1>1, AttemptedType
<1>3. /\ UNCHANGED <<cache, queue, phase, heard>>
      /\ \/ Landed(next) /\ current' = [current EXCEPT !.pc = "decide"] /\ UNCHANGED calls
         \/ Failed(next) /\ current' = Idle /\ Answer(current.caller, "unknown")
    BY DEF WriteAttempt, RunningOp
<1>4. current \in [pc : {"attempt", "decide"}, caller : Callers, row : Disclosures]
    BY <1>1 DEF OwnerInv, CurrentType, Idle
<1> HIDE DEF next
<1>5. CASE Landed(next) /\ current' = [current EXCEPT !.pc = "decide"] /\ UNCHANGED calls
    <2>1. /\ current' \in [pc : {"attempt", "decide"}, caller : Callers, row : Disclosures]
          /\ current'.pc = "decide" /\ current'.caller = current.caller /\ current'.row = current.row
        BY <1>4, <1>5
    <2>2. disk' = next /\ memory' = next /\ unavailable' = unavailable /\ Serving'
        BY <1>1, <1>3, <1>5 DEF Landed, Serving
    <2>3. current' \in CurrentType /\ Running'
        BY <2>1 DEF CurrentType, Running
    <2>4. ChainOK'
        <3>1. RunningOp.kind \in {"read", "change"} => current'.row = RunningOp.row
            BY <1>1, <2>1 DEF OwnerInv, ChainOK
        <3> QED BY <1>1, <1>3, <1>5, <2>1, <2>2, <2>3, <3>1, MovedChain
    <2>5. TypeOK'
        BY <1>1, <1>2, <1>3, <1>5, <2>1, <2>2 DEF TypeOK, Idle
    <2>6. BatchOK' /\ ServesDurableState'
        BY <2>1, <2>2 DEF BatchOK, ServesDurableState
    <2>7. CacheOK' /\ HeardOK'
        BY <1>1, <1>2, <1>3, <2>1, <2>2 DEF OwnerInv, CacheOK, HeardOK
    <2> QED BY <2>3, <2>4, <2>5, <2>6, <2>7 DEF OwnerInv
<1>6. CASE Failed(next) /\ current' = Idle /\ Answer(current.caller, "unknown")
    <2>1. \A d \in Disclosures : disk.rows[d].version <= next.rows[d].version
        BY <1>1, <1>2, StoreFacts DEF RowType
    <2> QED BY <1>1, <1>2, <1>3, <1>6, <2>1, FailedStep
<1> QED BY <1>3, <1>5, <1>6

LEMMA PrepareStep ==
    ASSUME OwnerInv, current.pc = "decide", RunningOp.kind # "credential",
           NEW next \in StoreType, NEW outcome \in Outcomes, NEW touched \in SUBSET Disclosures,
           Prepare(next, outcome, touched), UNCHANGED <<disk, memory, cache, queue, phase, unavailable, heard>>,
           next.directory.active = memory.directory.active
               \/ (RunningOp.kind = "directory" /\ outcome = "committed"),
           \A d \in Disclosures :
               /\ memory.rows[d].version <= next.rows[d].version
               /\ d \notin touched => next.rows[d].version = memory.rows[d].version
    PROVE  OwnerInv'
<1>1. TypeOK /\ Running /\ Serving /\ current \in [pc : {"attempt", "decide"}, caller : Callers, row : Disclosures]
    BY DEF OwnerInv, Running, ChainOK, CurrentType, Idle
<1>2. CASE /\ current' = Idle
           /\ Answer(current.caller, IF outcome = "rejected" THEN "rejected" ELSE "ok")
    <2>1. PICK status \in {"ok", "rejected"} : Answer(current.caller, status)
        BY <1>2
    <2>2. ChainOK' /\ (current \in CurrentType)' /\ BatchOK'
          /\ calls' \in [Callers -> [status : {"idle", "waiting", "ok", "rejected", "unknown", "lost"},
                                     op : OperationType \cup {[kind |-> "none"]}]]
        BY <1>1, <1>2, <2>1, AnsweredChain
    <2>3. TypeOK'
        BY <1>1, <1>2, <2>2 DEF TypeOK, Idle
    <2>4. ServesDurableState' /\ CacheOK' /\ HeardOK'
        BY <1>1, <1>2 DEF OwnerInv, ServesDurableState, CacheOK, HeardOK, Serving, Idle
    <2> QED BY <2>2, <2>3, <2>4 DEF OwnerInv
<1>3. CASE /\ current' = [pc |-> "write", caller |-> current.caller, next |-> next,
                          outcome |-> outcome, touched |-> touched]
           /\ UNCHANGED calls
    <2>1. /\ current' \in CurrentType /\ current'.pc = "write" /\ current'.caller = current.caller
          /\ current'.next = next /\ current'.outcome = outcome /\ current'.touched = touched
        BY <1>1, <1>3 DEF CurrentType
    <2>2. ChainOK'
        BY <1>1, <1>3, <2>1, MovedChain DEF Running, Serving
    <2>3. TypeOK'
        BY <1>1, <1>3, <2>1 DEF TypeOK, Idle
    <2>4. BatchOK'
        BY <1>3, <2>1 DEF BatchOK, RefreshDue, RunningOp
    <2>5. ServesDurableState' /\ CacheOK' /\ HeardOK'
        BY <1>1, <2>1 DEF OwnerInv, ServesDurableState, CacheOK, HeardOK, Serving
    <2> QED BY <2>1, <2>2, <2>3, <2>4, <2>5 DEF OwnerInv
<1> QED BY <1>2, <1>3 DEF Prepare

LEMMA DecideStep ==
    ASSUME OwnerInv, Decide
    PROVE  OwnerInv'
<1> DEFINE op == RunningOp
           d == current.row
<1>1. /\ TypeOK /\ current.pc = "decide" /\ Running /\ Serving /\ memory \in StoreType
      /\ op \in OperationType /\ d \in Disclosures /\ current.caller \in Callers
      /\ UNCHANGED <<disk, memory, cache, queue, phase, unavailable, heard>>
    BY DEF OwnerInv, Decide, Running, ChainOK, TypeOK, CurrentType, Idle
<1>2. op.kind \in {"read", "change"} => op.row = d
    BY <1>1 DEF OwnerInv, ChainOK
<1>3. CASE op.kind = "credential" /\ CheckCredential(op)
    <2>1. PICK status \in {"ok", "rejected"} : Answer(current.caller, status) /\ current' = Idle
        BY <1>3 DEF CheckCredential
    <2>2. ChainOK' /\ (current \in CurrentType)' /\ BatchOK'
          /\ calls' \in [Callers -> [status : {"idle", "waiting", "ok", "rejected", "unknown", "lost"},
                                     op : OperationType \cup {[kind |-> "none"]}]]
        BY <1>1, <2>1, AnsweredChain
    <2>3. TypeOK'
        BY <1>1, <2>1, <2>2 DEF TypeOK, Idle
    <2>4. ServesDurableState' /\ CacheOK' /\ HeardOK'
        BY <1>1, <2>1 DEF OwnerInv, ServesDurableState, CacheOK, HeardOK, Serving, Idle
    <2> QED BY <2>2, <2>3, <2>4 DEF OwnerInv
<1>4. CASE op.kind # "credential" /\ Refuse
    <2> DEFINE next == Completed(memory, "rejected", 0)
    <2>1. next \in StoreType /\ next.rows = memory.rows /\ next.directory = memory.directory
        BY <1>1, CompletedType DEF Outcomes
    <2>2. Prepare(next, "rejected", {})
        BY <1>4 DEF Refuse
    <2> HIDE DEF next
    <2>3. \A r \in Disclosures : memory.rows[r].version \in Int
        BY <1>1, StoreFacts DEF RowType
    <2> QED BY <1>1, <1>4, <2>1, <2>2, <2>3, PrepareStep DEF Outcomes
<1>5. CASE /\ op.kind # "credential" /\ Allowed(op, d)
           /\ Prepare(Completed(Changed(op, d), OutcomeOf(op, d), VersionsTaken(op, d)),
                      OutcomeOf(op, d), Touched(op, d))
    <2> DEFINE next == Completed(Changed(op, d), OutcomeOf(op, d), VersionsTaken(op, d))
    <2>1. /\ Changed(op, d) \in StoreType /\ Touched(op, d) \subseteq Disclosures
          /\ \A r \in Disclosures :
                 /\ memory.rows[r].version <= Changed(op, d).rows[r].version
                 /\ r \notin Touched(op, d) => Changed(op, d).rows[r] = memory.rows[r]
          /\ \/ Changed(op, d).directory.active = memory.directory.active
             \/ op.kind = "directory" /\ OutcomeOf(op, d) = "committed"
        BY <1>1, <1>2, <1>5, ChangedFacts
    <2>2. OutcomeOf(op, d) \in Outcomes
        BY DEF OutcomeOf, Outcomes
    <2>3. VersionsTaken(op, d) \in Nat
        BY <2>1, FS_Subset, FS_CardinalityType, OwnerAssumption DEF VersionsTaken
    <2>4. next \in StoreType /\ next.rows = Changed(op, d).rows /\ next.directory = Changed(op, d).directory
        BY <2>1, <2>2, <2>3, CompletedType
    <2>5. Prepare(next, OutcomeOf(op, d), Touched(op, d))
        BY <1>5
    <2> HIDE DEF next, op, d
    <2> QED BY <1>1, <1>5, <2>1, <2>2, <2>4, <2>5, PrepareStep DEF op
<1> QED BY <1>3, <1>4, <1>5 DEF Decide, RunningOp

LEMMA WriteOutcomeStep ==
    ASSUME OwnerInv, WriteOutcome
    PROVE  OwnerInv'
<1>1. /\ TypeOK /\ current.pc = "write" /\ Running /\ Serving /\ memory = disk /\ memory \in StoreType
      /\ RunningOp.kind # "credential" /\ UNCHANGED <<cache, queue, phase, heard>>
    BY DEF OwnerInv, WriteOutcome, Running, ChainOK, ServesDurableState, TypeOK
<1>2. current \in [pc : {"write", "publish"}, caller : Callers, next : StoreType,
                  outcome : Outcomes, touched : SUBSET Disclosures]
    BY <1>1 DEF OwnerInv, CurrentType, Idle
<1>3. /\ current.next \in StoreType
      /\ current.next.directory.active = memory.directory.active \/ RefreshDue
      /\ \A d \in Disclosures :
             /\ memory.rows[d].version <= current.next.rows[d].version
             /\ d \notin current.touched => current.next.rows[d].version = memory.rows[d].version
    BY <1>1, <1>2 DEF OwnerInv, BatchOK
<1>4. CASE /\ Landed(current.next) /\ current' = [current EXCEPT !.pc = "publish"] /\ UNCHANGED calls
    <2>1. /\ current' \in [pc : {"write", "publish"}, caller : Callers, next : StoreType,
                           outcome : Outcomes, touched : SUBSET Disclosures]
          /\ current'.pc = "publish" /\ current'.caller = current.caller
          /\ current'.outcome = current.outcome /\ current'.touched = current.touched
        BY <1>2, <1>4
    <2>2. disk' = current.next /\ memory' = current.next /\ unavailable' = unavailable /\ Serving'
        BY <1>1, <1>4 DEF Landed, Serving
    <2>3. current' \in CurrentType /\ Running'
        BY <2>1 DEF CurrentType, Running
    <2>4. ChainOK'
        BY <1>1, <1>4, <2>1, <2>2, <2>3, MovedChain
    <2>5. TypeOK'
        BY <1>1, <1>2, <1>4, <2>1, <2>2 DEF TypeOK, Idle
    <2>6. BatchOK' /\ ServesDurableState'
        BY <2>1, <2>2 DEF BatchOK, ServesDurableState
    <2>7. RefreshDue' = RefreshDue
        BY <1>4, <2>1 DEF RefreshDue, RunningOp
    <2>8. CacheOK'
        BY <1>1, <1>3, <2>1, <2>2, <2>7 DEF OwnerInv, CacheOK
    <2>9. HeardOK'
        <3>1. \A d \in Disclosures : /\ heard[d] \in Int /\ memory.rows[d].version \in Int
                                   /\ current.next.rows[d].version \in Int /\ heard[d] = memory.rows[d].version
            BY <1>1, <1>3, StoreFacts DEF OwnerInv, HeardOK, TypeOK, RowType
        <3> QED BY <1>1, <1>3, <2>1, <2>2, <3>1 DEF HeardOK
    <2> QED BY <2>3, <2>4, <2>5, <2>6, <2>8, <2>9 DEF OwnerInv
<1>5. CASE Failed(current.next) /\ current' = Idle /\ Answer(current.caller, "unknown")
    BY <1>1, <1>3, <1>5, FailedStep
<1> QED BY <1>4, <1>5 DEF WriteOutcome

LEMMA PublishStep ==
    ASSUME OwnerInv, Publish
    PROVE  OwnerInv'
<1>1. /\ TypeOK /\ current.pc = "publish" /\ Running /\ Serving /\ memory = disk /\ memory \in StoreType
      /\ RunningOp.kind # "credential" /\ calls[current.caller].status = "waiting"
      /\ RunningOp \in OperationType
      /\ UNCHANGED <<disk, memory, queue, phase, unavailable>>
    BY DEF OwnerInv, Publish, Running, ChainOK, ServesDurableState, TypeOK
<1>2. current.caller \in Callers
    BY <1>1 DEF OwnerInv, CurrentType, Idle
<1>3. heard' = Versions(disk)
    <2>1. heard' = [d \in Disclosures |-> IF d \in current.touched THEN memory.rows[d].version ELSE heard[d]]
        BY DEF Publish, Announced
    <2>2. \A d \in Disclosures : d \in current.touched \/ heard[d] = disk.rows[d].version
        BY <1>1 DEF OwnerInv, HeardOK
    <2> QED BY <1>1, <2>1, <2>2 DEF Versions
<1>4. cache' = memory.directory.active
    BY <1>1 DEF Publish, RefreshedCache, OwnerInv, CacheOK, RefreshDue, RunningOp
<1>5. /\ heard' \in [Disclosures -> 0..MaxVersion] /\ cache' \subseteq Members
      /\ \A d \in Disclosures : heard'[d] = disk'.rows[d].version /\ disk'.rows[d].version \in Int
    BY <1>1, <1>3, <1>4, StoreFacts DEF RowType
<1>6. ServesDurableState' /\ CacheOK' /\ HeardOK'
    BY <1>1, <1>4, <1>5 DEF ServesDurableState, CacheOK, HeardOK, OwnerInv
<1>7. ASSUME NEW status \in {"ok", "rejected"}, Answer(current.caller, status), current' = Idle
      PROVE  OwnerInv'
    <2>1. ChainOK' /\ (current \in CurrentType)' /\ BatchOK'
          /\ calls' \in [Callers -> [status : {"idle", "waiting", "ok", "rejected", "unknown", "lost"},
                                     op : OperationType \cup {[kind |-> "none"]}]]
        BY <1>1, <1>7, AnsweredChain
    <2>2. TypeOK'
        BY <1>1, <1>5, <1>7, <2>1 DEF TypeOK, Idle
    <2> QED BY <1>6, <2>1, <2>2 DEF OwnerInv
<1>8. CASE RunningOp.kind = "sweep" /\ current.outcome = "committed"
    <2>1. Admit(current.caller)
        BY <1>8 DEF Publish, RunningOp
    <2>2. CASE UNCHANGED calls /\ \E d \in Disclosures, pc \in {"attempt", "decide"} :
                   /\ current' = [pc |-> pc, caller |-> current.caller, row |-> d]
                   /\ pc = "attempt" => calls[current.caller].op.kind # "credential"
                   /\ calls[current.caller].op.kind \in {"read", "change"} => d = calls[current.caller].op.row
        <3>1. /\ current' \in CurrentType /\ current'.pc \in {"attempt", "decide"}
              /\ current'.caller = current.caller /\ Running' /\ current' # Idle
              /\ RunningOp.kind \in {"read", "change"} => current'.row = RunningOp.row
            BY <1>2, <2>2 DEF CurrentType, Idle, Running, RunningOp
        <3>2. ChainOK'
            BY <1>1, <2>2, <3>1, MovedChain DEF Serving
        <3>3. TypeOK'
            BY <1>1, <1>2, <1>5, <2>2, <3>1 DEF TypeOK
        <3>4. BatchOK'
            BY <3>1 DEF BatchOK
        <3> QED BY <1>6, <3>1, <3>2, <3>3, <3>4 DEF OwnerInv
    <2> QED BY <1>1, <1>2, <1>7, <2>1, <2>2, AdmitFacts DEF RunningOp
<1>9. CASE ~(RunningOp.kind = "sweep" /\ current.outcome = "committed")
    <2>1. current' = Idle /\ Answer(current.caller, IF current.outcome = "rejected" THEN "rejected" ELSE "ok")
        BY <1>9 DEF Publish, RunningOp
    <2> QED BY <1>7, <2>1
<1> QED BY <1>8, <1>9

(* Closing, crashing and opening again.                                      *)
LEMMA ForgetStep ==
    ASSUME OwnerInv, disk' \in StoreType, Forget, current' = Idle, queue' = <<>> \/ (phase' = "open" /\ UNCHANGED <<queue, calls>>),
           phase' \in {"open", "closing", "closed", "down"},
           calls' \in [Callers -> [status : {"idle", "waiting", "ok", "rejected", "unknown", "lost"},
                                  op : OperationType \cup {[kind |-> "none"]}]]
    PROVE  OwnerInv'
<1>1. /\ heard' = Versions(disk') /\ memory' = disk' /\ cache' = disk'.directory.active /\ unavailable' = FALSE
    BY DEF Forget
<1>2. /\ heard' \in [Disclosures -> 0..MaxVersion] /\ cache' \subseteq Members
      /\ \A d \in Disclosures : heard'[d] = disk'.rows[d].version /\ disk'.rows[d].version \in Int
    BY <1>1, StoreFacts DEF RowType
<1>3. TypeOK'
    <2>1. queue' \in Seq(Callers)
        BY EmptySeq DEF TypeOK, OwnerInv
    <2>2. unavailable' \in BOOLEAN /\ memory' \in StoreType
        BY <1>1
    <2> QED BY <1>2, <2>1, <2>2 DEF TypeOK, Idle
<1>4. ServesDurableState' /\ CacheOK' /\ HeardOK' /\ BatchOK' /\ (current \in CurrentType)'
    BY <1>1, <1>2 DEF ServesDurableState, CacheOK, HeardOK, BatchOK, CurrentType, Idle
<1>5. ChainOK'
    BY DEF ChainOK, OwnerInv, Running, Idle
<1> QED BY <1>3, <1>4, <1>5 DEF OwnerInv

LEMMA LifeStep ==
    ASSUME OwnerInv, Close \/ Drained \/ Crash \/ Reopen
    PROVE  OwnerInv'
<1>1. TypeOK /\ disk \in StoreType
    BY DEF OwnerInv, TypeOK
<1>2. CASE Close
    <2>1. /\ phase = "open" /\ phase' = "closing"
          /\ UNCHANGED <<disk, memory, cache, queue, current, calls, unavailable, heard>>
        BY <1>2 DEF Close
    <2>2. Serving' = Serving /\ Running' = Running /\ RunningOp' = RunningOp
        BY <2>1 DEF Serving, Running, RunningOp
    <2>3. TypeOK' /\ (current \in CurrentType)'
        BY <1>1, <2>1 DEF TypeOK, OwnerInv
    <2>4. ServesDurableState' /\ ChainOK' /\ BatchOK' /\ CacheOK' /\ HeardOK'
        BY <2>1, <2>2 DEF OwnerInv, ServesDurableState, ChainOK, BatchOK, CacheOK, HeardOK, RefreshDue
    <2> QED BY <2>3, <2>4 DEF OwnerInv
<1>3. CASE Drained
    BY <1>1, <1>3, ForgetStep DEF Drained, TypeOK
<1>4. CASE Crash
    <2>1. disk' \in StoreType
        <3>1. CASE current.pc = "write"
            <4>1. current.next \in StoreType
                BY <3>1 DEF OwnerInv, CurrentType, Idle
            <4> QED BY <1>1, <1>4, <3>1, <4>1 DEF Crash
        <3>2. CASE current.pc = "attempt"
            <4>1. Attempted(memory, calls[current.caller].op) \in StoreType
                BY <1>1, <3>2, AttemptedType DEF OwnerInv, ChainOK, Running, RunningOp, TypeOK
            <4> QED BY <1>1, <1>4, <3>2, <4>1 DEF Crash
        <3>3. CASE current.pc \notin {"write", "attempt"}
            BY <1>1, <1>4, <3>3 DEF Crash
        <3> QED BY <3>1, <3>2, <3>3
    <2>2. calls' \in [Callers -> [status : {"idle", "waiting", "ok", "rejected", "unknown", "lost"},
                                 op : OperationType \cup {[kind |-> "none"]}]]
        BY <1>1, <1>4 DEF Crash, TypeOK, Nothing
    <2> QED BY <1>4, <2>1, <2>2, ForgetStep DEF Crash
<1>5. CASE Reopen
    <2>1. current = Idle
        BY <1>5 DEF Reopen, OwnerInv, ChainOK, Running, Serving, CurrentType, Idle
    <2> QED BY <1>1, <1>5, <2>1, ForgetStep DEF Reopen, TypeOK
<1> QED BY <1>2, <1>3, <1>4, <1>5

LEMMA StepOwner == OwnerInv /\ [Next]_vars => OwnerInv'
<1> SUFFICES ASSUME OwnerInv, [Next]_vars PROVE OwnerInv'
    OBVIOUS
<1>1. CASE \E c \in Callers, op \in Operations : Submit(c, op)
    BY <1>1, SubmitStep
<1>2. CASE Begin
    BY <1>2, BeginStep
<1>3. CASE WriteAttempt
    BY <1>3, WriteAttemptStep
<1>4. CASE Decide
    BY <1>4, DecideStep
<1>5. CASE WriteOutcome
    BY <1>5, WriteOutcomeStep
<1>6. CASE Publish
    BY <1>6, PublishStep
<1>7. CASE Close \/ Drained \/ Crash \/ Reopen
    BY <1>7, LifeStep
<1>8. CASE UNCHANGED vars
    BY <1>8 DEF vars, OwnerInv, TypeOK, ServesDurableState, ChainOK, BatchOK, CacheOK, HeardOK,
                RefreshDue, Running, RunningOp, Serving
<1> QED BY <1>1, <1>2, <1>3, <1>4, <1>5, <1>6, <1>7, <1>8 DEF Next, Step

(* What the chain, the batch under way, the cache and the subscribers know,  *)
(* relative to what is durable.                                              *)
THEOREM OwnerInvariant == Spec => []OwnerInv
<1> QED BY InitOwner, StepOwner, PTL DEF Spec

(* No operation is decided on stale tables.                                  *)
THEOREM DecidesOnDurableState == Spec => []ServesDurableState
<1>1. OwnerInv => ServesDurableState
    BY DEF OwnerInv
<1> QED BY <1>1, OwnerInvariant, PTL

(* Subscribers are told what is durable, and all of it before the owner goes *)
(* on.                                                                       *)
THEOREM ListenersAreTold == Spec => []ListenersKeepUp
<1>1. OwnerInv => ListenersKeepUp
    <2> SUFFICES ASSUME OwnerInv PROVE ListenersKeepUp
        OBVIOUS
    <2>1. heard \in [Disclosures -> 0..MaxVersion]
        BY DEF OwnerInv, TypeOK
    <2>2. ASSUME Serving, current.pc \in {"idle", "attempt", "decide"} PROVE heard = Versions(disk)
        BY <2>1, <2>2 DEF OwnerInv, HeardOK, Versions
    <2> QED BY <2>2 DEF OwnerInv, HeardOK, ListenersKeepUp
<1> QED BY <1>1, OwnerInvariant, PTL

(* A credential is accepted only of a member who is active in the durable    *)
(* directory, although it is compared with a copy.                           *)
THEOREM CredentialsAreActive == Spec => CredentialsFollowDirectory
<1> DEFINE Followed == \A c \in Callers :
               Answered(c, "ok") /\ calls[c].op.kind = "credential"
                   => calls[c].op.member \in disk.directory.active
<1>1. ASSUME OwnerInv, [Next]_vars PROVE [Followed]_vars
    <2> SUFFICES ASSUME NEW c \in Callers, Next, calls[c].status = "waiting", calls'[c].status = "ok",
                        calls[c].op.kind = "credential"
                 PROVE  calls[c].op.member \in disk.directory.active
        BY <1>1 DEF Answered
    <2> DEFINE Typed == calls \in [Callers -> [status : {"idle", "waiting", "ok", "rejected", "unknown", "lost"},
                                              op : OperationType \cup {[kind |-> "none"]}]]
    <2>1. Typed
        BY <1>1 DEF OwnerInv, TypeOK
    <2>2. CASE \E b \in Callers, op \in Operations : Submit(b, op)
        BY <2>1, <2>2 DEF Submit
    <2>3. CASE Begin
        <3>1. /\ Head(queue) \in Callers /\ calls[Head(queue)].status = "waiting"
              /\ calls[Head(queue)].op \in OperationType /\ TypeOK
            BY <1>1, <2>3, TailFacts DEF OwnerInv, ChainOK, TypeOK, Begin
        <3>2. CASE unavailable
            BY <2>1, <2>3, <3>2 DEF Begin, Answer
        <3>3. CASE Admit(Head(queue))
            BY <2>1, <3>1, <3>3, AdmitFacts DEF Answer
        <3> QED BY <2>3, <3>2, <3>3 DEF Begin
    <2>4. CASE Publish
        <3>1. /\ current.caller \in Callers /\ calls[current.caller].op.kind # "credential"
              /\ calls[current.caller].op \in OperationType /\ calls[current.caller].status = "waiting" /\ TypeOK
            BY <1>1, <2>4 DEF Publish, OwnerInv, ChainOK, Running, RunningOp, TypeOK, Idle
        <3>2. CASE Admit(current.caller)
            BY <2>1, <3>1, <3>2, AdmitFacts DEF Answer
        <3> QED BY <2>1, <2>4, <3>1, <3>2 DEF Publish, Answer
    <2>5. CASE Decide
        <3>1. /\ current.pc = "decide" /\ Serving /\ memory = disk /\ current.caller \in Callers
              /\ cache = memory.directory.active
            BY <1>1, <2>5 DEF Decide, OwnerInv, ChainOK, Running, CacheOK, ServesDurableState, TypeOK, Idle
        <3>2. c = current.caller
            BY <2>1, <2>5, <3>1 DEF Decide, CheckCredential, Refuse, Prepare, Answer
        <3> QED BY <2>1, <2>5, <3>1, <3>2 DEF Decide, CheckCredential, Answer
    <2>6. CASE WriteAttempt \/ WriteOutcome
        BY <2>1, <2>6 DEF WriteAttempt, WriteOutcome, Answer
    <2>7. CASE Close \/ Drained \/ Crash \/ Reopen
        BY <2>7 DEF Close, Drained, Crash, Reopen
    <2> QED BY <2>2, <2>3, <2>4, <2>5, <2>6, <2>7 DEF Next, Step
<1> QED BY <1>1, OwnerInvariant, PTL DEF Spec, CredentialsFollowDirectory

---------------------------------------------------------------------------
(* The owner implements AtomicOwner.  What a batch under way will do to the  *)
(* tables, or why the operation has nothing to do, is remembered from the    *)
(* decision until the answer: this is the rest of the invariant.             *)

SameTables(from, to) == to.rows = from.rows /\ to.directory = from.directory

Effects(op, from, to) ==
    \/ /\ op.kind = "change"
       /\ op.member \in from.directory.active
       /\ from.rows[op.row].version = op.expected /\ from.rows[op.row].state # "erased"
       /\ to.rows = [from.rows EXCEPT ![op.row] = [version |-> op.expected + 1, state |-> op.target]]
       /\ to.directory = from.directory
    \/ /\ op.kind = "directory"
       /\ Admin \in from.directory.active /\ op.expected = from.directory.revision
       /\ to.directory = [revision |-> op.expected + 1, active |-> op.active]
       /\ to.rows = [d \in Disclosures |->
                        IF from.rows[d].state = "erased" THEN from.rows[d]
                        ELSE [from.rows[d] EXCEPT !.version = @ + 1]]
    \/ /\ op.kind = "sweep"
       /\ \E d \in Disclosures :
              /\ from.rows[d].state = "retired"
              /\ to.rows = [from.rows EXCEPT ![d].state = "erased", ![d].version = @ + 2]
       /\ to.directory = from.directory

NothingToDo(op, store) ==
    \/ op.kind \in {"read", "credential"} /\ op.member \in store.directory.active
    \/ op.kind = "change" /\ op.member \in store.directory.active
       /\ store.rows[op.row] = [version |-> op.expected, state |-> op.target]
    \/ op.kind = "directory" /\ op.expected = store.directory.revision
       /\ op.active = store.directory.active

BatchMeans ==
    /\ current.pc \in {"attempt", "decide"} /\ RunningOp.kind = "sweep"
           => current.row \in Retired(memory)
    /\ current.pc = "write" =>
           IF current.outcome = "committed" THEN Effects(RunningOp, memory, current.next)
           ELSE SameTables(memory, current.next)
    /\ current.pc \in {"write", "publish"} /\ current.outcome \in {"observed", "unchanged"}
           => NothingToDo(RunningOp, memory)

CallsType ==
    [Callers -> [status : {"idle", "waiting", "ok", "rejected", "unknown", "lost"},
                 op : OperationType \cup {[kind |-> "none"]}]]

(* What an allowed operation does, and what its outcome says of it.          *)
LEMMA OutcomeMeans ==
    ASSUME memory \in StoreType, NEW op \in OperationType, NEW d \in Disclosures, Allowed(op, d),
           op.kind \in {"read", "change"} => op.row = d,
           op.kind = "sweep" => d \in Retired(memory)
    PROVE  LET outcome == OutcomeOf(op, d) IN
           /\ outcome \in {"observed", "unchanged", "committed"}
           /\ outcome = "committed" => Effects(op, memory, Changed(op, d))
           /\ outcome # "committed" =>
                  SameTables(memory, Changed(op, d)) /\ NothingToDo(op, memory)
<1> DEFINE next == Changed(op, d)
           row(r) == IF r \notin Touched(op, d) THEN memory.rows[r]
                     ELSE IF op.kind = "sweep" THEN [version |-> memory.rows[r].version + 2, state |-> "erased"]
                     ELSE [version |-> memory.rows[r].version + 1,
                           state |-> IF op.kind = "change" THEN op.target ELSE memory.rows[r].state]
           rows == [r \in Disclosures |-> row(r)]
           moves == op.kind = "directory" /\ op.active # memory.directory.active
           members == IF moves THEN [revision |-> op.expected + 1, active |-> op.active]
                      ELSE memory.directory
<1>1. next = [memory EXCEPT !.rows = rows, !.directory = members]
    BY DEF Changed, StoreType
<1>2. /\ next.rows = rows /\ next.directory = members
      /\ rows = memory.rows /\ members = memory.directory => next = memory
    <2> HIDE DEF rows, members
    <2> QED BY <1>1 DEF StoreType
<1>3. memory.rows \in [Disclosures -> RowType] /\ memory.rows[d] \in RowType
    BY StoreFacts
<1>4. memory.directory = [revision |-> memory.directory.revision, active |-> memory.directory.active]
    BY DEF StoreType
<1>5. op.kind \in {"read", "change", "directory", "sweep"}
    BY DEF Allowed, OperationType
<1> HIDE DEF next
<1>6. OutcomeOf(op, d) = IF op.kind = "read" THEN "observed"
                         ELSE IF next = memory THEN "unchanged" ELSE "committed"
    BY DEF OutcomeOf, next
<1>7. ASSUME Touched(op, d) = {} PROVE rows = memory.rows
    BY <1>3, <1>7
<1>8. CASE op.kind = "read"
    <2>1. Touched(op, d) = {} /\ ~moves /\ op.member \in memory.directory.active
        BY <1>8 DEF Touched, Allowed
    <2> QED BY <1>2, <1>6, <1>7, <1>8, <2>1 DEF SameTables, NothingToDo, next
<1>9. CASE op.kind = "change"
    <2>1. /\ op.row = d /\ op.member \in memory.directory.active
          /\ memory.rows[d].version = op.expected /\ ~moves /\ op.expected \in Int
          /\ memory.rows[d].state = op.target \/ memory.rows[d].state = "live"
        BY <1>9 DEF Allowed, ChangeAllowed, OperationType
    <2>2. CASE memory.rows[d].state = op.target
        <3>1. Touched(op, d) = {}
            BY <1>9, <2>2 DEF Touched
        <3>2. memory.rows[d] = [version |-> op.expected, state |-> op.target]
            BY <1>3, <2>1, <2>2 DEF RowType
        <3> QED BY <1>2, <1>6, <1>7, <1>9, <2>1, <3>1, <3>2 DEF SameTables, NothingToDo, next
    <2>3. CASE memory.rows[d].state # op.target
        <3>1. Touched(op, d) = {d} /\ memory.rows[d].state = "live"
            BY <1>9, <2>1, <2>3 DEF Touched
        <3>2. rows = [memory.rows EXCEPT ![d] = [version |-> op.expected + 1, state |-> op.target]]
            BY <1>3, <1>9, <2>1, <3>1
        <3>3. rows[d].version # memory.rows[d].version
            BY <1>3, <2>1, <3>2
        <3>4. next # memory
            BY <1>2, <3>3
        <3> HIDE DEF rows
        <3> QED BY <1>2, <1>6, <1>9, <2>1, <3>1, <3>2, <3>4 DEF Effects, next
    <2> QED BY <2>2, <2>3
<1>10. CASE op.kind = "directory"
    <2>1. Admin \in memory.directory.active /\ memory.directory.revision = op.expected
        BY <1>10 DEF Allowed, DirectoryAllowed
    <2>2. CASE ~moves
        <3>1. Touched(op, d) = {}
            BY <1>10, <2>2 DEF Touched
        <3> QED BY <1>2, <1>6, <1>7, <1>10, <2>1, <2>2, <3>1 DEF SameTables, NothingToDo, next
    <2>3. CASE moves
        <3>1. Touched(op, d) = Unerased
            BY <1>10, <2>3 DEF Touched
        <3>2. ASSUME NEW r \in Disclosures
              PROVE  row(r) = IF memory.rows[r].state = "erased" THEN memory.rows[r]
                              ELSE [memory.rows[r] EXCEPT !.version = @ + 1]
            <4>1. memory.rows[r] \in RowType
                BY <1>3
            <4> QED BY <1>10, <3>1, <4>1 DEF Unerased, RowType
        <3>3. next.directory.active = op.active
            BY <1>2, <2>3
        <3>4. next # memory
            BY <2>3, <3>3
        <3> QED BY <1>2, <1>6, <1>10, <2>1, <2>3, <3>2, <3>4 DEF Effects, next
    <2> QED BY <2>2, <2>3
<1>11. CASE op.kind = "sweep"
    <2>1. Touched(op, d) = {d} /\ ~moves /\ memory.rows[d].state = "retired"
        BY <1>11 DEF Touched, Retired
    <2>2. rows = [memory.rows EXCEPT ![d].state = "erased", ![d].version = @ + 2]
        <3> DEFINE first == [memory.rows EXCEPT ![d].state = "erased"]
                   both == [first EXCEPT ![d].version = @ + 2]
        <3>1. /\ first \in [Disclosures -> RowType]
              /\ first[d] = [version |-> memory.rows[d].version, state |-> "erased"]
              /\ \A r \in Disclosures \ {d} : first[r] = memory.rows[r]
            <4>1. [memory.rows[d] EXCEPT !.state = "erased"]
                      = [version |-> memory.rows[d].version, state |-> "erased"]
                BY <1>3 DEF RowType
            <4>2. [version |-> memory.rows[d].version, state |-> "erased"] \in RowType
                BY <1>3 DEF RowType
            <4> QED BY <1>3, <4>1, <4>2
        <3> HIDE DEF first
        <3>2. [first[d] EXCEPT !.version = @ + 2]
                  = [version |-> memory.rows[d].version + 2, state |-> "erased"]
            BY <3>1
        <3>3. /\ DOMAIN both = Disclosures /\ both[d] = row(d)
              /\ \A r \in Disclosures \ {d} : both[r] = row(r)
            BY <1>11, <2>1, <3>1, <3>2
        <3>4. both = [r \in Disclosures |-> both[r]]
            BY <3>1
        <3>5. both = rows
            <4>1. \A r \in Disclosures : both[r] = row(r)
                BY <3>3
            <4> HIDE DEF both, row
            <4> QED BY <3>4, <4>1
        <3> QED BY <3>5 DEF first
    <2>3. rows[d].state = "erased"
        BY <1>11, <2>1
    <2>4. next # memory
        BY <1>2, <2>1, <2>3
    <2> HIDE DEF rows
    <2> QED BY <1>2, <1>6, <1>11, <2>1, <2>2, <2>4 DEF Effects, next
<1> QED BY <1>5, <1>8, <1>9, <1>10, <1>11

(* One call's answer, seen by the callers.                                   *)
Publishing == current.pc = "publish" /\ current.outcome = "committed"

LEMMA QuietStatus ==
    ASSUME ~Publishing, NEW c \in Callers
    PROVE  CallStatus(c) = calls[c]
BY DEF Publishing, CallStatus

LEMMA AnswerBecomes ==
    ASSUME TypeOK, NEW c \in Callers, NEW status \in {"ok", "rejected", "unknown"},
           Answer(c, status), current' = Idle,
           \A b \in Callers \ {c} : CallStatus(b) = calls[b]
    PROVE  Atomic!Becomes(c, status)
<1>1. \A b \in Callers : CallStatus(b)' = calls'[b]
    BY DEF CallStatus, Idle
<1>2. /\ calls'[c] = [status |-> status, op |-> [kind |-> "none"]]
      /\ \A b \in Callers \ {c} : calls'[b] = calls[b]
    BY DEF Answer, Nothing, TypeOK
<1> QED BY <1>1, <1>2 DEF Atomic!Becomes

LEMMA CallsStand ==
    ASSUME UNCHANGED calls, ~Publishing, ~Publishing'
    PROVE  UNCHANGED [c \in Callers |-> CallStatus(c)]
BY DEF CallStatus, Publishing

LEMMA EffectIsAtomic ==
    ASSUME NEW op, Effects(op, disk, disk')
    PROVE  Atomic!Effect(op)
BY DEF Effects, Atomic!Effect, Atomic!ChangeRow, Atomic!ChangeDirectory, Atomic!EraseOne

LEMMA NothingIsHarmless ==
    ASSUME NEW op, NothingToDo(op, disk)
    PROVE  Atomic!Harmless(op)
BY DEF NothingToDo, Atomic!Harmless

(* A call that had no effect is answered.                                    *)
LEMMA AnswerWaiting ==
    ASSUME TypeOK, NEW c \in Callers, calls[c].status = "waiting", ~Publishing,
           NEW status \in {"ok", "rejected", "unknown"}, Answer(c, status), current' = Idle,
           disk'.rows = disk.rows, disk'.directory = disk.directory,
           status = "ok" => calls[c].op.kind = "sweep" \/ NothingToDo(calls[c].op, disk)
    PROVE  Atomic!Answer(c)
<1>1. \A b \in Callers : CallStatus(b) = calls[b]
    BY QuietStatus
<1>2. Atomic!Becomes(c, status)
    BY <1>1, AnswerBecomes
<1>3. Atomic!Status(c) = "waiting"
    BY <1>1 DEF Atomic!Status
<1>4. status = "ok" => Atomic!Harmless([b \in Callers |-> CallStatus(b)][c].op)
    BY <1>1, NothingIsHarmless DEF Atomic!Harmless
<1> QED BY <1>2, <1>3, <1>4 DEF Atomic!Answer

---------------------------------------------------------------------------
(* One lemma per action: the rest of the invariant, and the abstract step.   *)

AtomicallyOrNot == [Atomic!Next]_(Atomic!atomicVars)

LEMMA SubmitAtomic ==
    ASSUME OwnerInv, BatchMeans, NEW c \in Callers, NEW op \in Operations, Submit(c, op)
    PROVE  BatchMeans' /\ AtomicallyOrNot
<1>1. /\ calls \in CallsType /\ calls[c].status # "waiting"
      /\ calls' = [calls EXCEPT ![c] = [status |-> "waiting", op |-> op]]
      /\ UNCHANGED <<disk, memory, current>>
    BY DEF OwnerInv, TypeOK, CallsType, Submit
<1>2. Running => current.caller \in Callers \ {c}
    BY <1>1 DEF OwnerInv, TypeOK, ChainOK, Running, Idle
<1>3. BatchMeans'
    <2>1. Running => RunningOp' = RunningOp
        BY <1>1, <1>2 DEF RunningOp, CallsType
    <2> QED BY <1>1, <2>1 DEF BatchMeans, Running
<1>4. CallStatus(c) = calls[c] /\ CallStatus(c)' = [status |-> "waiting", op |-> op]
    BY <1>1, <1>2 DEF CallStatus, Running, CallsType
<1>5. \A b \in Callers \ {c} : CallStatus(b)' = CallStatus(b)
    BY <1>1 DEF CallStatus, CallsType
<1>6. calls[c].status # "done"
    BY <1>1 DEF CallsType
<1>7. Atomic!Submit(c, op)
    BY <1>1, <1>4, <1>5, <1>6 DEF Atomic!Submit, Atomic!Status
<1> QED BY <1>3, <1>7 DEF AtomicallyOrNot, Atomic!Next

LEMMA BeginAtomic ==
    ASSUME OwnerInv, BatchMeans, Begin
    PROVE  BatchMeans' /\ AtomicallyOrNot
<1> DEFINE c == Head(queue)
<1>1. TypeOK /\ current = Idle /\ queue # <<>> /\ UNCHANGED <<disk, memory>>
    BY DEF OwnerInv, Begin
<1>2. c \in Callers /\ calls[c].status = "waiting" /\ calls[c].op \in OperationType
    BY <1>1, TailFacts DEF OwnerInv, ChainOK, TypeOK
<1>3. ~Publishing
    BY <1>1 DEF Publishing, Idle
<1>4. ASSUME NEW status \in {"ok", "rejected", "unknown"}, Answer(c, status), current' = Idle,
             status = "ok" => calls[c].op.kind = "sweep"
      PROVE  BatchMeans' /\ AtomicallyOrNot
    <2>1. BatchMeans'
        BY <1>4 DEF BatchMeans, Idle
    <2>2. Atomic!Answer(c)
        BY <1>1, <1>2, <1>3, <1>4, AnswerWaiting
    <2> QED BY <1>2, <2>1, <2>2 DEF AtomicallyOrNot, Atomic!Next
<1>5. CASE unavailable
    <2>1. Answer(c, "unknown") /\ current' = Idle
        BY <1>1, <1>5 DEF Begin
    <2> QED BY <1>4, <2>1
<1>6. CASE Admit(c)
    <2>1. CASE \E status \in {"ok", "rejected"} :
                   /\ Answer(c, status) /\ current' = Idle
                   /\ status = "ok" => calls[c].op.kind = "sweep"
        BY <1>4, <2>1
    <2>2. CASE UNCHANGED calls /\ \E d \in Disclosures, pc \in {"attempt", "decide"} :
                   /\ current' = [pc |-> pc, caller |-> c, row |-> d]
                   /\ calls[c].op.kind = "sweep" => d \in Retired(memory)
        <3>1. current'.pc \in {"attempt", "decide"} /\ current'.caller = c
              /\ (calls[c].op.kind = "sweep" => current'.row \in Retired(memory))
            BY <2>2
        <3>2. Retired(memory') = Retired(memory)
            BY <1>1
        <3>3. BatchMeans'
            BY <1>1, <2>2, <3>1, <3>2 DEF BatchMeans, RunningOp
        <3>4. ~Publishing'
            BY <3>1 DEF Publishing
        <3>5. UNCHANGED Atomic!atomicVars
            BY <1>1, <1>3, <2>2, <3>4, CallsStand DEF Atomic!atomicVars
        <3> QED BY <3>3, <3>5 DEF AtomicallyOrNot
    <2> QED BY <1>1, <1>2, <1>6, <2>1, <2>2, AdmitFacts
<1> QED BY <1>5, <1>6 DEF Begin

LEMMA WriteAttemptAtomic ==
    ASSUME OwnerInv, BatchMeans, WriteAttempt
    PROVE  BatchMeans' /\ AtomicallyOrNot
<1> DEFINE op == RunningOp
           next == Attempted(memory, op)
<1>1. /\ TypeOK /\ current.pc = "attempt" /\ Running /\ memory = disk /\ memory \in StoreType
      /\ op \in OperationType /\ op.kind # "credential"
      /\ current.caller \in Callers /\ calls[current.caller].status = "waiting"
    BY DEF OwnerInv, WriteAttempt, Running, ChainOK, ServesDurableState, TypeOK, Idle
<1>2. next.rows = memory.rows /\ next.directory = memory.directory
    BY <1>1, AttemptedType
<1>3. \/ Landed(next) /\ current' = [current EXCEPT !.pc = "decide"] /\ UNCHANGED calls
      \/ Failed(next) /\ current' = Idle /\ Answer(current.caller, "unknown")
    BY DEF WriteAttempt, RunningOp
<1>4. current \in [pc : {"attempt", "decide"}, caller : Callers, row : Disclosures]
    BY <1>1 DEF OwnerInv, CurrentType, Idle
<1>5. ~Publishing
    BY <1>1 DEF Publishing
<1> HIDE DEF next
<1>6. CASE Landed(next) /\ current' = [current EXCEPT !.pc = "decide"] /\ UNCHANGED calls
    <2>1. /\ current'.pc = "decide" /\ current'.caller = current.caller /\ current'.row = current.row
        BY <1>4, <1>6
    <2>2. disk' = next /\ memory' = next
        BY <1>6 DEF Landed
    <2>3. Retired(memory') = Retired(memory)
        BY <1>2, <2>2 DEF Retired
    <2>4. BatchMeans'
        BY <1>1, <1>6, <2>1, <2>3 DEF BatchMeans, RunningOp
    <2>5. ~Publishing'
        BY <2>1 DEF Publishing
    <2>6. UNCHANGED Atomic!atomicVars
        BY <1>1, <1>2, <1>5, <1>6, <2>2, <2>5, CallsStand DEF Atomic!atomicVars
    <2> QED BY <2>4, <2>6 DEF AtomicallyOrNot
<1>7. CASE Failed(next) /\ current' = Idle /\ Answer(current.caller, "unknown")
    <2>1. BatchMeans'
        BY <1>7 DEF BatchMeans, Idle
    <2>2. disk'.rows = disk.rows /\ disk'.directory = disk.directory
        BY <1>1, <1>2, <1>7 DEF Failed
    <2>3. Atomic!Answer(current.caller)
        BY <1>1, <1>5, <1>7, <2>2, AnswerWaiting
    <2> QED BY <1>1, <2>1, <2>3 DEF AtomicallyOrNot, Atomic!Next
<1> QED BY <1>3, <1>6, <1>7

(* The decision is remembered, or answered at once when nothing is written.  *)
LEMMA PrepareAtomic ==
    ASSUME OwnerInv, current.pc = "decide",
           NEW next, NEW outcome \in Outcomes, NEW touched,
           Prepare(next, outcome, touched), UNCHANGED <<disk, memory>>,
           outcome = "committed" => Effects(RunningOp, memory, next),
           outcome # "committed" => SameTables(memory, next),
           outcome \in {"observed", "unchanged"} => NothingToDo(RunningOp, memory)
    PROVE  BatchMeans' /\ AtomicallyOrNot
<1>1. /\ TypeOK /\ Running /\ memory = disk /\ current.caller \in Callers
      /\ calls[current.caller].status = "waiting"
    BY DEF OwnerInv, Running, ChainOK, ServesDurableState, TypeOK, Idle
<1>2. ~Publishing
    BY DEF Publishing
<1>3. CASE /\ OnlyJournaled(RunningOp, outcome)
           /\ current' = Idle
           /\ Answer(current.caller, IF outcome = "rejected" THEN "rejected" ELSE "ok")
    <2>1. BatchMeans'
        BY <1>3 DEF BatchMeans, Idle
    <2>2. outcome # "rejected" => outcome \in {"observed", "unchanged"}
        BY <1>3 DEF OnlyJournaled
    <2>3. PICK status \in {"ok", "rejected"} :
              Answer(current.caller, status) /\ (status = "ok" => NothingToDo(RunningOp, disk))
        BY <1>1, <1>3, <2>2
    <2>4. Atomic!Answer(current.caller)
        BY <1>1, <1>2, <1>3, <2>3, AnswerWaiting DEF RunningOp
    <2> QED BY <1>1, <2>1, <2>4 DEF AtomicallyOrNot, Atomic!Next
<1>4. CASE /\ current' = [pc |-> "write", caller |-> current.caller, next |-> next,
                          outcome |-> outcome, touched |-> touched]
           /\ UNCHANGED calls
    <2>1. /\ current'.pc = "write" /\ current'.caller = current.caller
          /\ current'.next = next /\ current'.outcome = outcome
        BY <1>4
    <2>2. RunningOp' = RunningOp
        BY <1>4, <2>1 DEF RunningOp
    <2>3. BatchMeans'
        BY <2>1, <2>2 DEF BatchMeans
    <2>4. ~Publishing'
        BY <2>1 DEF Publishing
    <2>5. UNCHANGED Atomic!atomicVars
        BY <1>2, <1>4, <2>4, CallsStand DEF Atomic!atomicVars
    <2> QED BY <2>3, <2>5 DEF AtomicallyOrNot
<1> QED BY <1>3, <1>4 DEF Prepare, RunningOp

LEMMA DecideAtomic ==
    ASSUME OwnerInv, BatchMeans, Decide
    PROVE  BatchMeans' /\ AtomicallyOrNot
<1> DEFINE op == RunningOp
           d == current.row
<1>1. /\ TypeOK /\ current.pc = "decide" /\ Running /\ Serving /\ memory = disk /\ memory \in StoreType
      /\ op \in OperationType /\ d \in Disclosures /\ current.caller \in Callers
      /\ calls[current.caller].status = "waiting" /\ UNCHANGED <<disk, memory>>
    BY DEF OwnerInv, Decide, Running, ChainOK, ServesDurableState, TypeOK, CurrentType, Idle
<1>2. /\ op.kind \in {"read", "change"} => op.row = d
      /\ op.kind = "sweep" => d \in Retired(memory)
    BY <1>1 DEF OwnerInv, ChainOK, BatchMeans
<1>3. CASE op.kind = "credential" /\ CheckCredential(op)
    <2>1. cache = memory.directory.active
        BY <1>1 DEF OwnerInv, CacheOK
    <2>2. PICK status \in {"ok", "rejected"} : /\ Answer(current.caller, status) /\ current' = Idle
                                               /\ status = "ok" => NothingToDo(op, disk)
        BY <1>1, <1>3, <2>1 DEF CheckCredential, NothingToDo
    <2>3. BatchMeans'
        BY <2>2 DEF BatchMeans, Idle
    <2>4. ~Publishing
        BY <1>1 DEF Publishing
    <2>5. Atomic!Answer(current.caller)
        BY <1>1, <2>2, <2>4, AnswerWaiting DEF RunningOp
    <2> QED BY <1>1, <2>3, <2>5 DEF AtomicallyOrNot, Atomic!Next
<1>4. CASE op.kind # "credential" /\ Refuse
    <2> DEFINE next == Completed(memory, "rejected", 0)
    <2>1. next.rows = memory.rows /\ next.directory = memory.directory
        BY <1>1, CompletedType DEF Outcomes
    <2>2. Prepare(next, "rejected", {})
        BY <1>4 DEF Refuse
    <2> HIDE DEF next
    <2> QED BY <1>1, <2>1, <2>2, PrepareAtomic DEF Outcomes, SameTables
<1>5. CASE /\ op.kind # "credential" /\ Allowed(op, d)
           /\ Prepare(Completed(Changed(op, d), OutcomeOf(op, d), VersionsTaken(op, d)),
                      OutcomeOf(op, d), Touched(op, d))
    <2> DEFINE outcome == OutcomeOf(op, d)
               next == Completed(Changed(op, d), outcome, VersionsTaken(op, d))
    <2>1. Changed(op, d) \in StoreType /\ Touched(op, d) \subseteq Disclosures
        BY <1>1, <1>2, <1>5, ChangedFacts
    <2>2. outcome \in Outcomes
        BY DEF OutcomeOf, Outcomes
    <2>3. VersionsTaken(op, d) \in Nat
        BY <2>1, FS_Subset, FS_CardinalityType, OwnerAssumption DEF VersionsTaken
    <2>4. next.rows = Changed(op, d).rows /\ next.directory = Changed(op, d).directory
        BY <2>1, <2>2, <2>3, CompletedType
    <2>5. /\ outcome \in {"observed", "unchanged", "committed"}
          /\ outcome = "committed" => Effects(op, memory, Changed(op, d))
          /\ outcome # "committed" => SameTables(memory, Changed(op, d)) /\ NothingToDo(op, memory)
        BY <1>1, <1>2, <1>5, OutcomeMeans
    <2>6. Prepare(next, outcome, Touched(op, d))
        BY <1>5
    <2> HIDE DEF next, outcome, op, d
    <2>7. outcome = "committed" => Effects(op, memory, next)
        BY <2>4, <2>5 DEF Effects
    <2>8. outcome # "committed" => SameTables(memory, next)
        BY <2>4, <2>5 DEF SameTables
    <2> QED BY <1>1, <2>2, <2>5, <2>6, <2>7, <2>8, PrepareAtomic DEF op
<1> QED BY <1>3, <1>4, <1>5 DEF Decide, RunningOp

(* The batch lands, with or without being acknowledged, or does not.         *)
LEMMA WriteOutcomeAtomic ==
    ASSUME OwnerInv, BatchMeans, WriteOutcome
    PROVE  BatchMeans' /\ AtomicallyOrNot
<1> DEFINE c == current.caller
<1>1. /\ TypeOK /\ calls \in CallsType /\ current.pc = "write" /\ Running /\ memory = disk
      /\ c \in Callers /\ calls[c].status = "waiting" /\ ~Publishing
    BY DEF OwnerInv, WriteOutcome, Running, ChainOK, ServesDurableState, TypeOK, CallsType, Idle, Publishing
<1>2. current \in [pc : {"write", "publish"}, caller : Callers, next : StoreType,
                  outcome : Outcomes, touched : SUBSET Disclosures]
    BY <1>1 DEF OwnerInv, CurrentType, Idle
<1>3. \A b \in Callers : CallStatus(b) = calls[b]
    BY <1>1, QuietStatus
<1>4. Atomic!Status(c) = "waiting" /\ [b \in Callers |-> CallStatus(b)][c].op = RunningOp
    BY <1>1, <1>3 DEF Atomic!Status, RunningOp
<1>5. CASE /\ Landed(current.next) /\ current' = [current EXCEPT !.pc = "publish"] /\ UNCHANGED calls
    <2>1. /\ current'.pc = "publish" /\ current'.caller = c /\ current'.outcome = current.outcome
        BY <1>2, <1>5
    <2>2. disk' = current.next /\ memory' = current.next /\ RunningOp' = RunningOp
        BY <1>5, <2>1 DEF Landed, RunningOp
    <2>3. BatchMeans'
        <3>1. CASE current.outcome \in {"observed", "unchanged"}
            <4>1. SameTables(memory, current.next) /\ NothingToDo(RunningOp, memory)
                BY <1>1, <3>1 DEF BatchMeans
            <4>2. NothingToDo(RunningOp, memory')
                BY <2>2, <4>1 DEF SameTables, NothingToDo
            <4> QED BY <2>1, <2>2, <4>2 DEF BatchMeans
        <3>2. CASE current.outcome \notin {"observed", "unchanged"}
            BY <2>1, <3>2 DEF BatchMeans
        <3> QED BY <3>1, <3>2
    <2>4. CASE current.outcome = "committed"
        <3>1. Atomic!Effect(RunningOp)
            BY <1>1, <2>2, <2>4, EffectIsAtomic DEF BatchMeans
        <3>2. \A b \in Callers : b = c => CallStatus(b)' = [status |-> "done", op |-> calls[c].op]
            BY <1>1, <1>5, <2>1, <2>4 DEF CallStatus, CallsType
        <3>3. \A b \in Callers \ {c} : CallStatus(b)' = calls[b]
            BY <1>5, <2>1 DEF CallStatus
        <3>4. Atomic!Becomes(c, "done")
            <4> DEFINE before == [b \in Callers |-> CallStatus(b)]
                       after  == [b \in Callers |-> CallStatus(b)']
            <4>1. before[c].op = calls[c].op /\ "done" \in {"waiting", "done"}
                BY <1>1, <1>3
            <4>2. after = [before EXCEPT ![c] = [status |-> "done", op |-> before[c].op]]
                <5>1. \A b \in Callers : before[b] = calls[b]
                    BY <1>3
                <5>2. \A b \in Callers : after[b] = CallStatus(b)'
                    OBVIOUS
                <5>3. DOMAIN before = Callers /\ before = [b \in Callers |-> before[b]]
                    OBVIOUS
                <5>4. DOMAIN after = Callers /\ after = [b \in Callers |-> after[b]]
                    OBVIOUS
                <5> DEFINE done == [status |-> "done", op |-> before[c].op]
                <5>5. after[c] = done /\ \A b \in Callers \ {c} : after[b] = before[b]
                    BY <1>1, <3>2, <3>3, <4>1, <5>1, <5>2
                <5> HIDE DEF before, after, done, c
                <5>6. after = [before EXCEPT ![c] = done]
                    BY <5>3, <5>4, <5>5
                <5> QED BY <5>6 DEF done
            <4> HIDE DEF c
            <4> QED BY <4>1, <4>2 DEF Atomic!Becomes
        <3>5. Atomic!TakeEffect(c)
            BY <1>4, <3>1, <3>4 DEF Atomic!TakeEffect
        <3> QED BY <1>1, <2>3, <3>5 DEF AtomicallyOrNot, Atomic!Next
    <2>5. CASE current.outcome # "committed"
        <3>1. ~Publishing'
            BY <2>1, <2>5 DEF Publishing
        <3>2. SameTables(memory, current.next)
            BY <1>1, <2>5 DEF BatchMeans
        <3>3. UNCHANGED Atomic!atomicVars
            BY <1>1, <1>5, <2>2, <3>1, <3>2, CallsStand DEF Atomic!atomicVars, SameTables
        <3> QED BY <2>3, <3>3 DEF AtomicallyOrNot
    <2> QED BY <2>4, <2>5
<1>6. CASE Failed(current.next) /\ current' = Idle /\ Answer(c, "unknown")
    <2>1. BatchMeans'
        BY <1>6 DEF BatchMeans, Idle
    <2>2. CASE disk' = current.next /\ current.outcome = "committed"
        <3>1. Atomic!Effect(RunningOp)
            BY <1>1, <2>2, EffectIsAtomic DEF BatchMeans
        <3>2. Atomic!Becomes(c, "unknown")
            BY <1>1, <1>3, <1>6, AnswerBecomes
        <3>3. Atomic!TakeEffect(c)
            BY <1>4, <3>1, <3>2 DEF Atomic!TakeEffect
        <3> QED BY <1>1, <2>1, <3>3 DEF AtomicallyOrNot, Atomic!Next
    <2>3. CASE disk' = disk \/ current.outcome # "committed"
        <3>1. disk'.rows = disk.rows /\ disk'.directory = disk.directory
            BY <1>1, <1>6, <2>3 DEF Failed, BatchMeans, SameTables
        <3>2. Atomic!Answer(c)
            BY <1>1, <1>6, <3>1, AnswerWaiting
        <3> QED BY <1>1, <2>1, <3>2 DEF AtomicallyOrNot, Atomic!Next
    <2> QED BY <1>6, <2>2, <2>3 DEF Failed
<1> QED BY <1>5, <1>6 DEF WriteOutcome

LEMMA PublishAtomic ==
    ASSUME OwnerInv, BatchMeans, Publish
    PROVE  BatchMeans' /\ AtomicallyOrNot
<1> DEFINE c == current.caller
<1>1. /\ TypeOK /\ calls \in CallsType /\ current.pc = "publish" /\ Running /\ memory = disk
      /\ c \in Callers /\ calls[c].status = "waiting" /\ RunningOp \in OperationType
      /\ UNCHANGED <<disk, memory>>
    BY DEF OwnerInv, Publish, Running, ChainOK, ServesDurableState, TypeOK, CallsType, Idle
<1>2. current \in [pc : {"write", "publish"}, caller : Callers, next : StoreType,
                  outcome : Outcomes, touched : SUBSET Disclosures]
    BY <1>1 DEF OwnerInv, CurrentType, Idle
<1>3. \A b \in Callers \ {c} : CallStatus(b) = calls[b]
    BY DEF CallStatus
<1>4. ASSUME current' = Idle PROVE BatchMeans'
    BY <1>4 DEF BatchMeans, Idle
<1>5. CASE current.outcome = "committed"
    <2>1. CallStatus(c) = [status |-> "done", op |-> calls[c].op]
        BY <1>1, <1>5 DEF CallStatus, CallsType
    <2>2. Atomic!Status(c) = "done" /\ [b \in Callers |-> CallStatus(b)][c].op = calls[c].op
        BY <1>1, <2>1 DEF Atomic!Status
    <2>3. ASSUME NEW status \in {"ok", "rejected"}, Answer(c, status), current' = Idle,
                 status = "ok" \/ calls[c].op.kind = "sweep"
          PROVE  BatchMeans' /\ AtomicallyOrNot
        <3>1. Atomic!Becomes(c, status)
            BY <1>1, <1>3, <2>3, AnswerBecomes
        <3>2. Atomic!Answer(c)
            BY <1>1, <2>2, <2>3, <3>1 DEF Atomic!Answer
        <3> QED BY <1>1, <1>4, <2>3, <3>2 DEF AtomicallyOrNot, Atomic!Next
    <2>4. CASE calls[c].op.kind # "sweep"
        <3>1. Answer(c, "ok") /\ current' = Idle
            BY <1>5, <2>4 DEF Publish
        <3> QED BY <2>3, <3>1
    <2>5. CASE calls[c].op.kind = "sweep"
        <3>1. Admit(c)
            BY <1>5, <2>5 DEF Publish
        <3>2. CASE \E status \in {"ok", "rejected"} : Answer(c, status) /\ current' = Idle
            BY <2>3, <2>5, <3>2
        <3>3. CASE UNCHANGED calls /\ \E d \in Disclosures, pc \in {"attempt", "decide"} :
                       /\ current' = [pc |-> pc, caller |-> c, row |-> d]
                       /\ calls[c].op.kind = "sweep" => d \in Retired(memory)
            <4>1. current'.pc \in {"attempt", "decide"} /\ current'.caller = c
                  /\ current'.row \in Retired(memory)
                BY <2>5, <3>3
            <4>2. Retired(memory') = Retired(memory)
                BY <1>1
            <4>3. BatchMeans'
                BY <4>1, <4>2 DEF BatchMeans
            <4>4. \A b \in Callers : CallStatus(b)' = calls[b]
                BY <3>3, <4>1 DEF CallStatus
            <4>5. calls[c] = [status |-> "waiting", op |-> calls[c].op]
                BY <1>1 DEF CallsType
            <4>6. Atomic!Becomes(c, "waiting")
                BY <1>1, <1>3, <2>2, <4>4, <4>5 DEF Atomic!Becomes
            <4>7. Atomic!Answer(c)
                BY <1>1, <2>2, <2>5, <4>6 DEF Atomic!Answer
            <4> QED BY <1>1, <4>3, <4>7 DEF AtomicallyOrNot, Atomic!Next
        <3> QED BY <1>1, <3>1, <3>2, <3>3, AdmitFacts DEF RunningOp
    <2> QED BY <2>4, <2>5
<1>6. CASE current.outcome # "committed"
    <2>1. /\ current' = Idle
          /\ Answer(c, IF current.outcome = "rejected" THEN "rejected" ELSE "ok")
        BY <1>6 DEF Publish
    <2>2. current.outcome # "rejected" => NothingToDo(RunningOp, disk)
        BY <1>1, <1>2, <1>6 DEF BatchMeans, Outcomes
    <2>3. ~Publishing
        BY <1>6 DEF Publishing
    <2>4. PICK status \in {"ok", "rejected"} :
              Answer(c, status) /\ (status = "ok" => NothingToDo(RunningOp, disk))
        BY <2>1, <2>2
    <2>5. Atomic!Answer(c)
        BY <1>1, <2>1, <2>3, <2>4, AnswerWaiting DEF RunningOp
    <2> QED BY <1>1, <1>4, <2>1, <2>5 DEF AtomicallyOrNot, Atomic!Next
<1> QED BY <1>5, <1>6

(* A crash may land the batch it interrupts, and answers nobody.             *)
LEMMA LifeAtomic ==
    ASSUME OwnerInv, BatchMeans, Close \/ Drained \/ Crash \/ Reopen
    PROVE  BatchMeans' /\ AtomicallyOrNot
<1>1. TypeOK /\ calls \in CallsType
    BY DEF OwnerInv, TypeOK, CallsType
<1>2. CASE Close
    <2>1. UNCHANGED <<disk, memory, current, calls>>
        BY <1>2 DEF Close
    <2>2. BatchMeans'
        BY <2>1 DEF BatchMeans, RunningOp
    <2>3. UNCHANGED Atomic!atomicVars
        BY <2>1 DEF Atomic!atomicVars, CallStatus
    <2> QED BY <2>2, <2>3 DEF AtomicallyOrNot
<1>3. CASE Drained \/ Reopen
    <2>1. UNCHANGED <<disk, current, calls>> /\ current = Idle
        BY <1>3 DEF Drained, Reopen, OwnerInv, ChainOK, Running, Serving, CurrentType, Idle
    <2>2. BatchMeans'
        BY <2>1 DEF BatchMeans, Idle
    <2>3. UNCHANGED Atomic!atomicVars
        BY <2>1 DEF Atomic!atomicVars, CallStatus, Idle
    <2> QED BY <2>2, <2>3 DEF AtomicallyOrNot
<1>4. CASE Crash
    <2>1. current' = Idle
        BY <1>4 DEF Crash
    <2>2. BatchMeans'
        BY <2>1 DEF BatchMeans, Idle
    <2>3. ASSUME NEW b \in Callers
          PROVE  CallStatus(b)' = IF CallStatus(b).status \in {"waiting", "done"}
                                  THEN [status |-> "lost", op |-> [kind |-> "none"]]
                                  ELSE CallStatus(b)
        <3>1. CallStatus(b)' = IF calls[b].status = "waiting"
                               THEN [status |-> "lost", op |-> [kind |-> "none"]] ELSE calls[b]
            BY <1>4, <2>1 DEF Crash, CallStatus, Idle, Nothing
        <3>2. calls[b].status # "done"
            BY <1>1 DEF CallsType
        <3>3. Running => calls[current.caller].status = "waiting"
            BY DEF OwnerInv, ChainOK
        <3>4. CASE Publishing /\ current.caller = b
            <4>1. CallStatus(b).status = "done" /\ calls[b].status = "waiting"
                BY <1>1, <3>3, <3>4 DEF CallStatus, Publishing, Running, CallsType
            <4> QED BY <3>1, <4>1
        <3>5. CASE ~(Publishing /\ current.caller = b)
            <4>1. CallStatus(b) = calls[b]
                BY <3>5 DEF CallStatus, Publishing
            <4> QED BY <3>1, <3>2, <4>1
        <3> QED BY <3>4, <3>5
    <2>4. \/ disk'.rows = disk.rows /\ disk'.directory = disk.directory
          \/ \E c \in Callers : Atomic!Status(c) = "waiting"
                                /\ Atomic!Effect([b \in Callers |-> CallStatus(b)][c].op)
        <3>1. CASE current.pc = "write"
            <4>1. /\ Running /\ memory = disk /\ current.caller \in Callers
                  /\ calls[current.caller].status = "waiting" /\ ~Publishing
                BY <3>1 DEF OwnerInv, ChainOK, ServesDurableState, Running, TypeOK, Idle, Publishing
            <4>2. CASE disk' = current.next /\ current.outcome = "committed"
                <5>1. Atomic!Effect(RunningOp)
                    BY <3>1, <4>1, <4>2, EffectIsAtomic DEF BatchMeans
                <5>2. CallStatus(current.caller) = calls[current.caller]
                    BY <4>1, QuietStatus
                <5> QED BY <4>1, <5>1, <5>2 DEF Atomic!Status, RunningOp
            <4>3. CASE disk' = disk \/ current.outcome # "committed"
                BY <1>4, <3>1, <4>1, <4>3 DEF Crash, BatchMeans, SameTables
            <4> QED BY <1>4, <3>1, <4>2, <4>3 DEF Crash
        <3>2. CASE current.pc = "attempt"
            <4>1. /\ RunningOp \in OperationType /\ RunningOp.kind # "credential"
                  /\ memory = disk /\ memory \in StoreType
                BY <3>2 DEF OwnerInv, ChainOK, ServesDurableState, Running, TypeOK
            <4>2. /\ Attempted(memory, RunningOp).rows = disk.rows
                  /\ Attempted(memory, RunningOp).directory = disk.directory
                BY <4>1, AttemptedType
            <4> QED BY <1>4, <3>2, <4>2 DEF Crash, RunningOp
        <3>3. CASE current.pc \notin {"write", "attempt"}
            BY <1>4, <3>3 DEF Crash
        <3> QED BY <3>1, <3>2, <3>3
    <2>5. Atomic!Crash
        BY <2>3, <2>4 DEF Atomic!Crash, Atomic!Status
    <2> QED BY <2>2, <2>5 DEF AtomicallyOrNot, Atomic!Next
<1> QED BY <1>2, <1>3, <1>4

LEMMA StepAtomic == OwnerInv /\ BatchMeans /\ [Next]_vars => BatchMeans' /\ AtomicallyOrNot
<1> SUFFICES ASSUME OwnerInv, BatchMeans, [Next]_vars PROVE BatchMeans' /\ AtomicallyOrNot
    OBVIOUS
<1>1. CASE \E c \in Callers, op \in Operations : Submit(c, op)
    BY <1>1, SubmitAtomic
<1>2. CASE Begin
    BY <1>2, BeginAtomic
<1>3. CASE WriteAttempt
    BY <1>3, WriteAttemptAtomic
<1>4. CASE Decide
    BY <1>4, DecideAtomic
<1>5. CASE WriteOutcome
    BY <1>5, WriteOutcomeAtomic
<1>6. CASE Publish
    BY <1>6, PublishAtomic
<1>7. CASE Close \/ Drained \/ Crash \/ Reopen
    BY <1>7, LifeAtomic
<1>8. CASE UNCHANGED vars
    <2>1. BatchMeans'
        BY <1>8 DEF vars, BatchMeans, RunningOp
    <2>2. UNCHANGED Atomic!atomicVars
        BY <1>8 DEF vars, Atomic!atomicVars, CallStatus
    <2> QED BY <2>1, <2>2 DEF AtomicallyOrNot
<1> QED BY <1>1, <1>2, <1>3, <1>4, <1>5, <1>6, <1>7, <1>8 DEF Next, Step

(* Every call takes effect at most once, at one instant between its          *)
(* submission and its answer, and the answer tells whether it did, through   *)
(* rejected writes, isolation, close and crash, for any number of callers.   *)
THEOREM OwnerIsAtomic == Spec => ImplementsAtomicOwner
<1>1. Init => BatchMeans /\ Atomic!Init
    <2> SUFFICES ASSUME Init PROVE BatchMeans /\ Atomic!Init
        OBVIOUS
    <2>1. current.pc = "idle" /\ \A c \in Callers : calls[c] = [status |-> "idle", op |-> [kind |-> "none"]]
        BY DEF Init, Idle, Nothing
    <2>2. BatchMeans
        BY <2>1 DEF BatchMeans
    <2>3. \A c \in Callers : CallStatus(c) = [status |-> "idle", op |-> [kind |-> "none"]]
        BY <2>1 DEF CallStatus
    <2> QED BY <2>2, <2>3 DEF Init, Atomic!Init
<1>2. OwnerInv /\ BatchMeans /\ [Next]_vars => BatchMeans' /\ [Atomic!Next]_(Atomic!atomicVars)
    BY StepAtomic DEF AtomicallyOrNot
<1> QED BY <1>1, <1>2, OwnerInvariant, PTL DEF Spec, ImplementsAtomicOwner, Atomic!Spec

---------------------------------------------------------------------------
(* The journal accounts for every version.  A sum over a set is a recursive  *)
(* function on its subsets: it is shown to count the units of its terms, so  *)
(* that adding to the terms is adding elements to a finite set.              *)

One(s) == CHOOSE x \in s : TRUE

AddsUp(g, w, S) ==
    g = [s \in SUBSET S |-> IF s = {} THEN 0 ELSE w[One(s)] + g[s \ {One(s)}]]

UnitsOf(x, n) == {x} \X (1..n)
Units(w, s) == UNION {UnitsOf(x, w[x]) : x \in s}
Total(w) == Cardinality(Units(w, DOMAIN w))

LEMMA UnitsOfFacts ==
    ASSUME NEW x, NEW n \in Nat
    PROVE  IsFiniteSet(UnitsOf(x, n)) /\ Cardinality(UnitsOf(x, n)) = n
<1>1. IsFiniteSet({x}) /\ Cardinality({x}) = 1
    BY FS_Singleton
<1>2. IsFiniteSet(1..n) /\ Cardinality(1..n) = n
    BY FS_Interval
<1>3. IsFiniteSet({x} \X (1..n)) /\ Cardinality({x} \X (1..n)) = Cardinality({x}) * Cardinality(1..n)
    BY <1>1, <1>2, FS_Product
<1> QED BY <1>1, <1>2, <1>3 DEF UnitsOf

LEMMA UnitsFinite ==
    ASSUME NEW S, IsFiniteSet(S), NEW w \in [S -> Nat]
    PROVE  IsFiniteSet(Units(w, S))
<1> DEFINE f == [x \in S |-> UnitsOf(x, w[x])]
           T == {UnitsOf(x, w[x]) : x \in S}
<1>1. f \in Surjection(S, T)
    BY DEF Surjection
<1>2. IsFiniteSet(T)
    <2> HIDE DEF f, T
    <2> QED BY <1>1, FS_Surjection
<1>3. \A t \in T : IsFiniteSet(t)
    BY UnitsOfFacts
<1>4. IsFiniteSet(UNION T)
    <2> HIDE DEF T
    <2> QED BY <1>2, <1>3, FS_UNION
<1> QED BY <1>4 DEF Units

(* One term more, or less.                                                   *)
LEMMA OneTermMore ==
    ASSUME NEW S, IsFiniteSet(S), NEW w \in [S -> Nat], NEW x \in S
    PROVE  Cardinality(Units(w, S)) = w[x] + Cardinality(Units(w, S \ {x}))
<1> DEFINE rest == S \ {x}
           v == [y \in rest |-> w[y]]
<1>1. IsFiniteSet(rest) /\ v \in [rest -> Nat]
    BY FS_RemoveElement
<1>2. Units(v, rest) = Units(w, rest)
    BY DEF Units
<1>3. IsFiniteSet(Units(w, rest)) /\ Cardinality(Units(w, rest)) \in Nat
    BY <1>1, <1>2, UnitsFinite, FS_CardinalityType
<1>4. IsFiniteSet(UnitsOf(x, w[x])) /\ Cardinality(UnitsOf(x, w[x])) = w[x]
    BY UnitsOfFacts
<1>5. Units(w, S) = UnitsOf(x, w[x]) \cup Units(w, rest)
    BY DEF Units
<1>6. UnitsOf(x, w[x]) \cap Units(w, rest) = {}
    BY DEF Units, UnitsOf
<1>7. Cardinality(UnitsOf(x, w[x]) \cap Units(w, rest)) = 0
    BY <1>6, FS_EmptySet
<1>8. Cardinality(UnitsOf(x, w[x]) \cup Units(w, rest)) =
          Cardinality(UnitsOf(x, w[x])) + Cardinality(Units(w, rest))
              - Cardinality(UnitsOf(x, w[x]) \cap Units(w, rest))
    <2> HIDE DEF rest
    <2> QED BY <1>3, <1>4, FS_Union
<1>9. w[x] \in Nat
    OBVIOUS
<1>10. Cardinality(UnitsOf(x, w[x]) \cup Units(w, rest)) = w[x] + Cardinality(Units(w, rest))
    <2> HIDE DEF rest
    <2> QED BY <1>3, <1>4, <1>7, <1>8, <1>9
<1> QED BY <1>5, <1>10

LEMMA UnitsAddUp ==
    ASSUME NEW S, IsFiniteSet(S), NEW w \in [S -> Nat]
    PROVE  AddsUp([s \in SUBSET S |-> Cardinality(Units(w, s))], w, S)
<1> DEFINE g == [s \in SUBSET S |-> Cardinality(Units(w, s))]
           h == [s \in SUBSET S |-> IF s = {} THEN 0 ELSE w[One(s)] + g[s \ {One(s)}]]
<1>1. ASSUME NEW s \in SUBSET S PROVE g[s] = h[s]
    <2>1. CASE s = {}
        <3>1. Units(w, s) = {}
            BY <2>1 DEF Units
        <3> QED BY <2>1, <3>1, FS_EmptySet
    <2>2. CASE s # {}
        <3> DEFINE v == [y \in s |-> w[y]]
        <3>1. IsFiniteSet(s) /\ v \in [s -> Nat]
            BY FS_Subset
        <3>2. One(s) \in s
            BY <2>2 DEF One
        <3>3. Cardinality(Units(v, s)) = v[One(s)] + Cardinality(Units(v, s \ {One(s)}))
            <4> HIDE DEF v
            <4> QED BY <3>1, <3>2, OneTermMore
        <3>4. Units(v, s) = Units(w, s) /\ Units(v, s \ {One(s)}) = Units(w, s \ {One(s)})
            BY DEF Units
        <3> QED BY <2>2, <3>2, <3>3, <3>4
    <2> QED BY <2>1, <2>2
<1> QED BY <1>1 DEF AddsUp

(* What is true of the empty set, and of a set whenever it is true of the    *)
(* set without one element, leaves no smallest exception.                    *)
LEMMA SumsAgree ==
    ASSUME NEW S, IsFiniteSet(S), NEW w, NEW g, NEW h, AddsUp(g, w, S), AddsUp(h, w, S)
    PROVE  g[S] = h[S]
<1> DEFINE T == {s \in SUBSET S : g[s] # h[s]}
<1>1. SUFFICES ASSUME T # {} PROVE FALSE
    OBVIOUS
<1>2. IsWellFoundedOn(StrictSubsetOrdering(S), SUBSET S)
    BY FS_StrictSubsetOrderingWellFounded, FS_FiniteSubsetsOfFinite
<1>3. PICK s \in T : \A t \in T : <<t, s>> \notin StrictSubsetOrdering(S)
    <2> HIDE DEF T
    <2>1. T \subseteq SUBSET S
        BY DEF T
    <2> QED BY <1>1, <1>2, <2>1, WFMin
<1>4. /\ g[s] = IF s = {} THEN 0 ELSE w[One(s)] + g[s \ {One(s)}]
      /\ h[s] = IF s = {} THEN 0 ELSE w[One(s)] + h[s \ {One(s)}]
    BY DEF AddsUp
<1>5. s # {} /\ s \subseteq S
    BY <1>4
<1>6. One(s) \in s
    BY <1>5 DEF One
<1>7. <<s \ {One(s)}, s>> \in StrictSubsetOrdering(S)
    BY <1>5, <1>6 DEF StrictSubsetOrdering
<1>8. s \ {One(s)} \in SUBSET S /\ s \ {One(s)} \notin T
    BY <1>3, <1>5, <1>7
<1> QED BY <1>4, <1>5, <1>8

(* A sum over a set counts the units of its terms.                           *)
LEMMA SumIsTotal ==
    ASSUME NEW S, IsFiniteSet(S), NEW w \in [S -> Nat]
    PROVE  /\ \E g : AddsUp(g, w, S)
           /\ \A g : AddsUp(g, w, S) => g[S] = Total(w)
<1> DEFINE total == [s \in SUBSET S |-> Cardinality(Units(w, s))]
<1>1. AddsUp(total, w, S)
    BY UnitsAddUp
<1>2. total[S] = Total(w)
    BY DEF Total
<1> HIDE DEF total
<1> QED BY <1>1, <1>2, SumsAgree

LEMMA OneTermChanged ==
    ASSUME NEW S, IsFiniteSet(S), NEW w \in [S -> Nat], NEW v \in [S -> Nat], NEW x \in S,
           \A y \in S \ {x} : v[y] = w[y]
    PROVE  Total(v) = Total(w) + v[x] - w[x]
<1>1. Units(v, S \ {x}) = Units(w, S \ {x})
    BY DEF Units
<1>3. /\ Cardinality(Units(w, S)) = w[x] + Cardinality(Units(w, S \ {x}))
      /\ Cardinality(Units(v, S)) = v[x] + Cardinality(Units(v, S \ {x}))
    BY OneTermMore
<1>4. S \ {x} \in SUBSET S /\ IsFiniteSet(S \ {x}) /\ [y \in S \ {x} |-> w[y]] \in [S \ {x} -> Nat]
    BY FS_RemoveElement
<1>5. DOMAIN w = S /\ DOMAIN v = S /\ v[x] \in Nat /\ w[x] \in Nat
    OBVIOUS
<1>6. Cardinality(Units(w, S \ {x})) \in Nat
    <2>1. Units([y \in S \ {x} |-> w[y]], S \ {x}) = Units(w, S \ {x})
        BY DEF Units
    <2> QED BY <1>4, <2>1, UnitsFinite, FS_CardinalityType
<1> QED BY <1>1, <1>3, <1>5, <1>6 DEF Total

LEMMA SomeTermsOneMore ==
    ASSUME NEW S, IsFiniteSet(S), NEW w \in [S -> Nat], NEW v \in [S -> Nat], NEW t \in SUBSET S,
           \A x \in S : v[x] = IF x \in t THEN w[x] + 1 ELSE w[x]
    PROVE  Total(v) = Total(w) + Cardinality(t)
<1> DEFINE new == {<<x, w[x] + 1>> : x \in t}
           f == [x \in t |-> <<x, w[x] + 1>>]
<1>1. f \in Bijection(t, new)
    BY DEF Bijection, Injection, Surjection, IsInjective
<1>2. IsFiniteSet(t)
    BY FS_Subset
<1>3. IsFiniteSet(new) /\ Cardinality(new) = Cardinality(t)
    <2> HIDE DEF f, new
    <2> QED BY <1>1, <1>2, FS_Bijection DEF ExistsBijection
<1>4. Units(v, S) = Units(w, S) \cup new
    BY DEF Units, UnitsOf
<1>5. Units(w, S) \cap new = {}
    BY DEF Units, UnitsOf
<1>6. IsFiniteSet(Units(w, S)) /\ Cardinality(Units(w, S)) \in Nat
    BY UnitsFinite, FS_CardinalityType
<1>7. Cardinality(Units(w, S) \cap new) = 0 /\ Cardinality(t) \in Nat
    BY <1>2, <1>5, FS_EmptySet, FS_CardinalityType
<1>8. Cardinality(Units(w, S) \cup new) = Cardinality(Units(w, S)) + Cardinality(t)
    <2> HIDE DEF new
    <2> QED BY <1>3, <1>6, <1>7, FS_Union
<1> QED BY <1>4, <1>8 DEF Total

Entered(journal) == [i \in 1..Len(journal) |-> journal[i].versions]

Balanced(store) ==
    /\ Total(Versions(store)) = Total(Entered(store.journal))
    /\ Len(store.journal) <= MaxOperations

LEMMA TotalsFacts ==
    ASSUME NEW s \in StoreType
    PROVE  /\ Versions(s) \in [Disclosures -> Nat] /\ IsFiniteSet(Disclosures)
           /\ Entered(s.journal) \in [1..Len(s.journal) -> Nat] /\ IsFiniteSet(1..Len(s.journal))
           /\ Len(s.journal) \in Nat
<1>1. s.rows \in [Disclosures -> RowType] /\ s.journal \in Seq(EntryType) /\ MaxVersion \in Nat
    BY StoreFacts, OwnerAssumption
<1>2. Versions(s) \in [Disclosures -> Nat]
    BY <1>1 DEF Versions, RowType
<1>3. Len(s.journal) \in Nat /\ \A i \in 1..Len(s.journal) : s.journal[i] \in EntryType
    BY <1>1
<1>4. Entered(s.journal) \in [1..Len(s.journal) -> Nat]
    BY <1>3 DEF Entered, EntryType
<1>5. IsFiniteSet(Disclosures) /\ IsFiniteSet(1..Len(s.journal))
    BY <1>3, OwnerAssumption, FS_Interval
<1> QED BY <1>2, <1>3, <1>4, <1>5

(* An attempt is entered with no versions; its completion enters those taken.*)
LEMMA AttemptBalanced ==
    ASSUME NEW s \in StoreType, NEW op, Balanced(s), Len(s.journal) < MaxOperations
    PROVE  /\ Balanced(Attempted(s, op))
           /\ Attempted(s, op).journal[Len(s.journal) + 1].versions = 0
           /\ Len(Attempted(s, op).journal) = Len(s.journal) + 1
<1> DEFINE next == Attempted(s, op)
           n == Len(s.journal)
           w == Entered(next.journal)
           before == Entered(s.journal)
<1>1. /\ next.rows = s.rows
      /\ next.journal = Append(s.journal, [kind |-> op.kind, outcome |-> "unfinished", versions |-> 0])
    BY DEF Attempted, StoreType
<1>2. s.journal \in Seq(EntryType) /\ n \in Nat
    BY StoreFacts
<1>3. /\ Len(next.journal) = n + 1 /\ next.journal[n + 1].versions = 0
      /\ \A i \in 1..n : next.journal[i] = s.journal[i]
    <2> HIDE DEF next
    <2> QED BY <1>1, <1>2
<1>4. before \in [1..n -> Nat] /\ IsFiniteSet(1..n)
    BY TotalsFacts
<1>5. w \in [1..(n + 1) -> Nat] /\ w[n + 1] = 0 /\ \A i \in 1..n : w[i] = before[i]
    <2>1. w = [i \in 1..(n + 1) |-> next.journal[i].versions]
        BY <1>3 DEF Entered
    <2>2. \A i \in 1..n : w[i] = before[i]
        BY <1>2, <1>3, <2>1 DEF Entered
    <2>3. \A i \in 1..(n + 1) : i = n + 1 \/ i \in 1..n
        BY <1>2
    <2>4. n + 1 \in 1..(n + 1)
        BY <1>2
    <2>5. w[n + 1] = 0
        BY <1>3, <2>1, <2>4
    <2>6. \A i \in 1..(n + 1) : w[i] \in Nat
        <3> HIDE DEF next, w, before, n
        <3> QED BY <1>4, <2>2, <2>3, <2>5
    <2>7. w = [i \in 1..(n + 1) |-> w[i]]
        BY <2>1
    <2> HIDE DEF next, w, before, n
    <2> QED BY <2>2, <2>5, <2>6, <2>7
<1>6. IsFiniteSet(1..(n + 1)) /\ n + 1 \in 1..(n + 1) /\ (1..(n + 1)) \ {n + 1} = 1..n
    <2>1. n \in Nat
        BY <1>2
    <2> HIDE DEF n
    <2>2. IsFiniteSet(1..(n + 1))
        BY <2>1, FS_Interval
    <2> QED BY <2>1, <2>2
<1>7. Units(w, 1..n) = Units(before, 1..n)
    BY <1>5 DEF Units
<1>8. Cardinality(Units(before, 1..n)) \in Nat
    BY <1>4, UnitsFinite, FS_CardinalityType
<1>9. Total(w) = Total(before)
    <2>1. DOMAIN w = 1..(n + 1) /\ DOMAIN before = 1..n
        BY <1>4, <1>5
    <2> HIDE DEF w, before, n
    <2>2. Cardinality(Units(w, 1..(n + 1))) = w[n + 1] + Cardinality(Units(w, (1..(n + 1)) \ {n + 1}))
        BY <1>5, <1>6, OneTermMore
    <2>3. Total(w) = Cardinality(Units(w, 1..(n + 1))) /\ Total(before) = Cardinality(Units(before, 1..n))
        BY <2>1 DEF Total
    <2>4. Cardinality(Units(w, (1..(n + 1)) \ {n + 1})) = Cardinality(Units(w, 1..n))
        BY <1>6, Zenon
    <2>5. Cardinality(Units(w, 1..n)) = Cardinality(Units(before, 1..n))
        BY <1>7, Zenon
    <2> QED BY <1>5, <1>8, <2>2, <2>3, <2>4, <2>5
<1>10. Versions(next) = Versions(s)
    BY <1>1 DEF Versions
<1>11. Total(Versions(next)) = Total(w) /\ n + 1 <= MaxOperations
    <2>1. Total(Versions(s)) = Total(before) /\ n < MaxOperations /\ MaxOperations \in Nat
        BY OwnerAssumption DEF Balanced
    <2> HIDE DEF next, w, before, n
    <2> QED BY <1>2, <1>9, <1>10, <2>1
<1>12. Balanced(next)
    <2> HIDE DEF next
    <2> QED BY <1>3, <1>11 DEF Balanced
<1> QED BY <1>3, <1>12

(* The completion of the last entry, over rows that moved by as many.        *)
LEMMA CompletionBalanced ==
    ASSUME Journaled, NEW s \in StoreType, NEW changed \in StoreType, NEW outcome, NEW taken \in Nat,
           Balanced(s), s.journal # <<>>, s.journal[Len(s.journal)].versions = 0,
           changed.journal = s.journal,
           Total(Versions(changed)) = Total(Versions(s)) + taken
    PROVE  Balanced(Completed(changed, outcome, taken))
<1> DEFINE next == Completed(changed, outcome, taken)
           n == Len(s.journal)
           before == Entered(s.journal)
           after == Entered(next.journal)
<1>1. s.journal \in Seq(EntryType) /\ n \in Nat /\ n \in 1..n
    BY StoreFacts
<1>2. /\ next.rows = changed.rows /\ Len(next.journal) = n
      /\ next.journal[n].versions = taken
      /\ \A i \in (1..n) \ {n} : next.journal[i] = s.journal[i]
    <2> DEFINE first == [changed EXCEPT !.journal[n].outcome = outcome]
    <2>1. next = [first EXCEPT !.journal[n].versions = taken]
        BY DEF Completed
    <2>2. /\ first.rows = changed.rows
          /\ first.journal = [s.journal EXCEPT ![n].outcome = outcome]
          /\ first = [rows |-> first.rows, directory |-> first.directory, journal |-> first.journal]
        <3>1. changed = [rows |-> changed.rows, directory |-> changed.directory, journal |-> s.journal]
            BY DEF StoreType
        <3> QED BY <3>1
    <2>3. /\ next.rows = first.rows
          /\ next.journal = [first.journal EXCEPT ![n].versions = taken]
        <3> HIDE DEF first, next
        <3> QED BY <2>1, <2>2
    <2>4. /\ DOMAIN first.journal = 1..n
          /\ first.journal[n] = [s.journal[n] EXCEPT !.outcome = outcome]
          /\ \A i \in (1..n) \ {n} : first.journal[i] = s.journal[i]
        <3> HIDE DEF first
        <3> QED BY <1>1, <2>2
    <2>5. s.journal[n] \in EntryType
        BY <1>1
    <2>6. first.journal[n] = [kind |-> s.journal[n].kind, outcome |-> outcome, versions |-> s.journal[n].versions]
        <3> HIDE DEF first
        <3> QED BY <2>4, <2>5 DEF EntryType
    <2>7. /\ DOMAIN next.journal = 1..n /\ next.journal[n].versions = taken
          /\ \A i \in (1..n) \ {n} : next.journal[i] = first.journal[i]
        <3> HIDE DEF first, next
        <3> QED BY <1>1, <2>3, <2>4, <2>6
    <2>8. Len(next.journal) = n
        <3>1. next.journal = [i \in 1..n |-> next.journal[i]]
            <4> HIDE DEF first, next
            <4> QED BY <2>3, <2>7, <2>4
        <3> HIDE DEF first, next
        <3> QED BY <1>1, <3>1
    <2> HIDE DEF first, next
    <2> QED BY <2>2, <2>3, <2>4, <2>7, <2>8
<1>3. before \in [1..n -> Nat] /\ IsFiniteSet(1..n)
    BY TotalsFacts
<1>4. /\ after \in [1..n -> Nat] /\ after[n] = taken /\ before[n] = 0
      /\ \A i \in (1..n) \ {n} : after[i] = before[i]
    <2>1. after = [i \in 1..n |-> next.journal[i].versions]
        BY <1>2 DEF Entered
    <2>2. after[n] = taken /\ before[n] = 0
        BY <1>1, <1>2, <2>1 DEF Entered
    <2>3. \A i \in (1..n) \ {n} : after[i] = before[i]
        BY <1>1, <1>2, <2>1 DEF Entered
    <2> HIDE DEF next, after, before
    <2> QED BY <1>3, <2>1, <2>2, <2>3
<1>5. Total(after) = Total(before) + taken
    <2> HIDE DEF next, after, before, n
    <2>1. Total(after) = Total(before) + after[n] - before[n]
        BY <1>1, <1>3, <1>4, OneTermChanged
    <2>2. Total(before) \in Nat
        BY <1>3, UnitsFinite, FS_CardinalityType DEF Total
    <2> QED BY <1>4, <2>1, <2>2
<1>6. Versions(next) = Versions(changed)
    BY <1>2 DEF Versions
<1>7. Total(Versions(s)) = Total(before) /\ n <= MaxOperations
    BY DEF Balanced
<1>8. Total(Versions(next)) = Total(after)
    <2> HIDE DEF next, after, before
    <2> QED BY <1>5, <1>6, <1>7
<1>9. Len(next.journal) <= MaxOperations
    <2> HIDE DEF next
    <2> QED BY <1>2, <1>7
<1>10. Balanced(next)
    <2> HIDE DEF next
    <2> QED BY <1>8, <1>9 DEF Balanced
<1> QED BY <1>10

(* The rows move by as many versions as the operation says it takes.         *)
LEMMA ChangeTakes ==
    ASSUME memory \in StoreType, NEW op \in OperationType, NEW d \in Disclosures, Allowed(op, d),
           op.kind \in {"read", "change"} => op.row = d
    PROVE  /\ VersionsTaken(op, d) \in Nat
           /\ Total(Versions(Changed(op, d))) = Total(Versions(memory)) + VersionsTaken(op, d)
           /\ Changed(op, d).journal = memory.journal
<1> DEFINE w == Versions(memory)
           v == Versions(Changed(op, d))
           t == Touched(op, d)
<1>1. Changed(op, d) \in StoreType /\ t \in SUBSET Disclosures
    BY ChangedFacts
<1>2. w \in [Disclosures -> Nat] /\ v \in [Disclosures -> Nat] /\ IsFiniteSet(Disclosures)
    BY <1>1, TotalsFacts
<1>3. Cardinality(t) \in Nat
    BY <1>1, <1>2, FS_Subset, FS_CardinalityType
<1>4. Changed(op, d).journal = memory.journal
    BY DEF Changed, StoreType
<1>5. ASSUME NEW x \in Disclosures
      PROVE  v[x] = IF x \notin t THEN w[x] ELSE IF op.kind = "sweep" THEN w[x] + 2 ELSE w[x] + 1
    <2> DEFINE row(r) == IF r \notin Touched(op, d) THEN memory.rows[r]
                         ELSE IF op.kind = "sweep" THEN [version |-> memory.rows[r].version + 2, state |-> "erased"]
                         ELSE [version |-> memory.rows[r].version + 1,
                               state |-> IF op.kind = "change" THEN op.target ELSE memory.rows[r].state]
               rows == [r \in Disclosures |-> row(r)]
    <2>1. Changed(op, d).rows = rows
        BY DEF Changed, StoreType
    <2>2. Changed(op, d).rows[x] = row(x)
        BY <2>1
    <2> QED BY <2>2 DEF Versions
<1>6. CASE op.kind = "sweep"
    <2>1. t = {d} /\ VersionsTaken(op, d) = 2
        BY <1>6 DEF Touched, VersionsTaken
    <2>2. v[d] = w[d] + 2 /\ \A x \in Disclosures \ {d} : v[x] = w[x]
        <3> HIDE DEF v, w, t
        <3> QED BY <1>5, <1>6, <2>1
    <2>3. Total(v) = Total(w) + v[d] - w[d]
        <3> HIDE DEF v, w, t
        <3> QED BY <1>2, <2>2, OneTermChanged
    <2>4. Total(w) \in Nat
        <3> HIDE DEF w
        <3>1. Cardinality(Units(w, Disclosures)) \in Nat /\ DOMAIN w = Disclosures
            BY <1>2, UnitsFinite, FS_CardinalityType
        <3> QED BY <3>1 DEF Total
    <2>5. w[d] \in Nat
        BY <1>2
    <2>6. Total(v) = Total(w) + 2
        <3> HIDE DEF v, w, t
        <3> QED BY <2>2, <2>3, <2>4, <2>5
    <2> QED BY <1>4, <2>1, <2>6
<1>7. CASE op.kind # "sweep"
    <2>1. VersionsTaken(op, d) = Cardinality(t)
        BY <1>7 DEF VersionsTaken
    <2>2. \A x \in Disclosures : v[x] = IF x \in t THEN w[x] + 1 ELSE w[x]
        <3> HIDE DEF v, w, t
        <3> QED BY <1>5, <1>7
    <2>3. Total(v) = Total(w) + Cardinality(t)
        <3> HIDE DEF v, w, t
        <3> QED BY <1>1, <1>2, <2>2, SomeTermsOneMore
    <2> QED BY <1>3, <1>4, <2>1, <2>3
<1> QED BY <1>6, <1>7

(* What is durable is accounted for, and so is the batch under way; an       *)
(* attempt has its place, and a decision the entry it will complete.         *)
AccountInv ==
    Journaled =>
        /\ Balanced(disk)
        /\ current.pc = "attempt" => Len(memory.journal) < MaxOperations
        /\ current.pc = "decide" /\ RunningOp.kind # "credential" =>
               memory.journal # <<>> /\ memory.journal[Len(memory.journal)].versions = 0
        /\ current.pc = "write" => Balanced(current.next)

LEMMA AdmitAccounts ==
    ASSUME OwnerInv, AccountInv, NEW c \in Callers, Admit(c), UNCHANGED <<disk, memory>>,
           calls[c].op \in OperationType, calls[c].status = "waiting"
    PROVE  AccountInv'
<1> SUFFICES ASSUME Journaled PROVE AccountInv'
    BY DEF AccountInv
<1>1. Balanced(disk)'
    BY DEF AccountInv
<1>2. CASE current' = Idle
    BY <1>1, <1>2 DEF AccountInv, Idle
<1>3. CASE current' # Idle
    <2>1. PICK d \in Disclosures :
              /\ Audited(calls[c].op) => JournalHasRoom
              /\ current' = At(IF Audited(calls[c].op) THEN "attempt" ELSE "decide", c, d)
              /\ UNCHANGED calls
        BY <1>3 DEF Admit, Retired, OperationType
    <2>2. CASE Audited(calls[c].op)
        <3>1. current'.pc = "attempt" /\ Len(memory.journal) < MaxOperations
            BY <2>1, <2>2 DEF At, JournalHasRoom
        <3> QED BY <1>1, <3>1 DEF AccountInv
    <2>3. CASE ~Audited(calls[c].op)
        <3>1. current'.pc = "decide" /\ current'.caller = c /\ UNCHANGED calls
            BY <2>1, <2>3 DEF At
        <3>2. RunningOp'.kind = "credential"
            BY <2>3, <3>1 DEF Audited, RunningOp
        <3> QED BY <1>1, <3>1, <3>2 DEF AccountInv
    <2> QED BY <2>2, <2>3
<1> QED BY <1>2, <1>3

LEMMA PrepareAccounts ==
    ASSUME OwnerInv, AccountInv, Journaled, NEW next, NEW outcome, NEW touched,
           Prepare(next, outcome, touched), UNCHANGED disk, Balanced(next)
    PROVE  AccountInv'
<1>1. current'.pc = "write" /\ current'.next = next
    BY DEF Prepare
<1>2. Balanced(disk)'
    BY DEF AccountInv
<1> QED BY <1>1, <1>2 DEF AccountInv

LEMMA DecideAccounts ==
    ASSUME OwnerInv, AccountInv, Decide
    PROVE  AccountInv'
<1> DEFINE op == RunningOp
           d == current.row
<1> SUFFICES ASSUME Journaled PROVE AccountInv'
    BY DEF AccountInv
<1>1. /\ TypeOK /\ current.pc = "decide" /\ Running /\ memory = disk /\ memory \in StoreType
      /\ op \in OperationType /\ d \in Disclosures /\ UNCHANGED <<disk, memory>>
    BY DEF OwnerInv, Decide, Running, ChainOK, ServesDurableState, TypeOK, CurrentType, Idle
<1>2. op.kind \in {"read", "change"} => op.row = d
    BY <1>1 DEF OwnerInv, ChainOK
<1>3. Balanced(disk) /\ Balanced(memory)
    BY <1>1 DEF AccountInv
<1>4. op.kind # "credential" =>
          memory.journal # <<>> /\ memory.journal[Len(memory.journal)].versions = 0
    BY <1>1 DEF AccountInv
<1>5. CASE CheckCredential(op)
    <2>1. current' = Idle
        BY <1>5 DEF CheckCredential
    <2>2. Balanced(disk)'
        BY <1>1, <1>3
    <2> QED BY <2>1, <2>2 DEF AccountInv, Idle
<1>6. CASE op.kind # "credential" /\ Refuse
    <2>1. Total(Versions(memory)) = Total(Versions(memory)) + 0
        BY <1>1, TotalsFacts, UnitsFinite, FS_CardinalityType DEF Total
    <2>2. Balanced(Completed(memory, "rejected", 0))
        BY <1>1, <1>3, <1>4, <1>6, <2>1, CompletionBalanced
    <2> QED BY <1>1, <1>6, <2>2, PrepareAccounts DEF Refuse
<1>7. CASE /\ op.kind # "credential" /\ Allowed(op, d)
           /\ Prepare(Completed(Changed(op, d), OutcomeOf(op, d), VersionsTaken(op, d)),
                      OutcomeOf(op, d), Touched(op, d))
    <2>1. Changed(op, d) \in StoreType
        BY <1>1, <1>2, <1>7, ChangedFacts
    <2>2. /\ VersionsTaken(op, d) \in Nat /\ Changed(op, d).journal = memory.journal
          /\ Total(Versions(Changed(op, d))) = Total(Versions(memory)) + VersionsTaken(op, d)
        BY <1>1, <1>2, <1>7, ChangeTakes
    <2> HIDE DEF op, d
    <2>3. Balanced(Completed(Changed(op, d), OutcomeOf(op, d), VersionsTaken(op, d)))
        BY <1>1, <1>3, <1>4, <1>7, <2>1, <2>2, CompletionBalanced
    <2> QED BY <1>1, <1>7, <2>3, PrepareAccounts
<1> QED BY <1>5, <1>6, <1>7 DEF Decide, RunningOp

LEMMA WriteAccounts ==
    ASSUME OwnerInv, AccountInv, WriteAttempt \/ WriteOutcome
    PROVE  AccountInv'
<1> SUFFICES ASSUME Journaled PROVE AccountInv'
    BY DEF AccountInv
<1>1. CASE WriteAttempt
    <2> DEFINE next == Attempted(memory, RunningOp)
    <2>1. /\ current.pc = "attempt" /\ Running /\ memory = disk /\ memory \in StoreType
          /\ current \in [pc : {"attempt", "decide"}, caller : Callers, row : Disclosures]
        BY <1>1 DEF OwnerInv, WriteAttempt, Running, ChainOK, ServesDurableState, TypeOK, CurrentType, Idle
    <2>2. Balanced(memory) /\ Len(memory.journal) < MaxOperations
        BY <2>1 DEF AccountInv
    <2>3. /\ Balanced(next) /\ next.journal[Len(next.journal)].versions = 0
          /\ Len(next.journal) = Len(memory.journal) + 1 /\ Len(memory.journal) \in Nat
        BY <2>1, <2>2, AttemptBalanced, TotalsFacts
    <2>4. next.journal # <<>>
        <3> HIDE DEF next
        <3> QED BY <2>3
    <2>5. \/ Landed(next) /\ current' = [current EXCEPT !.pc = "decide"]
          \/ Failed(next) /\ current' = Idle
        BY <1>1 DEF WriteAttempt, RunningOp
    <2> HIDE DEF next
    <2>6. disk' \in {disk, next} /\ Balanced(disk)'
        BY <2>1, <2>2, <2>3, <2>5 DEF Landed, Failed
    <2>7. CASE current' = Idle
        BY <2>6, <2>7 DEF AccountInv, Idle
    <2>8. CASE Landed(next) /\ current' = [current EXCEPT !.pc = "decide"]
        <3>1. current'.pc = "decide"
            BY <2>1, <2>8
        <3>2. memory' = next
            BY <2>8 DEF Landed
        <3> QED BY <2>3, <2>4, <2>6, <3>1, <3>2 DEF AccountInv
    <2> QED BY <2>5, <2>7, <2>8
<1>2. CASE WriteOutcome
    <2>1. /\ current.pc = "write"
          /\ current \in [pc : {"write", "publish"}, caller : Callers, next : StoreType,
                           outcome : Outcomes, touched : SUBSET Disclosures]
        BY <1>2 DEF OwnerInv, WriteOutcome, CurrentType, Idle
    <2>2. Balanced(disk) /\ Balanced(current.next)
        BY <2>1 DEF AccountInv
    <2>3. /\ disk' \in {disk, current.next}
          /\ current' = [current EXCEPT !.pc = "publish"] \/ current' = Idle
        BY <1>2 DEF WriteOutcome, Landed, Failed
    <2>4. current'.pc \in {"publish", "idle"}
        BY <2>1, <2>3 DEF Idle
    <2>5. Balanced(disk)'
        BY <2>2, <2>3
    <2> QED BY <2>4, <2>5 DEF AccountInv
<1> QED BY <1>1, <1>2

LEMMA StepAccounts == OwnerInv /\ AccountInv /\ [Next]_vars => AccountInv'
<1> SUFFICES ASSUME OwnerInv, AccountInv, [Next]_vars PROVE AccountInv'
    OBVIOUS
<1>1. CASE \E c \in Callers, op \in Operations : Submit(c, op)
    <2>1. PICK c \in Callers, op \in Operations : Submit(c, op)
        BY <1>1
    <2>2. UNCHANGED <<disk, memory, current>>
        BY <2>1 DEF Submit
    <2>3. calls \in [Callers -> [status : {"idle", "waiting", "ok", "rejected", "unknown", "lost"},
                               op : OperationType \cup {[kind |-> "none"]}]]
          /\ (Running => current.caller \in Callers /\ calls[current.caller].status = "waiting")
        BY DEF OwnerInv, TypeOK, ChainOK, Running, Idle
    <2>4. Running => RunningOp' = RunningOp
        BY <2>1, <2>2, <2>3 DEF Submit, RunningOp
    <2> QED BY <2>2, <2>4 DEF AccountInv, Balanced, Running
<1>2. CASE Begin
    <2>1. /\ TypeOK /\ queue # <<>> /\ Head(queue) \in Callers /\ UNCHANGED <<disk, memory>>
          /\ calls[Head(queue)].status = "waiting" /\ calls[Head(queue)].op \in OperationType
        BY <1>2, TailFacts DEF OwnerInv, ChainOK, TypeOK, Begin
    <2>2. CASE Admit(Head(queue))
        BY <2>1, <2>2, AdmitAccounts
    <2>3. CASE UNCHANGED current
        BY <1>2, <2>1, <2>3 DEF AccountInv, Begin, Balanced, Idle
    <2> QED BY <1>2, <2>2, <2>3 DEF Begin
<1>3. CASE WriteAttempt \/ WriteOutcome
    BY <1>3, WriteAccounts
<1>4. CASE Decide
    BY <1>4, DecideAccounts
<1>5. CASE Publish
    <2>1. /\ Running /\ current.caller \in Callers /\ UNCHANGED <<disk, memory>>
          /\ calls[current.caller].status = "waiting" /\ calls[current.caller].op \in OperationType
        BY <1>5 DEF OwnerInv, ChainOK, TypeOK, Publish, Running, RunningOp, Idle
    <2>2. CASE Admit(current.caller)
        BY <2>1, <2>2, AdmitAccounts
    <2>3. CASE current' = Idle
        BY <2>1, <2>3 DEF AccountInv, Balanced, Idle
    <2> QED BY <1>5, <2>2, <2>3 DEF Publish
<1>6. CASE Close
    <2>1. UNCHANGED <<disk, memory, current, calls>>
        BY <1>6 DEF Close
    <2> QED BY <2>1 DEF AccountInv, Balanced, RunningOp
<1>7. CASE Drained \/ Reopen
    <2>1. UNCHANGED disk /\ current' = Idle
        BY <1>7 DEF Drained, Reopen, OwnerInv, ChainOK, Running, Serving, CurrentType, Idle
    <2> QED BY <2>1 DEF AccountInv, Balanced, Idle
<1>8. CASE Crash
    <2> SUFFICES ASSUME Journaled PROVE AccountInv'
        BY DEF AccountInv
    <2>1. CASE current.pc = "attempt"
        <3>1. memory \in StoreType /\ memory = disk
            BY <2>1 DEF OwnerInv, ChainOK, Running, ServesDurableState, TypeOK
        <3>2. Balanced(disk) /\ Balanced(memory) /\ Len(memory.journal) < MaxOperations
            BY <2>1, <3>1 DEF AccountInv
        <3>3. Balanced(Attempted(memory, calls[current.caller].op))
            BY <3>1, <3>2, AttemptBalanced
        <3>4. disk' \in {disk, Attempted(memory, calls[current.caller].op)}
            BY <1>8, <2>1 DEF Crash
        <3> QED BY <1>8, <3>2, <3>3, <3>4 DEF AccountInv, Crash, Idle
    <2>2. CASE current.pc # "attempt"
        <3>1. disk' = disk \/ (current.pc = "write" /\ disk' = current.next)
            BY <1>8, <2>2 DEF Crash
        <3>2. Balanced(disk)'
            BY <3>1 DEF AccountInv
        <3> QED BY <1>8, <3>2 DEF AccountInv, Crash, Idle
    <2> QED BY <2>1, <2>2
<1>9. CASE UNCHANGED vars
    BY <1>9 DEF vars, AccountInv, Balanced, RunningOp
<1> QED BY <1>1, <1>2, <1>3, <1>4, <1>5, <1>6, <1>7, <1>8, <1>9 DEF Next, Step

LEMMA InitAccounts == Init => AccountInv
<1> SUFFICES ASSUME Init PROVE AccountInv
    OBVIOUS
<1>1. current.pc = "idle" /\ disk.journal = <<>> /\ \A d \in Disclosures : Versions(disk)[d] = 0
    BY DEF Init, Idle, Versions
<1>2. Total(Versions(disk)) = 0
    <2>1. DOMAIN Versions(disk) = Disclosures
        BY DEF Versions
    <2>2. Units(Versions(disk), Disclosures) = {}
        BY <1>1 DEF Units, UnitsOf
    <2> QED BY <2>1, <2>2, FS_EmptySet DEF Total
<1>3. Total(Entered(disk.journal)) = 0
    <2>1. Len(disk.journal) = 0 /\ DOMAIN Entered(disk.journal) = 1..0
        BY <1>1 DEF Entered
    <2>2. Units(Entered(disk.journal), 1..0) = {}
        BY DEF Units
    <2> QED BY <2>1, <2>2, FS_EmptySet DEF Total
<1>4. Len(disk.journal) <= MaxOperations
    BY <1>1, OwnerAssumption
<1> QED BY <1>1, <1>2, <1>3, <1>4 DEF AccountInv, Balanced

(* The two sums of the property are the two totals.                          *)
LEMMA VersionsSum ==
    ASSUME disk \in StoreType
    PROVE  MapThenSumSet(LAMBDA d : disk.rows[d].version, Disclosures) = Total(Versions(disk))
<1> DEFINE sums(g) ==
               g = [s \in SUBSET Disclosures |->
                       IF s = {} THEN 0 ELSE disk.rows[One(s)].version + g[s \ {One(s)}]]
           sum == CHOOSE g : sums(g)
<1>1. MapThenSumSet(LAMBDA d : disk.rows[d].version, Disclosures) = sum[Disclosures]
    BY DEF MapThenSumSet, MapThenFoldSet, One
<1>2. ASSUME NEW g PROVE sums(g) <=> AddsUp(g, Versions(disk), Disclosures)
    <2>1. \A s \in SUBSET Disclosures : s # {} => One(s) \in Disclosures
        BY DEF One
    <2>2. \A s \in SUBSET Disclosures : s # {} => Versions(disk)[One(s)] = disk.rows[One(s)].version
        BY <2>1 DEF Versions
    <2>3. [s \in SUBSET Disclosures |->
              IF s = {} THEN 0 ELSE disk.rows[One(s)].version + g[s \ {One(s)}]]
        = [s \in SUBSET Disclosures |->
              IF s = {} THEN 0 ELSE Versions(disk)[One(s)] + g[s \ {One(s)}]]
        BY <2>2
    <2> QED BY <2>3 DEF AddsUp
<1>3. \E g : sums(g)
    <2> HIDE DEF sums
    <2> QED BY <1>2, TotalsFacts, SumIsTotal
<1>4. sums(sum)
    <2> HIDE DEF sums
    <2> QED BY <1>3
<1>5. AddsUp(sum, Versions(disk), Disclosures)
    <2> HIDE DEF sums, sum
    <2> QED BY <1>2, <1>4
<1> HIDE DEF sums, sum
<1> QED BY <1>1, <1>5, TotalsFacts, SumIsTotal

LEMMA EntriesSum ==
    ASSUME disk \in StoreType
    PROVE  MapThenSumSet(LAMBDA i : disk.journal[i].versions, 1..Len(disk.journal))
               = Total(Entered(disk.journal))
<1> DEFINE S == 1..Len(disk.journal)
           sums(g) ==
               g = [s \in SUBSET S |->
                       IF s = {} THEN 0 ELSE disk.journal[One(s)].versions + g[s \ {One(s)}]]
           sum == CHOOSE g : sums(g)
<1>1. MapThenSumSet(LAMBDA i : disk.journal[i].versions, S) = sum[S]
    BY DEF MapThenSumSet, MapThenFoldSet, One
<1>2. ASSUME NEW g PROVE sums(g) <=> AddsUp(g, Entered(disk.journal), S)
    <2>1. \A s \in SUBSET S : s # {} => One(s) \in S
        BY DEF One
    <2>2. \A s \in SUBSET S : s # {} => Entered(disk.journal)[One(s)] = disk.journal[One(s)].versions
        BY <2>1 DEF Entered
    <2>3. [s \in SUBSET S |-> IF s = {} THEN 0 ELSE disk.journal[One(s)].versions + g[s \ {One(s)}]]
        = [s \in SUBSET S |-> IF s = {} THEN 0 ELSE Entered(disk.journal)[One(s)] + g[s \ {One(s)}]]
        BY <2>2
    <2> QED BY <2>3 DEF AddsUp
<1>3. Entered(disk.journal) \in [S -> Nat] /\ IsFiniteSet(S)
    BY TotalsFacts
<1>4. \E g : sums(g)
    <2> HIDE DEF sums, S
    <2> QED BY <1>2, <1>3, SumIsTotal
<1>5. sums(sum)
    <2> HIDE DEF sums, S
    <2> QED BY <1>4
<1>6. AddsUp(sum, Entered(disk.journal), S)
    <2> HIDE DEF sums, sum, S
    <2> QED BY <1>2, <1>5
<1>7. sum[S] = Total(Entered(disk.journal))
    <2> HIDE DEF sums, sum, S
    <2> QED BY <1>3, <1>6, SumIsTotal
<1> QED BY <1>1, <1>7

(* Every authorization version ever taken is accounted for by a completed    *)
(* entry of the journal, for any number of rows and operations, and the      *)
(* journal never outgrows the capacity it is opened with.                    *)
THEOREM JournalIsComplete == Spec => []JournalAccountsForVersions
<1>1. OwnerInv /\ AccountInv => JournalAccountsForVersions
    <2> SUFFICES ASSUME OwnerInv, AccountInv, Journaled
                 PROVE  /\ MapThenSumSet(LAMBDA d : disk.rows[d].version, Disclosures)
                              = MapThenSumSet(LAMBDA i : disk.journal[i].versions, 1..Len(disk.journal))
                        /\ Len(disk.journal) <= MaxOperations
        BY DEF JournalAccountsForVersions
    <2>1. disk \in StoreType
        BY DEF OwnerInv, TypeOK
    <2>2. Balanced(disk)
        BY DEF AccountInv
    <2> QED BY <2>1, <2>2, VersionsSum, EntriesSum DEF Balanced
<1> QED BY <1>1, InitAccounts, StepAccounts, OwnerInvariant, PTL DEF Spec
---------------------------------------------------------------------------
(* A call that waits is the running one or has its place in the chain, so    *)
(* that some later turn answers it.                                          *)
WaitersAreServed ==
    \A c \in Callers : calls[c].status = "waiting" =>
        (Running /\ current.caller = c) \/ \E i \in DOMAIN queue : queue[i] = c

LEMMA ServedAfterAdmit ==
    ASSUME TypeOK, NEW c \in Callers, calls[c].op \in OperationType, calls[c].status = "waiting", Admit(c),
           \A b \in Callers \ {c} : calls[b].status = "waiting" => \E i \in DOMAIN queue' : queue'[i] = b
    PROVE  WaitersAreServed'
<1>1. CASE \E status \in {"ok", "rejected"} : Answer(c, status)
    <2>1. calls'[c].status # "waiting" /\ \A b \in Callers \ {c} : calls'[b] = calls[b]
        BY <1>1 DEF Answer, TypeOK
    <2> QED BY <2>1 DEF WaitersAreServed
<1>2. CASE UNCHANGED calls /\ \E d \in Disclosures, pc \in {"attempt", "decide"} :
               current' = [pc |-> pc, caller |-> c, row |-> d]
    <2>1. Running' /\ current'.caller = c
        BY <1>2 DEF Running
    <2> QED BY <1>2, <2>1 DEF WaitersAreServed
<1> QED BY <1>1, <1>2, AdmitFacts

LEMMA StepServed == OwnerInv /\ WaitersAreServed /\ [Next]_vars => WaitersAreServed'
<1> SUFFICES ASSUME OwnerInv, WaitersAreServed, [Next]_vars PROVE WaitersAreServed'
    OBVIOUS
<1>1. CASE \E c \in Callers, op \in Operations : Submit(c, op)
    <2>1. PICK c \in Callers, op \in Operations : Submit(c, op)
        BY <1>1
    <2>2. queue \in Seq(Callers) /\ queue' = Append(queue, c)
        BY <2>1 DEF OwnerInv, TypeOK, Submit
    <2>3. /\ \A i \in DOMAIN queue : i \in DOMAIN queue' /\ queue'[i] = queue[i]
          /\ Len(queue) + 1 \in DOMAIN queue' /\ queue'[Len(queue) + 1] = c
        BY <2>2
    <2>4. UNCHANGED current /\ \A b \in Callers \ {c} : calls'[b] = calls[b]
        BY <2>1 DEF Submit, OwnerInv, TypeOK
    <2> QED BY <2>3, <2>4 DEF WaitersAreServed, Running
<1>2. CASE Begin
    <2> DEFINE c == Head(queue)
    <2>1. /\ TypeOK /\ queue \in Seq(Callers) /\ queue # <<>> /\ queue' = Tail(queue) /\ current = Idle
          /\ c \in Callers /\ calls[c].status = "waiting" /\ calls[c].op \in OperationType
        BY <1>2, TailFacts DEF OwnerInv, ChainOK, TypeOK, Begin
    <2>2. ASSUME NEW b \in Callers \ {c}, calls[b].status = "waiting"
          PROVE  \E i \in DOMAIN queue' : queue'[i] = b
        <3>1. PICK i \in DOMAIN queue : queue[i] = b
            BY <2>1, <2>2 DEF WaitersAreServed, Running, Idle
        <3>2. i # 1 /\ i \in 1..Len(queue)
            BY <2>1, <2>2, <3>1
        <3>3. i - 1 \in DOMAIN queue' /\ queue'[i - 1] = queue[i]
            BY <2>1, <3>2
        <3> QED BY <3>1, <3>3
    <2>3. CASE unavailable
        <3>1. calls'[c].status # "waiting" /\ \A b \in Callers \ {c} : calls'[b] = calls[b]
            BY <1>2, <2>1, <2>3 DEF Begin, Answer, TypeOK
        <3> QED BY <2>2, <3>1 DEF WaitersAreServed
    <2>4. CASE Admit(c)
        BY <2>1, <2>2, <2>4, ServedAfterAdmit
    <2> QED BY <1>2, <2>3, <2>4 DEF Begin
<1>3. CASE WriteAttempt \/ Decide \/ WriteOutcome
    <2>1. /\ Running /\ current.caller \in Callers /\ UNCHANGED queue
          /\ current \in CurrentType
        BY <1>3 DEF WriteAttempt, Decide, WriteOutcome, OwnerInv, TypeOK, Running, Idle
    <2>2. \/ \E status \in {"ok", "rejected", "unknown"} : Answer(current.caller, status)
          \/ UNCHANGED calls /\ Running' /\ current'.caller = current.caller
        <3>1. CASE WriteAttempt
            BY <2>1, <3>1 DEF WriteAttempt, Running, CurrentType, Idle
        <3>2. CASE WriteOutcome
            BY <2>1, <3>2 DEF WriteOutcome, Running, CurrentType, Idle
        <3>3. CASE Decide
            BY <3>3 DEF Decide, CheckCredential, Refuse, Prepare, Running
        <3> QED BY <1>3, <3>1, <3>2, <3>3
    <2>3. CASE \E status \in {"ok", "rejected", "unknown"} : Answer(current.caller, status)
        <3>1. calls'[current.caller].status # "waiting"
              /\ \A b \in Callers \ {current.caller} : calls'[b] = calls[b]
            BY <2>1, <2>3 DEF Answer, OwnerInv, TypeOK
        <3> QED BY <2>1, <3>1 DEF WaitersAreServed
    <2>4. CASE UNCHANGED calls /\ Running' /\ current'.caller = current.caller
        BY <2>1, <2>4 DEF WaitersAreServed
    <2> QED BY <2>2, <2>3, <2>4
<1>4. CASE Publish
    <2> DEFINE c == current.caller
    <2>1. /\ TypeOK /\ Running /\ c \in Callers /\ UNCHANGED queue
          /\ calls[c].status = "waiting" /\ calls[c].op \in OperationType
        BY <1>4 DEF OwnerInv, ChainOK, TypeOK, Publish, Running, RunningOp, Idle
    <2>2. \A b \in Callers \ {c} : calls[b].status = "waiting" => \E i \in DOMAIN queue' : queue'[i] = b
        BY <2>1 DEF WaitersAreServed
    <2>3. CASE Admit(c)
        BY <2>1, <2>2, <2>3, ServedAfterAdmit
    <2>4. CASE \E status \in {"ok", "rejected"} : Answer(c, status)
        <3>1. calls'[c].status # "waiting" /\ \A b \in Callers \ {c} : calls'[b] = calls[b]
            BY <2>1, <2>4 DEF Answer, TypeOK
        <3> QED BY <2>2, <3>1 DEF WaitersAreServed
    <2> QED BY <1>4, <2>3, <2>4 DEF Publish
<1>5. CASE Crash
    <2>1. \A c \in Callers : calls'[c].status # "waiting"
        BY <1>5 DEF Crash
    <2> QED BY <2>1 DEF WaitersAreServed
<1>6. CASE Close \/ Drained \/ Reopen \/ UNCHANGED vars
    BY <1>6 DEF Close, Drained, Reopen, vars, WaitersAreServed, Running
<1> QED BY <1>1, <1>2, <1>3, <1>4, <1>5, <1>6 DEF Next, Step

(* No caller is forgotten: behind failed writes, a full journal, a close and *)
(* a sweep that goes on, whoever waits is being served or in the chain.      *)
THEOREM NobodyIsForgotten == Spec => []WaitersAreServed
<1>1. Init => WaitersAreServed
    BY DEF Init, WaitersAreServed
<1> QED BY <1>1, StepServed, OwnerInvariant, PTL DEF Spec
=============================================================================
