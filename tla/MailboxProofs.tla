----------------------------- MODULE MailboxProofs -----------------------------
(***************************************************************************)
(* Proofs, for any requests, texts, executors and limits and any clock,    *)
(* that the question queue keeps its promise to every request, lets bodies *)
(* out only under a standing authorization, takes replies only from the    *)
(* executor that holds the newest grant, gives up the oldest reply first   *)
(* (for a clock that is not set back), and can always be opened again.     *)
(***************************************************************************)
EXTENDS MailboxProperties, FiniteSetTheorems, TLAPS

(* A record whose bodies and whose answer agree with its state.              *)
Sound(record) ==
    /\ record \in Record /\ record.version > 0 /\ record.authorization >= record.bound
    /\ record.question # Null <=> record.state \in Pending
    /\ record.reply # Null => record.state = "completed"
    /\ record.answered # Null <=> record.state = "completed"

(* The changes a write may make to one request.                              *)
Asks(old, new) == old = Null /\ new.state \in Pending
Works(old, new) == old.state \in Pending /\ new.state \in Pending
Answers(old, new) == old.state \in Pending /\ new.state = "completed" /\ new.reply # Null
Stops(old, new) == old.state \in Pending /\ new.state \in Terminal \ {"completed"}
Drops(old, new) ==
    /\ old.state = "completed" /\ old.reply # Null
    /\ new.state = "completed" /\ new.reply = Null /\ new.answered = old.answered

Revises(old, new) ==
    /\ old # Null /\ new.text = old.text
    /\ Works(old, new) \/ Answers(old, new) \/ Stops(old, new) \/ Drops(old, new)

Legal(old, new) == Sound(new) /\ (Asks(old, new) \/ Revises(old, new))

SoundStore(store) == \A r \in Requests : store[r] # Null => Sound(store[r])

(* What a running operation may rely on.  Its own request has not been       *)
(* written yet while it evicts, seals or writes.                             *)
CurrentInv ==
    current # Idle =>
        LET r == current.request IN
        /\ disk = memory /\ status # "down"
        /\ current.version <= access.version
        /\ current.then = "open" /\ current.version = access.version => access.allowed
        /\ current.pc = "open" =>
              /\ current.next = memory[r] /\ current.then = "open"
              /\ current.next.state = "completed" => current.next.reply # Null
              /\ current.next.state \in Pending \cup {"completed"}
        /\ current.pc # "open" =>
              /\ Legal(memory[r], current.next)
              /\ current.then = "open" => current.next.state \in Pending
              /\ current.then = "grant" => current.by \in Executors
              /\ current.next.reply # Null =>
                    /\ holds[current.next.reply][r] = memory[r].version
                    /\ current.next.updatedAt - memory[r].updatedAt < ExecutionLease
        /\ current.pc = "evict" =>
              /\ memory[r] = Null /\ current.then = "receipt"
              /\ current.victim \in Requests /\ memory[current.victim] # Null
              /\ memory[current.victim].state = "completed"
              /\ memory[current.victim].reply # Null

WithinBounds(store) ==
    Cardinality(Present(store)) <= MaxRetained /\ Cardinality(Occupied(store)) <= MaxRequests

(* A new request is written into a table that has room for it.               *)
RoomInv ==
    current # Idle /\ memory[current.request] = Null =>
        /\ Cardinality(Present(memory)) < MaxRetained
        /\ current.pc # "evict" => Cardinality(Occupied(memory)) < MaxRequests

StoreInv ==
    /\ SoundStore(disk) /\ SoundStore(memory)
    /\ WithinBounds(disk) /\ WithinBounds(memory)

(* What is served, or would be after the next opening, is what is durable.   *)
ServesInv == status \in {"open", "down"} => memory = disk

MailboxInv == TypeOK /\ StoreInv /\ CurrentInv /\ RoomInv /\ ServesInv

---------------------------------------------------------------------------
(* Changes of a record *)

LEMMA Transitions ==
    ASSUME NEW s \in Pending \cup Terminal, NEW t \in {"running", "failed", "cancelled"},
           RequestMayBecome(s, t), s # t
    PROVE  s \in Pending
BY DEF RequestMayBecome, RequestTransitions, Pending, Terminal

LEMMA StopIsLegal ==
    ASSUME NEW record, Sound(record), NEW reason, NEW at \in Nat,
           ~(record.state \in Terminal /\ record.reply = Null)
    PROVE  /\ Legal(record, Stopped(record, reason, at))
           /\ Stopped(record, reason, at).reply = Null
           /\ Stopped(record, reason, at).question = Null
           /\ Stopped(record, reason, at).state \in Terminal
<1> DEFINE new == Stopped(record, reason, at)
<1> DEFINE state == CASE record.state = "queued" -> IF reason = "cancel" THEN "cancelled" ELSE "expired"
                      [] record.state \in {"delivered", "running"} -> "failed"
                      [] OTHER -> record.state
           changed == [record EXCEPT !.state = state, !.version = record.version + 1, !.updatedAt = at,
                                     !.question = Null, !.reply = Null]
<1>1. /\ record \in Record /\ record.version \in Nat /\ record.state \in Pending \cup Terminal
    BY DEF Sound, Record
<1>2. /\ new \in Record /\ new.reply = Null /\ new.question = Null
      /\ new.text = record.text /\ new.answered = record.answered
      /\ new.version > 0 /\ new.authorization >= new.bound
      /\ record.state = "queued" => new.state \in {"cancelled", "expired"}
      /\ record.state \in {"delivered", "running"} => new.state = "failed"
      /\ record.state \in Terminal => new.state = record.state
    <2>1. new = changed
        BY DEF Stopped
    <2>2. /\ state \in Pending \cup Terminal
          /\ record.state = "queued" => state \in {"cancelled", "expired"}
          /\ record.state \in {"delivered", "running"} => state = "failed"
          /\ record.state \in Terminal => state = record.state
        BY <1>1 DEF Pending, Terminal
    <2> HIDE DEF state
    <2>3. record.version + 1 \in Nat /\ Null \in Texts \cup {Null} /\ Null \in Executors \cup {Null}
        BY <1>1
    <2>4. /\ changed \in Record /\ changed.reply = Null /\ changed.question = Null
          /\ changed.text = record.text /\ changed.answered = record.answered /\ changed.state = state
          /\ changed.version = record.version + 1 /\ changed.authorization = record.authorization
          /\ changed.bound = record.bound
        BY <1>1, <2>2, <2>3 DEF Record
    <2>5. record.version + 1 > 0 /\ record.authorization >= record.bound
        BY <1>1 DEF Sound
    <2> QED BY <2>1, <2>2, <2>4, <2>5
<1> HIDE DEF new
<1>3. record # Null
    BY <1>1, NullAssumption
<1>4. CASE record.state \in Pending
    <2>1. new.state \in Terminal \ {"completed"}
        BY <1>2, <1>4 DEF Pending, Terminal
    <2>2. record.answered = Null
        BY <1>4 DEF Sound, Pending
    <2>3. Sound(new)
        BY <1>2, <2>1, <2>2 DEF Sound, Pending, Terminal
    <2> QED BY <1>2, <1>3, <1>4, <2>1, <2>3 DEF Legal, Revises, Stops, new
<1>5. CASE record.state = "completed" /\ record.reply # Null
    <2>1. new.state = "completed"
        BY <1>2, <1>5 DEF Terminal
    <2>2. Sound(new)
        BY <1>2, <1>5, <2>1 DEF Sound, Pending
    <2>3. new.state \in Terminal
        BY <2>1 DEF Terminal
    <2> QED BY <1>2, <1>3, <1>5, <2>1, <2>2, <2>3 DEF Legal, Revises, Drops, new
<1>6. record.state \in Pending \/ (record.state = "completed" /\ record.reply # Null)
    BY <1>1 DEF Sound
<1> QED BY <1>4, <1>5, <1>6

LEMMA ChangeFacts ==
    ASSUME NEW record, Sound(record), NEW state \in Pending \cup Terminal,
           NEW authorization \in Nat, authorization >= record.authorization, NEW at \in Nat
    PROVE  LET new == Changed(record, state, authorization, at) IN
           /\ new.version > 0 /\ new.authorization >= new.bound
           /\ new \in Record /\ new.state = state /\ new.text = record.text
           /\ new.answered = record.answered /\ new.reply = record.reply /\ new.updatedAt = at
           /\ new.question = IF state \in Pending THEN record.question ELSE Null
<1> DEFINE question == IF state \in Pending THEN record.question ELSE Null
           new == [record EXCEPT !.state = state, !.authorization = authorization, !.updatedAt = at,
                                 !.version = record.version + 1, !.question = question]
<1>1. record \in Record /\ question \in Texts \cup {Null} /\ record.version + 1 \in Nat
    BY DEF Sound, Record
<1>2. Changed(record, state, authorization, at) = new
    BY DEF Changed
<1> HIDE DEF question
<1>3. /\ new \in Record /\ new.state = state /\ new.text = record.text
      /\ new.answered = record.answered /\ new.reply = record.reply /\ new.updatedAt = at
      /\ new.question = question /\ new.version = record.version + 1
      /\ new.authorization = authorization /\ new.bound = record.bound
    BY <1>1 DEF Record
<1>4. record.version + 1 > 0 /\ authorization >= record.bound
    BY DEF Sound, Record
<1> QED BY <1>2, <1>3, <1>4 DEF question

LEMMA WorkIsLegal ==
    ASSUME NEW record, Sound(record), record.state \in Pending,
           NEW state \in {"queued", "delivered", "running", "failed", "cancelled"},
           NEW authorization \in Nat, authorization >= record.authorization, NEW at \in Nat
    PROVE  LET new == Changed(record, state, authorization, at) IN
           Legal(record, new) /\ new.reply = Null /\ new.state = state
<1> DEFINE new == Changed(record, state, authorization, at)
<1>1. state \in Pending \cup Terminal /\ state # "completed"
    BY DEF Pending, Terminal
<1>2. /\ new \in Record /\ new.state = state /\ new.text = record.text
      /\ new.answered = record.answered /\ new.reply = record.reply
      /\ new.question = IF state \in Pending THEN record.question ELSE Null
      /\ new.version > 0 /\ new.authorization >= new.bound
    BY <1>1, ChangeFacts
<1> HIDE DEF new
<1>3. record.reply = Null /\ record.answered = Null /\ record.question # Null /\ record # Null
    BY NullAssumption DEF Sound, Pending
<1>4. Sound(new)
    BY <1>1, <1>2, <1>3 DEF Sound, Pending, Terminal
<1> QED BY <1>1, <1>2, <1>3, <1>4 DEF Legal, Revises, Works, Stops, Pending, Terminal, new

Answered(record, x, authorization, at) ==
    [Changed(record, "completed", authorization, at) EXCEPT !.answered = x, !.reply = x]

LEMMA AnswerIsLegal ==
    ASSUME NEW record, Sound(record), record.state = "running", NEW x \in Executors,
           NEW authorization \in Nat, authorization >= record.authorization, NEW at \in Nat
    PROVE  LET new == Answered(record, x, authorization, at) IN
           Legal(record, new) /\ new.reply = x /\ new.updatedAt = at
<1> DEFINE old == Changed(record, "completed", authorization, at)
           new == [old EXCEPT !.answered = x, !.reply = x]
<1>1. /\ old \in Record /\ old.state = "completed" /\ old.text = record.text
      /\ old.updatedAt = at /\ old.question = Null
      /\ old.version > 0 /\ old.authorization >= old.bound
    BY ChangeFacts DEF Pending, Terminal
<1> HIDE DEF old
<1>2. /\ new \in Record /\ new.state = "completed" /\ new.text = record.text
      /\ new.answered = x /\ new.reply = x /\ new.updatedAt = at /\ new.question = Null
      /\ new.version > 0 /\ new.authorization >= new.bound
    BY <1>1 DEF Record
<1> HIDE DEF new
<1>3. record # Null /\ x # Null
    BY NullAssumption DEF Sound
<1>4. Sound(new)
    BY <1>2, <1>3 DEF Sound, Pending
<1> QED BY <1>2, <1>3, <1>4 DEF Legal, Revises, Answers, Answered, Pending, old, new

---------------------------------------------------------------------------
(* What a write does to the table *)

LEMMA RequestsFinite ==
    ASSUME NEW S \in SUBSET Requests
    PROVE  IsFiniteSet(S) /\ Cardinality(S) \in Nat
BY MailboxAssumption, FS_Subset, FS_CardinalityType

(* A revision retains what was retained and occupies no more room.           *)
LEMMA RevisionFits ==
    ASSUME NEW store \in StoreType, NEW r \in Requests, NEW new, store[r] # Null, Sound(store[r]),
           Legal(store[r], new)
    PROVE  LET next == [store EXCEPT ![r] = new] IN
           /\ Present(next) = Present(store) /\ Occupied(next) \subseteq Occupied(store)
           /\ Tombstone(new) => Occupied(next) \subseteq Occupied(store) \ {r}
<1> DEFINE next == [store EXCEPT ![r] = new]
<1>1. next[r] = new /\ \A other \in Requests \ {r} : next[other] = store[other]
    BY DEF StoreType
<1>2. new # Null
    BY NullAssumption DEF Legal, Sound
<1> HIDE DEF next
<1>3. Present(next) = Present(store)
    BY <1>1, <1>2 DEF Present
<1>4. ~Tombstone(store[r])
    BY DEF Tombstone, Sound, Legal, Asks, Revises, Works, Answers, Stops, Drops, Pending, Terminal
<1>5. Occupied(next) \subseteq Occupied(store)
    BY <1>1, <1>3, <1>4 DEF Occupied, Present
<1>6. Tombstone(new) => r \notin Occupied(next)
    BY <1>1 DEF Occupied
<1> QED BY <1>3, <1>5, <1>6 DEF next

LEMMA AskFits ==
    ASSUME NEW store \in StoreType, NEW r \in Requests, NEW new, store[r] = Null, new # Null
    PROVE  LET next == [store EXCEPT ![r] = new] IN
           /\ Present(next) = Present(store) \cup {r}
           /\ Occupied(next) \subseteq Occupied(store) \cup {r}
<1> DEFINE next == [store EXCEPT ![r] = new]
<1>1. next[r] = new /\ \A other \in Requests \ {r} : next[other] = store[other]
    BY DEF StoreType
<1> HIDE DEF next
<1>2. Present(next) = Present(store) \cup {r}
    BY <1>1 DEF Present
<1>3. Occupied(next) \subseteq Occupied(store) \cup {r}
    BY <1>1, <1>2 DEF Occupied, Present
<1> QED BY <1>2, <1>3 DEF next

---------------------------------------------------------------------------
(* Operations *)

LEMMA InitMailbox == Init => MailboxInv
<1> SUFFICES ASSUME Init PROVE MailboxInv
    OBVIOUS
<1>1. TypeOK
    BY DEF Init, TypeOK, StoreType
<1>2. Present(disk) = {} /\ Occupied(disk) = {}
    BY DEF Init, Present, Occupied
<1>3. WithinBounds(disk) /\ WithinBounds(memory)
    <2>1. Cardinality({}) = 0 /\ 0 <= MaxRetained /\ 0 <= MaxRequests
        BY FS_EmptySet, MailboxAssumption
    <2>2. WithinBounds(disk)
        BY <1>2, <2>1 DEF WithinBounds
    <2>3. memory = disk
        BY DEF Init
    <2> QED BY <2>2, <2>3
<1>4. SoundStore(disk) /\ SoundStore(memory)
    BY DEF Init, SoundStore
<1> QED BY <1>1, <1>3, <1>4 DEF MailboxInv, StoreInv, CurrentInv, RoomInv, ServesInv, Init

(* A step that leaves no operation running.                                  *)
LEMMA EndsIdle ==
    ASSUME TypeOK', StoreInv', ServesInv', current' = Idle
    PROVE  MailboxInv'
BY DEF MailboxInv, CurrentInv, RoomInv

(* An operation that passed its checks, with its write still to come.        *)
LEMMA WriteStarts ==
    ASSUME MailboxInv, Ready, Still, current' \in OperationType, current'.pc \in {"seal", "write"},
           current'.version = access.version,
           Legal(memory[current'.request], current'.next),
           current'.then = "open" => access.allowed /\ current'.next.state \in Pending,
           current'.then = "grant" => current'.by \in Executors,
           current'.next.reply # Null =>
               /\ holds[current'.next.reply][current'.request] = memory[current'.request].version
               /\ current'.next.updatedAt - memory[current'.request].updatedAt < ExecutionLease,
           memory[current'.request] = Null =>
               Cardinality(Present(memory)) < MaxRetained /\ Cardinality(Occupied(memory)) < MaxRequests
    PROVE  MailboxInv'
<1>1. UNCHANGED <<disk, memory, now, access, status, worker, holds>>
    BY DEF Still
<1>2. TypeOK'
    BY <1>1 DEF MailboxInv, TypeOK
<1>3. StoreInv' /\ ServesInv' /\ disk = memory
    BY <1>1 DEF MailboxInv, StoreInv, ServesInv, Ready
<1>4. access.version \in Nat
    BY DEF MailboxInv, TypeOK
<1>5. CurrentInv'
    BY <1>1, <1>3, <1>4 DEF CurrentInv, Ready
<1>6. RoomInv'
    BY <1>1 DEF RoomInv
<1> QED BY <1>2, <1>3, <1>5, <1>6 DEF MailboxInv

(* An operation that only opens the body of a record.                        *)
LEMMA OpenStarts ==
    ASSUME MailboxInv, Ready, Still, current' \in OperationType, current'.pc = "open", current'.then = "open",
           current'.version = access.version, access.allowed,
           memory[current'.request] # Null, current'.next = memory[current'.request],
           current'.next.state = "completed" => current'.next.reply # Null,
           current'.next.state \in Pending \cup {"completed"}
    PROVE  MailboxInv'
<1>1. UNCHANGED <<disk, memory, now, access, status, worker, holds>>
    BY DEF Still
<1>2. TypeOK'
    BY <1>1 DEF MailboxInv, TypeOK
<1>3. StoreInv' /\ ServesInv' /\ disk = memory
    BY <1>1 DEF MailboxInv, StoreInv, ServesInv, Ready
<1>4. access.version \in Nat
    BY DEF MailboxInv, TypeOK
<1>5. CurrentInv'
    BY <1>1, <1>3, <1>4 DEF CurrentInv, Ready
<1>6. RoomInv'
    BY <1>1 DEF RoomInv
<1> QED BY <1>2, <1>3, <1>5, <1>6 DEF MailboxInv

LEMMA RunFacts ==
    ASSUME TypeOK, NEW x \in Executors \cup {Null}, NEW pc \in {"seal", "write", "open"}, NEW r \in Requests,
           NEW next \in Record, NEW then \in {"receipt", "hidden", "open", "grant", "sweep"},
           RunBy(x, pc, r, next, then)
    PROVE  /\ current' \in OperationType /\ current'.pc = pc /\ current'.request = r /\ current'.next = next
           /\ current'.then = then /\ current'.by = x /\ current'.version = access.version
BY DEF RunBy, TypeOK, OperationType

LEMMA RunIsRunBy ==
    ASSUME NEW pc, NEW r, NEW next, NEW then, Run(pc, r, next, then)
    PROVE  RunBy(Null, pc, r, next, then)
BY DEF Run, RunBy

(* The record an operation finds is sound, and its fields have their types.  *)
LEMMA FoundRecord ==
    ASSUME MailboxInv, NEW r \in Requests, memory[r] # Null
    PROVE  /\ Sound(memory[r]) /\ memory[r] \in Record /\ memory[r].version \in Nat
           /\ memory[r].state \in Pending \cup Terminal /\ memory[r].updatedAt \in Nat
           /\ now \in Nat /\ access.version \in Nat
BY DEF MailboxInv, StoreInv, SoundStore, Sound, Record, TypeOK

LEMMA AllowedAccess ==
    ASSUME NEW r, Allowed(r)
    PROVE  memory[r] # Null /\ access.allowed /\ ~(memory[r].authorization > access.version)
BY DEF Allowed, Decision

LEMMA EnqueueStep ==
    ASSUME MailboxInv, NEW r \in Requests, NEW t \in Texts, Enqueue(r, t)
    PROVE  MailboxInv'
<1> DEFINE q == Question(r, t)
<1>1. /\ Ready /\ Still /\ memory[r] = Null /\ Cardinality(Present(memory)) < MaxRetained
    BY DEF Enqueue, Fresh, Issue
<1>2. now \in Nat /\ access.version \in Nat /\ TypeOK
    BY DEF MailboxInv, TypeOK
<1>3. /\ q \in Record /\ q.state = "queued" /\ q.reply = Null /\ q.answered = Null /\ q.question = t
      /\ q.version > 0 /\ q.authorization >= q.bound
    BY <1>2 DEF Question, Record, Pending
<1> HIDE DEF q
<1>4. Legal(memory[r], q)
    BY <1>1, <1>3, NullAssumption DEF Legal, Sound, Asks, Pending
<1>5. CASE HasRoom /\ Run("seal", r, q, "receipt")
    <2>1. /\ current' \in OperationType /\ current'.pc = "seal" /\ current'.request = r
          /\ current'.next = q /\ current'.then = "receipt" /\ current'.version = access.version
        <3>1. RunBy(Null, "seal", r, q, "receipt") /\ Null \in Executors \cup {Null}
            BY <1>5, RunIsRunBy
        <3> QED BY <1>2, <1>3, <3>1, RunFacts
    <2>2. Cardinality(Occupied(memory)) < MaxRequests
        BY <1>5 DEF HasRoom
    <2> QED BY <1>1, <1>3, <1>4, <2>1, <2>2, WriteStarts
<1>6. ASSUME NEW v \in Evictable,
             current' = [pc |-> "evict", request |-> r, next |-> q, then |-> "receipt",
                         by |-> Null, at |-> now, version |-> access.version, victim |-> v, left |-> 0]
      PROVE  MailboxInv'
    <2>1. UNCHANGED <<disk, memory, now, access, status, worker, holds>>
        BY <1>1 DEF Still
    <2>2. /\ v \in Requests /\ memory[v] # Null /\ memory[v].state = "completed" /\ ~Tombstone(memory[v])
        BY DEF Evictable, Occupied, Present
    <2>3. memory[v].reply # Null
        BY <2>2, FoundRecord DEF Tombstone, Sound, Pending, Terminal
    <2>4. current' \in OperationType
        BY <1>2, <1>3, <1>6, <2>2 DEF OperationType
    <2>5. TypeOK'
        BY <2>1, <2>4 DEF MailboxInv, TypeOK
    <2>6. StoreInv' /\ ServesInv' /\ disk = memory
        BY <1>1, <2>1 DEF MailboxInv, StoreInv, ServesInv, Ready
    <2>7. CurrentInv'
        BY <1>1, <1>2, <1>3, <1>4, <1>6, <2>1, <2>2, <2>3, <2>6 DEF CurrentInv, Ready
    <2>8. RoomInv'
        BY <1>1, <1>6, <2>1 DEF RoomInv
    <2> QED BY <2>5, <2>6, <2>7, <2>8 DEF MailboxInv
<1> QED BY <1>5, <1>6 DEF Enqueue, q

LEMMA StopStep ==
    ASSUME MailboxInv, Ready, NEW r \in Requests, NEW then \in {"receipt", "hidden"}, Stop(r, then)
    PROVE  MailboxInv'
<1> DEFINE new == Stopped(memory[r], Decision(r, memory[r].authorization), now)
<1>1. /\ Still /\ memory[r] # Null /\ ~AlreadyStopped(r) /\ Run("write", r, new, then)
    BY DEF Stop, Issue
<1>2. Legal(memory[r], new) /\ new.reply = Null
    BY <1>1, FoundRecord, StopIsLegal DEF AlreadyStopped
<1> HIDE DEF new
<1>3. new \in Record
    BY <1>2 DEF Legal, Sound
<1>4. /\ current' \in OperationType /\ current'.pc = "write" /\ current'.request = r
      /\ current'.next = new /\ current'.then = then /\ current'.version = access.version
    BY <1>1, <1>3, RunIsRunBy, RunFacts DEF MailboxInv
<1> QED BY <1>1, <1>2, <1>4, WriteStarts

(* An answer read from the table changes nothing else.                       *)
LEMMA ObserveStep ==
    ASSUME MailboxInv, NEW r, Observe(r)
    PROVE  MailboxInv'
BY DEF Observe, Still, MailboxInv, TypeOK, StoreInv, CurrentInv, RoomInv, ServesInv

(* A change of pending work, by `x` or by nobody in particular.              *)
LEMMA ChangeStep ==
    ASSUME MailboxInv, Ready, Still, NEW r \in Requests, Allowed(r), memory[r].state \in Pending,
           NEW x \in Executors \cup {Null},
           NEW state \in {"queued", "delivered", "running", "failed", "cancelled"},
           NEW then \in {"receipt", "open", "grant"},
           then = "open" => state \in Pending, then = "grant" => x \in Executors,
           RunBy(x, "write", r, Changed(memory[r], state, access.version, now), then)
    PROVE  MailboxInv'
<1> DEFINE new == Changed(memory[r], state, access.version, now)
<1>1. memory[r] # Null /\ access.allowed /\ access.version >= memory[r].authorization
    BY AllowedAccess, FoundRecord DEF Record
<1>2. Legal(memory[r], new) /\ new.reply = Null /\ new.state = state
    BY <1>1, FoundRecord, WorkIsLegal
<1> HIDE DEF new
<1>3. new \in Record
    BY <1>2 DEF Legal, Sound
<1>4. /\ current' \in OperationType /\ current'.pc = "write" /\ current'.request = r
      /\ current'.next = new /\ current'.then = then /\ current'.by = x
      /\ current'.version = access.version
    BY <1>3, RunFacts DEF MailboxInv, new
<1> QED BY <1>1, <1>2, <1>4, WriteStarts

LEMMA OpenStep ==
    ASSUME MailboxInv, Ready, Still, NEW r \in Requests, Allowed(r), NEW x \in Executors \cup {Null},
           memory[r].state \in Pending \/ (memory[r].state = "completed" /\ memory[r].reply # Null),
           RunBy(x, "open", r, memory[r], "open")
    PROVE  MailboxInv'
<1>1. memory[r] # Null /\ access.allowed
    BY AllowedAccess
<1>2. memory[r] \in Record /\ "completed" \notin Pending
    BY <1>1, FoundRecord DEF Pending
<1>3. /\ current' \in OperationType /\ current'.pc = "open" /\ current'.request = r
      /\ current'.next = memory[r] /\ current'.then = "open" /\ current'.version = access.version
    BY <1>2, RunFacts DEF MailboxInv
<1> QED BY <1>1, <1>2, <1>3, OpenStarts

LEMMA ReadSteps ==
    ASSUME MailboxInv, NEW r \in Requests, NEW x \in Executors \cup {Null},
           Dispatch(x, r) \/ Status(r) \/ ReadReply(r) \/ \E t \in Texts : EnqueueAgain(r, t)
    PROVE  MailboxInv'
<1>1. Ready
    BY DEF Dispatch, Status, ReadReply, EnqueueAgain
<1>2. CASE Observe(r)
    BY <1>2, ObserveStep
<1>3. CASE Stop(r, "receipt") \/ Stop(r, "hidden")
    BY <1>1, <1>3, StopStep
<1>4. CASE /\ Allowed(r) /\ memory[r].state = "queued" /\ Issue
           /\ RunBy(x, "write", r,
                    Changed(memory[r], IF x = Null THEN "queued" ELSE "delivered", access.version, now),
                    IF x = Null THEN "receipt" ELSE "open")
    <2>1. Still /\ memory[r].state \in Pending
        BY <1>4 DEF Issue, Pending
    <2>2. CASE x = Null
        BY <1>1, <1>4, <2>1, <2>2, ChangeStep
    <2>3. CASE x # Null
        <3>1. "delivered" \in Pending
            BY DEF Pending
        <3> QED BY <1>1, <1>4, <2>1, <2>3, <3>1, ChangeStep
    <2> QED BY <2>2, <2>3
<1>5. CASE /\ Allowed(r) /\ memory[r].state \in {"delivered", "running"} /\ Issue
           /\ RunBy(x, "open", r, memory[r], "open")
    <2>1. Still /\ memory[r].state \in Pending
        BY <1>5 DEF Issue, Pending
    <2> QED BY <1>1, <1>5, <2>1, OpenStep
<1>6. CASE /\ Allowed(r) /\ memory[r].state = "completed" /\ memory[r].reply # Null
           /\ Run("open", r, memory[r], "open") /\ Issue
    <2>1. Still /\ RunBy(Null, "open", r, memory[r], "open") /\ Null \in Executors \cup {Null}
        BY <1>6, RunIsRunBy DEF Issue
    <2> QED BY <1>1, <1>6, <2>1, OpenStep
<1> QED BY <1>2, <1>3, <1>4, <1>5, <1>6 DEF Dispatch, Status, ReadReply, EnqueueAgain

LEMMA ExecutionSteps ==
    ASSUME MailboxInv, NEW r \in Requests, NEW x \in Executors, StartExecution(x, r) \/ RenewExecution(x, r)
    PROVE  MailboxInv'
<1>1. /\ Ready /\ Still /\ Allowed(r)
      /\ RunBy(x, "write", r, Changed(memory[r], "running", access.version, now), "grant")
    BY DEF StartExecution, RenewExecution, Issue
<1>2. memory[r].state \in Pending
    BY DEF StartExecution, RenewExecution, Acquirable, LeaseExpired, InTime, Pending
<1> QED BY <1>1, <1>2, ChangeStep

LEMMA MoveStep ==
    ASSUME MailboxInv, NEW r \in Requests, NEW target \in {"running", "failed", "cancelled"}, Move(r, target)
    PROVE  MailboxInv'
<1>1. /\ Ready /\ Still /\ Allowed(r) /\ memory[r].state # target /\ RequestMayBecome(memory[r].state, target)
      /\ Run("write", r, Changed(memory[r], target, access.version, now), "receipt")
    BY DEF Move, Issue
<1>2. memory[r].state \in Pending
    BY <1>1, AllowedAccess, FoundRecord, Transitions
<1>3. RunBy(Null, "write", r, Changed(memory[r], target, access.version, now), "receipt")
    BY <1>1, RunIsRunBy
<1> QED BY <1>1, <1>2, <1>3, ChangeStep

LEMMA CompleteStep ==
    ASSUME MailboxInv, NEW r \in Requests, NEW x \in Executors, Complete(x, r)
    PROVE  MailboxInv'
<1> DEFINE new == Answered(memory[r], x, access.version, now)
<1>1. /\ Ready /\ Still /\ Allowed(r) /\ HoldsNewest(x, r) /\ InTime(r)
      /\ RunBy(x, "seal", r, new, "receipt")
    BY DEF Complete, Issue, Answered
<1>2. memory[r] # Null /\ memory[r].state = "running" /\ access.version >= memory[r].authorization
    BY <1>1, AllowedAccess, FoundRecord DEF InTime, Record
<1>3. Legal(memory[r], new) /\ new.reply = x /\ new.updatedAt = now
    BY <1>2, FoundRecord, AnswerIsLegal
<1> HIDE DEF new
<1>4. new \in Record
    BY <1>3 DEF Legal, Sound
<1>5. /\ current' \in OperationType /\ current'.pc = "seal" /\ current'.request = r
      /\ current'.next = new /\ current'.then = "receipt" /\ current'.version = access.version
    <2>1. "seal" \in {"seal", "write", "open"} /\ "receipt" \in {"receipt", "hidden", "open", "grant", "sweep"}
          /\ x \in Executors \cup {Null} /\ TypeOK /\ RunBy(x, "seal", r, new, "receipt")
        BY <1>1 DEF MailboxInv
    <2> QED BY <1>4, <2>1, RunFacts
<1>6. holds[x][r] = memory[r].version /\ now - memory[r].updatedAt < ExecutionLease
    <2>1. now \in Nat /\ memory[r].updatedAt \in Nat /\ ExecutionLease \in Nat \ {0}
        BY <1>2, FoundRecord, MailboxAssumption
    <2> QED BY <1>1, <2>1 DEF HoldsNewest, InTime, LeaseExpired
<1> QED BY <1>1, <1>2, <1>3, <1>5, <1>6, WriteStarts

(* What has expired still holds something to erase.                          *)
LEMMA ExpiredIsLegal ==
    ASSUME MailboxInv, NEW r \in Requests, NEW clock \in Nat, NeedsExpiry(r, clock), NEW at \in Nat
    PROVE  LET new == Stopped(memory[r], "expire", at) IN
           memory[r] # Null /\ Legal(memory[r], new) /\ new.reply = Null
<1>1. memory[r] # Null /\ ~(memory[r].state \in Terminal /\ memory[r].reply = Null)
    BY DEF NeedsExpiry, Pending, Terminal
<1> QED BY <1>1, FoundRecord, StopIsLegal

LEMMA SweepStep ==
    ASSUME MailboxInv, Sweep
    PROVE  MailboxInv'
<1>1. PICK r \in Requests :
        /\ NeedsExpiry(r, now)
        /\ current' = [pc |-> "write", request |-> r, next |-> Stopped(memory[r], "expire", now),
                       then |-> "sweep", by |-> Null, at |-> now, version |-> access.version,
                       victim |-> Null, left |-> MaxItems - 1]
    BY DEF Sweep
<1>2. Ready /\ Still /\ now \in Nat /\ access.version \in Nat
    BY DEF Sweep, Issue, MailboxInv, TypeOK
<1>3. PICK new : new = Stopped(memory[r], "expire", now)
    OBVIOUS
<1>4. memory[r] # Null /\ Legal(memory[r], new) /\ new.reply = Null /\ new \in Record
    BY <1>1, <1>2, <1>3, ExpiredIsLegal DEF Legal, Sound
<1>5. /\ current' \in OperationType /\ current'.pc = "write" /\ current'.request = r
      /\ current'.next = new /\ current'.then = "sweep" /\ current'.version = access.version
    BY <1>1, <1>2, <1>3, <1>4, MailboxAssumption DEF OperationType
<1> QED BY <1>2, <1>4, <1>5, WriteStarts

---------------------------------------------------------------------------
(* Writes *)

(* What the operation at hand writes, landed or about to land.               *)
LEMMA WrittenFacts ==
    ASSUME MailboxInv, current.pc \in {"evict", "write"}
    PROVE  /\ Written \in StoreType /\ SoundStore(Written) /\ WithinBounds(Written)
           /\ current \in OperationType /\ disk = memory
           /\ current.pc = "write" =>
                 /\ Written[current.request] = current.next
                 /\ \A other \in Requests \ {current.request} : Written[other] = memory[other]
           /\ current.pc = "evict" =>
                 /\ Written[current.request] = Null
                 /\ Cardinality(Present(Written)) < MaxRetained
                 /\ Cardinality(Occupied(Written)) < MaxRequests
<1>1. current # Idle /\ current \in OperationType /\ disk = memory /\ memory \in StoreType
    BY DEF MailboxInv, TypeOK, CurrentInv, Idle
<1>2. PICK r \in Requests : r = current.request
    BY <1>1 DEF OperationType
<1>3. /\ Present(memory) \in SUBSET Requests /\ Occupied(memory) \in SUBSET Requests
      /\ Cardinality(Present(memory)) <= MaxRetained /\ Cardinality(Occupied(memory)) <= MaxRequests
    BY DEF Present, Occupied, MailboxInv, StoreInv, WithinBounds
<1>4. /\ IsFiniteSet(Present(memory)) /\ Cardinality(Present(memory)) \in Nat
      /\ IsFiniteSet(Occupied(memory)) /\ Cardinality(Occupied(memory)) \in Nat
    BY <1>3, RequestsFinite
<1>5. CASE current.pc = "write"
    <2>1. Legal(memory[r], current.next) /\ Sound(current.next) /\ current.next \in Record
        BY <1>1, <1>2, <1>5 DEF MailboxInv, CurrentInv, Legal, Sound
    <2>2. Written = [memory EXCEPT ![r] = current.next]
        BY <1>2, <1>5 DEF Written
    <2>3. /\ Written \in StoreType /\ Written[r] = current.next
          /\ \A other \in Requests \ {r} : Written[other] = memory[other]
        BY <1>1, <2>1, <2>2 DEF StoreType
    <2>4. SoundStore(Written)
        BY <2>1, <2>3 DEF SoundStore, MailboxInv, StoreInv
    <2>5. CASE memory[r] = Null
        <3>1. current.next # Null
            BY <2>1, NullAssumption
        <3>2. Present(Written) = Present(memory) \cup {r} /\ Occupied(Written) \subseteq Occupied(memory) \cup {r}
            BY <1>1, <2>2, <2>5, <3>1, AskFits
        <3>3. Cardinality(Present(memory)) < MaxRetained /\ Cardinality(Occupied(memory)) < MaxRequests
            BY <1>1, <1>2, <1>5, <2>5 DEF MailboxInv, RoomInv
        <3>4. /\ IsFiniteSet(Occupied(memory) \cup {r})
              /\ Cardinality(Present(memory) \cup {r}) <= Cardinality(Present(memory)) + 1
              /\ Cardinality(Occupied(memory) \cup {r}) <= Cardinality(Occupied(memory)) + 1
            <4>1. r \notin Present(memory) /\ r \notin Occupied(memory)
                BY <2>5 DEF Present, Occupied
            <4>2. /\ IsFiniteSet(Occupied(memory) \cup {r})
                  /\ Cardinality(Occupied(memory) \cup {r}) = Cardinality(Occupied(memory)) + 1
                BY <1>4, <4>1, FS_AddElement
            <4>3. Cardinality(Present(memory) \cup {r}) = Cardinality(Present(memory)) + 1
                BY <1>4, <4>1, FS_AddElement
            <4> QED BY <1>4, <4>2, <4>3
        <3>5. Cardinality(Occupied(Written)) <= Cardinality(Occupied(memory) \cup {r})
            BY <3>2, <3>4, FS_Subset
        <3>6. /\ Present(memory) \cup {r} \in SUBSET Requests /\ Occupied(memory) \cup {r} \in SUBSET Requests
              /\ Occupied(Written) \in SUBSET Requests
            BY <1>3, <3>2
        <3>7. /\ Cardinality(Present(memory) \cup {r}) \in Nat /\ Cardinality(Occupied(memory) \cup {r}) \in Nat
              /\ Cardinality(Occupied(Written)) \in Nat
            BY <3>6, RequestsFinite
        <3>8. WithinBounds(Written)
            BY <1>4, <3>2, <3>3, <3>4, <3>5, <3>7, MailboxAssumption DEF WithinBounds
        <3> QED BY <1>1, <1>2, <1>5, <2>3, <2>4, <3>8
    <2>6. CASE memory[r] # Null
        <3>1. Sound(memory[r])
            BY <2>6 DEF MailboxInv, StoreInv, SoundStore
        <3>2. Present(Written) = Present(memory) /\ Occupied(Written) \subseteq Occupied(memory)
            BY <1>1, <2>1, <2>2, <2>6, <3>1, RevisionFits
        <3>3. Cardinality(Occupied(Written)) <= Cardinality(Occupied(memory))
            BY <1>4, <3>2, FS_Subset
        <3>4. Cardinality(Occupied(Written)) \in Nat
            BY <1>3, <3>2, RequestsFinite
        <3>5. WithinBounds(Written)
            BY <1>3, <1>4, <3>2, <3>3, <3>4, MailboxAssumption DEF WithinBounds
        <3> QED BY <1>1, <1>2, <1>5, <2>3, <2>4, <3>5
    <2> QED BY <2>5, <2>6
<1>6. CASE current.pc = "evict"
    <2>1. PICK v \in Requests : v = current.victim
        BY <1>1, <1>6 DEF MailboxInv, CurrentInv
    <2>2. /\ memory[r] = Null /\ memory[v] # Null /\ memory[v].state = "completed" /\ memory[v].reply # Null
        BY <1>1, <1>2, <1>6, <2>1 DEF MailboxInv, CurrentInv
    <2> DEFINE new == Stopped(memory[v], "expire", current.at)
    <2>3. Sound(memory[v]) /\ current.at \in Nat
        BY <1>1, <2>2 DEF MailboxInv, StoreInv, SoundStore, OperationType
    <2>4. Legal(memory[v], new) /\ new.reply = Null /\ new.question = Null /\ new.state \in Terminal
        BY <2>2, <2>3, StopIsLegal
    <2>5. Written = [memory EXCEPT ![v] = new]
        BY <1>6, <2>1 DEF Written
    <2> HIDE DEF new
    <2>6. Sound(new) /\ new \in Record /\ Tombstone(new)
        BY <2>4 DEF Legal, Sound, Tombstone
    <2>7. /\ Written \in StoreType /\ Written[v] = new
          /\ \A other \in Requests \ {v} : Written[other] = memory[other]
        BY <1>1, <2>5, <2>6 DEF StoreType
    <2>8. SoundStore(Written)
        BY <2>6, <2>7 DEF SoundStore, MailboxInv, StoreInv
    <2>9. Written[r] = Null
        BY <2>2, <2>7
    <2>10. Present(Written) = Present(memory) /\ Occupied(Written) \subseteq Occupied(memory) \ {v}
        BY <1>1, <2>2, <2>3, <2>4, <2>5, <2>6, RevisionFits
    <2>11. v \in Occupied(memory)
        BY <2>2 DEF Occupied, Present, Tombstone
    <2>12. /\ IsFiniteSet(Occupied(memory) \ {v})
           /\ Cardinality(Occupied(memory) \ {v}) = Cardinality(Occupied(memory)) - 1
        BY <1>4, <2>11, FS_RemoveElement
    <2>13. Cardinality(Occupied(Written)) <= Cardinality(Occupied(memory) \ {v})
        BY <2>10, <2>12, FS_Subset
    <2>14. Occupied(Written) \in SUBSET Requests
        BY <1>3, <2>10
    <2>15. Cardinality(Occupied(Written)) \in Nat
        BY <2>14, RequestsFinite
    <2>16. Cardinality(Occupied(Written)) < MaxRequests
        BY <1>3, <1>4, <2>12, <2>13, <2>15, MailboxAssumption
    <2>17. Cardinality(Present(Written)) < MaxRetained
        BY <1>1, <1>2, <2>2, <2>10 DEF MailboxInv, RoomInv
    <2>18. WithinBounds(Written)
        BY <1>3, <2>10, <2>15, <2>16, MailboxAssumption DEF WithinBounds
    <2> QED BY <1>1, <1>2, <1>6, <2>7, <2>8, <2>9, <2>16, <2>17, <2>18
<1> QED BY <1>5, <1>6

LEMMA SealedStep ==
    ASSUME MailboxInv, Sealed
    PROVE  MailboxInv'
<1>1. UNCHANGED <<disk, memory, now, access, worker, holds>> /\ current.pc = "seal"
    BY DEF Sealed, Abandon
<1>2. StoreInv'
    BY <1>1 DEF MailboxInv, StoreInv
<1>3. CASE Fence /\ current' = [current EXCEPT !.pc = "write"] /\ UNCHANGED status
    <2>1. current # Idle /\ current \in OperationType
        BY <1>1 DEF MailboxInv, TypeOK, Idle
    <2>2. /\ current' \in OperationType /\ current' # Idle /\ current'.pc = "write"
          /\ current'.request = current.request /\ current'.next = current.next
          /\ current'.then = current.then /\ current'.by = current.by
          /\ current'.version = current.version
        BY <1>3, <2>1 DEF OperationType, Idle
    <2>3. TypeOK'
        BY <1>1, <1>3, <2>2 DEF MailboxInv, TypeOK
    <2>4. CurrentInv'
        BY <1>1, <1>3, <2>1, <2>2 DEF MailboxInv, CurrentInv
    <2>5. RoomInv'
        BY <1>1, <2>1, <2>2 DEF MailboxInv, RoomInv
    <2> QED BY <1>1, <1>2, <1>3, <2>3, <2>4, <2>5 DEF MailboxInv, ServesInv
<1>4. CASE current' = Idle /\ (UNCHANGED status \/ Abandon)
    <2>1. status' = status \/ (status' = "unavailable" /\ status = "open")
        BY <1>4 DEF Abandon
    <2>2. TypeOK'
        BY <1>1, <1>4, <2>1 DEF MailboxInv, TypeOK
    <2>3. ServesInv'
        BY <1>1, <2>1 DEF MailboxInv, ServesInv
    <2> QED BY <1>2, <1>4, <2>2, <2>3, EndsIdle
<1> QED BY <1>3, <1>4 DEF Sealed, Abandon

LEMMA OpenedStep ==
    ASSUME MailboxInv, Opened
    PROVE  MailboxInv'
<1>1. UNCHANGED <<disk, memory, now, access, worker, holds>> /\ current' = Idle
    BY DEF Opened, Abandon
<1>2. status' = status \/ (status' = "unavailable" /\ status = "open")
    BY DEF Opened, Abandon
<1>3. StoreInv'
    BY <1>1 DEF MailboxInv, StoreInv
<1>4. TypeOK'
    BY <1>1, <1>2 DEF MailboxInv, TypeOK
<1>5. ServesInv'
    BY <1>1, <1>2 DEF MailboxInv, ServesInv
<1> QED BY <1>1, <1>3, <1>4, <1>5, EndsIdle

LEMMA WriteFailsStep ==
    ASSUME MailboxInv, WriteFails
    PROVE  MailboxInv'
<1>1. /\ disk' \in {disk, Written} /\ UNCHANGED <<memory, now, access, holds>> /\ current' = Idle
      /\ status' = Isolated /\ worker' \in {worker, "stopped"} /\ current.pc \in {"evict", "write"}
    BY DEF WriteFails
<1>2. Written \in StoreType /\ SoundStore(Written) /\ WithinBounds(Written)
    BY <1>1, WrittenFacts
<1>3. disk' \in StoreType /\ SoundStore(disk') /\ WithinBounds(disk')
    BY <1>1, <1>2 DEF MailboxInv, StoreInv, TypeOK
<1>4. StoreInv'
    BY <1>1, <1>3 DEF MailboxInv, StoreInv
<1>5. TypeOK'
    BY <1>1, <1>3 DEF MailboxInv, TypeOK, Isolated
<1>6. ServesInv'
    <2>1. status # "down"
        BY <1>1 DEF MailboxInv, CurrentInv, Idle
    <2> QED BY <1>1, <2>1 DEF Isolated, ServesInv
<1> QED BY <1>1, <1>4, <1>5, <1>6, EndsIdle

(* The next write of a batch, on what the last one left.                     *)
LEMMA SweepGoesOn ==
    ASSUME MailboxInv, WriteLands, current.then = "sweep", current' # Idle
    PROVE  MailboxInv'
<1>1. /\ disk' = Written /\ memory' = Written /\ UNCHANGED <<now, access, status, worker, holds>>
      /\ current.pc \in {"evict", "write"} /\ status = "open" /\ SweepOn(Written)
    BY DEF WriteLands
<1>2. current # Idle
    BY <1>1 DEF Idle
<1>3. current.pc = "write"
    BY <1>1, <1>2 DEF MailboxInv, CurrentInv
<1>4. /\ Written \in StoreType /\ SoundStore(Written) /\ WithinBounds(Written) /\ current \in OperationType
      /\ \A other \in Requests \ {current.request} : Written[other] = memory[other]
    BY <1>3, WrittenFacts
<1>5. PICK r \in Requests :
        /\ NeedsExpiry(r, current.at) /\ r # current.request
        /\ current' = [current EXCEPT !.request = r, !.left = @ - 1,
                                      !.next = Stopped(Written[r], "expire", current.at)]
    BY <1>1 DEF SweepOn
<1>6. PICK new : new = Stopped(Written[r], "expire", current.at)
    OBVIOUS
<1>7. Written[r] = memory[r] /\ current.at \in Nat /\ current.version \in Nat
    BY <1>4, <1>5 DEF OperationType
<1>8. memory[r] # Null /\ Legal(memory[r], new) /\ new.reply = Null /\ new \in Record
    BY <1>5, <1>6, <1>7, ExpiredIsLegal DEF Legal, Sound
<1>9. current' = [current EXCEPT !.request = r, !.left = current.left - 1, !.next = new]
    BY <1>5, <1>6
<1>10. /\ current' \in OperationType /\ current'.request = r /\ current'.next = new
       /\ current'.pc = "write" /\ current'.then = "sweep" /\ current'.version = current.version
    <2>1. PICK left \in Int : left = current.left - 1
        BY <1>4 DEF OperationType
    <2>2. current' = [current EXCEPT !.request = r, !.left = left, !.next = new]
        BY <1>9, <2>1
    <2> QED BY <1>3, <1>4, <1>8, <2>2 DEF OperationType
<1>11. TypeOK'
    BY <1>1, <1>4, <1>10 DEF MailboxInv, TypeOK
<1>12. StoreInv' /\ ServesInv'
    BY <1>1, <1>4 DEF StoreInv, ServesInv
<1>13. CurrentInv'
    BY <1>1, <1>2, <1>7, <1>8, <1>10 DEF MailboxInv, CurrentInv
<1>14. RoomInv'
    BY <1>1, <1>7, <1>8, <1>10 DEF RoomInv
<1> QED BY <1>11, <1>12, <1>13, <1>14 DEF MailboxInv

LEMMA ProceedStep ==
    ASSUME MailboxInv, WriteLands, current.then # "sweep", Proceed, current' # Idle
    PROVE  MailboxInv'
<1>1. /\ disk' = Written /\ memory' = Written /\ UNCHANGED <<now, access, status, worker, holds>>
      /\ \/ current.pc = "evict" /\ current' = [current EXCEPT !.pc = "seal"]
         \/ current.pc = "write" /\ current.then = "open" /\ current' = [current EXCEPT !.pc = "open"]
    BY DEF WriteLands, Proceed
<1>2. current # Idle
    BY <1>1 DEF Idle
<1>3. /\ Written \in StoreType /\ SoundStore(Written) /\ WithinBounds(Written) /\ current \in OperationType
    BY <1>1, WrittenFacts
<1>4. PICK r \in Requests : r = current.request
    BY <1>3 DEF OperationType
<1>5. StoreInv' /\ ServesInv'
    BY <1>1, <1>3 DEF StoreInv, ServesInv
<1>6. CASE current.pc = "evict" /\ current' = [current EXCEPT !.pc = "seal"]
    <2>1. /\ current' \in OperationType /\ current'.pc = "seal" /\ current'.request = r
          /\ current'.next = current.next /\ current'.then = current.then /\ current'.by = current.by
          /\ current'.version = current.version
        BY <1>3, <1>4, <1>6 DEF OperationType
    <2>2. /\ Written[r] = Null /\ memory[r] = Null
          /\ Cardinality(Present(Written)) < MaxRetained /\ Cardinality(Occupied(Written)) < MaxRequests
        BY <1>2, <1>4, <1>6, WrittenFacts DEF MailboxInv, CurrentInv
    <2>3. TypeOK'
        BY <1>1, <1>3, <2>1 DEF MailboxInv, TypeOK
    <2>4. CurrentInv'
        BY <1>1, <1>2, <1>4, <1>6, <2>1, <2>2 DEF MailboxInv, CurrentInv
    <2>5. RoomInv'
        BY <1>1, <2>1, <2>2 DEF RoomInv
    <2> QED BY <1>5, <2>3, <2>4, <2>5 DEF MailboxInv
<1>7. CASE current.pc = "write" /\ current.then = "open" /\ current' = [current EXCEPT !.pc = "open"]
    <2>1. /\ current' \in OperationType /\ current'.pc = "open" /\ current'.request = r
          /\ current'.next = current.next /\ current'.then = "open" /\ current'.version = current.version
        BY <1>3, <1>4, <1>7 DEF OperationType
    <2>2. Written[r] = current.next /\ current.next \in Record /\ current.next # Null
        BY <1>3, <1>4, <1>7, WrittenFacts, NullAssumption DEF OperationType
    <2>3. current.next.state \in Pending /\ "completed" \notin Pending
        BY <1>2, <1>7 DEF MailboxInv, CurrentInv, Pending
    <2>4. TypeOK'
        BY <1>1, <1>3, <2>1 DEF MailboxInv, TypeOK
    <2>5. CurrentInv'
        BY <1>1, <1>2, <1>7, <2>1, <2>2, <2>3 DEF MailboxInv, CurrentInv
    <2>6. RoomInv'
        BY <1>1, <2>1, <2>2 DEF RoomInv
    <2> QED BY <1>5, <2>4, <2>5, <2>6 DEF MailboxInv
<1> QED BY <1>1, <1>6, <1>7

LEMMA WriteLandsStep ==
    ASSUME MailboxInv, WriteLands
    PROVE  MailboxInv'
<1>1. /\ disk' = Written /\ memory' = Written /\ UNCHANGED <<now, access>>
      /\ current.pc \in {"evict", "write"}
    BY DEF WriteLands
<1>2. /\ Written \in StoreType /\ SoundStore(Written) /\ WithinBounds(Written) /\ current \in OperationType
    BY <1>1, WrittenFacts
<1>3. StoreInv' /\ ServesInv'
    BY <1>1, <1>2 DEF StoreInv, ServesInv
<1>4. CASE current.then = "sweep" /\ current' # Idle
    BY <1>4, SweepGoesOn
<1>5. CASE current.then # "sweep" /\ current' # Idle
    BY <1>5, ProceedStep DEF WriteLands, Abandon
<1>6. CASE current' = Idle
    <2>1. status' \in {"open", "unavailable", "closing", "down"} /\ UNCHANGED worker
        BY DEF WriteLands, Proceed, Abandon, MailboxInv, TypeOK
    <2>2. holds' \in [Executors -> [Requests -> Nat]]
        <3>1. holds \in [Executors -> [Requests -> Nat]]
            BY DEF MailboxInv, TypeOK
        <3>2. CASE UNCHANGED holds
            BY <3>1, <3>2
        <3>3. CASE /\ current.pc = "write" /\ current.then = "grant"
                   /\ holds' = [holds EXCEPT ![current.by][current.request] = current.next.version]
            <4>1. current # Idle
                BY <3>3 DEF Idle
            <4>2. /\ current.by \in Executors /\ current.request \in Requests /\ current.next.version \in Nat
                BY <1>2, <3>3, <4>1 DEF MailboxInv, CurrentInv, OperationType, Record
            <4> QED BY <3>1, <3>3, <4>2
        <3> QED BY <3>2, <3>3 DEF WriteLands, Proceed, Abandon
    <2>3. TypeOK'
        BY <1>1, <1>2, <1>6, <2>1, <2>2 DEF MailboxInv, TypeOK
    <2> QED BY <1>3, <1>6, <2>3, EndsIdle
<1> QED BY <1>4, <1>5, <1>6

---------------------------------------------------------------------------
(* The world *)

LEMMA AccessMovesStep ==
    ASSUME MailboxInv, AccessMoves
    PROVE  MailboxInv'
<1>1. PICK allowed \in BOOLEAN : access' = [version |-> access.version + 1, allowed |-> allowed]
    BY DEF AccessMoves
<1>2. UNCHANGED <<disk, memory, now, current, status, worker, holds>>
    BY DEF AccessMoves
<1>3. access.version \in Nat /\ access' \in [version : Nat, allowed : BOOLEAN]
      /\ access'.version = access.version + 1
    BY <1>1 DEF MailboxInv, TypeOK
<1>4. TypeOK'
    BY <1>2, <1>3 DEF MailboxInv, TypeOK
<1>5. ASSUME current # Idle
      PROVE  current.version <= access'.version /\ current.version # access'.version
    <2>1. current.version \in Nat /\ current.version <= access.version
        BY <1>5 DEF MailboxInv, TypeOK, CurrentInv, OperationType
    <2> QED BY <1>3, <2>1
<1>6. CurrentInv'
    BY <1>2, <1>5 DEF MailboxInv, CurrentInv
<1> QED BY <1>2, <1>4, <1>6 DEF MailboxInv, StoreInv, RoomInv, ServesInv

LEMMA CrashStep ==
    ASSUME MailboxInv, Crash
    PROVE  MailboxInv'
<1>1. /\ disk' = disk \/ (disk' = Written /\ current.pc \in {"evict", "write"})
      /\ memory' = disk' /\ current' = Idle /\ status' = "down" /\ worker' = "stopped"
      /\ UNCHANGED <<now, access, holds>>
    BY DEF Crash
<1>2. disk' \in StoreType /\ SoundStore(disk') /\ WithinBounds(disk')
    BY <1>1, WrittenFacts DEF MailboxInv, StoreInv, TypeOK
<1>3. TypeOK'
    BY <1>1, <1>2 DEF MailboxInv, TypeOK
<1>4. StoreInv' /\ ServesInv'
    BY <1>1, <1>2 DEF StoreInv, ServesInv
<1> QED BY <1>1, <1>3, <1>4, EndsIdle

LEMMA ReleasedStep ==
    ASSUME MailboxInv, Released
    PROVE  MailboxInv'
<1>1. /\ disk' = disk /\ memory' = disk /\ current' = Idle /\ status' = "down" /\ worker' = "stopped"
      /\ UNCHANGED <<now, access, holds>>
    BY DEF Released
<1>2. TypeOK'
    BY <1>1 DEF MailboxInv, TypeOK
<1>3. StoreInv' /\ ServesInv'
    BY <1>1 DEF MailboxInv, StoreInv, ServesInv
<1> QED BY <1>1, <1>2, <1>3, EndsIdle

LEMMA QuietStep ==
    ASSUME MailboxInv, RoundRefused \/ Tick \/ Close \/ Reopen \/ UNCHANGED vars
    PROVE  MailboxInv'
<1>1. UNCHANGED <<disk, memory, access, current, holds>>
    BY DEF RoundRefused, Tick, Close, Reopen, vars
<1>2. /\ now' \in Nat /\ worker' \in {"running", "stopped"}
      /\ status' \in {"open", "unavailable", "closing", "down"}
      /\ status' = "open" => status \in {"open", "down"}
      /\ status' = "down" <=> status = "down" /\ ~Reopen
    BY DEF RoundRefused, Tick, Close, Reopen, vars, MailboxInv, TypeOK
<1>3. TypeOK'
    BY <1>1, <1>2 DEF MailboxInv, TypeOK
<1>4. ServesInv'
    BY <1>1, <1>2 DEF MailboxInv, ServesInv
<1>5. CurrentInv'
    BY <1>1, <1>2 DEF MailboxInv, CurrentInv
<1> QED BY <1>1, <1>3, <1>4, <1>5 DEF MailboxInv, StoreInv, RoomInv

LEMMA StepMailbox == MailboxInv /\ [Next]_vars => MailboxInv'
<1> SUFFICES ASSUME MailboxInv, [Next]_vars PROVE MailboxInv'
    OBVIOUS
<1>1. CASE Operation
    <2>1. CASE \E r \in Requests, t \in Texts : Enqueue(r, t) \/ EnqueueAgain(r, t)
        <3>1. Null \in Executors \cup {Null}
            OBVIOUS
        <3> QED BY <2>1, <3>1, EnqueueStep, ReadSteps
    <2>2. CASE \E r \in Requests, x \in Executors \cup {Null} : Dispatch(x, r)
        BY <2>2, ReadSteps
    <2>3. CASE \E r \in Requests, x \in Executors :
                   StartExecution(x, r) \/ RenewExecution(x, r) \/ Complete(x, r)
        BY <2>3, ExecutionSteps, CompleteStep
    <2>4. CASE \E r \in Requests, target \in {"running", "failed", "cancelled"} : Move(r, target)
        BY <2>4, MoveStep
    <2>5. CASE \E r \in Requests : Status(r) \/ ReadReply(r)
        <3>1. Null \in Executors \cup {Null}
            OBVIOUS
        <3> QED BY <2>5, <3>1, ReadSteps
    <2> QED BY <1>1, <2>1, <2>2, <2>3, <2>4, <2>5 DEF Operation
<1>2. CASE Settle
    BY <1>2, SealedStep, WriteLandsStep, WriteFailsStep, OpenedStep DEF Settle
<1> QED BY <1>1, <1>2, SweepStep, AccessMovesStep, ReleasedStep, CrashStep, QuietStep DEF Next

(* Only a write that lands, fails or is cut off changes what is durable, and *)
(* it changes one request as the operation at hand prescribes.               *)
LEMMA DiskChanges ==
    ASSUME MailboxInv, [Next]_vars, disk' # disk
    PROVE  current.pc \in {"evict", "write"} /\ disk' = Written
<1>1. WriteLands \/ WriteFails \/ Crash
    <2>1. Operation => disk' = disk
        <3>1. ASSUME NEW r \in Requests, NEW t \in Texts, Enqueue(r, t) \/ EnqueueAgain(r, t)
              PROVE  disk' = disk
            BY <3>1 DEF Enqueue, EnqueueAgain, Stop, Observe, Issue, Still
        <3>2. ASSUME NEW r \in Requests, NEW x \in Executors \cup {Null}, Dispatch(x, r)
              PROVE  disk' = disk
            BY <3>2 DEF Dispatch, Stop, Observe, Issue, Still
        <3>3. ASSUME NEW r \in Requests, NEW x \in Executors,
                     StartExecution(x, r) \/ RenewExecution(x, r) \/ Complete(x, r)
              PROVE  disk' = disk
            BY <3>3 DEF StartExecution, RenewExecution, Complete, Stop, Observe, Issue, Still
        <3>4. ASSUME NEW r \in Requests, NEW target \in {"running", "failed", "cancelled"}, Move(r, target)
              PROVE  disk' = disk
            BY <3>4 DEF Move, Stop, Observe, Issue, Still
        <3>5. ASSUME NEW r \in Requests, Status(r) \/ ReadReply(r)
              PROVE  disk' = disk
            BY <3>5 DEF Status, ReadReply, Stop, Observe, Issue, Still
        <3> QED BY <3>1, <3>2, <3>3, <3>4, <3>5 DEF Operation
    <2>2. Sweep \/ RoundRefused \/ Sealed \/ Opened \/ Tick \/ AccessMoves \/ Close \/ Released \/ Reopen
              => disk' = disk
        BY DEF Sweep, Issue, Still, RoundRefused, Sealed, Opened, Tick, AccessMoves, Close, Released, Reopen
    <2> QED BY <2>1, <2>2 DEF Next, Settle, vars
<1> QED BY <1>1 DEF WriteLands, WriteFails, Crash

LEMMA DiskChangesLegally ==
    ASSUME MailboxInv, [Next]_vars, disk' # disk
    PROVE  \E r \in Requests :
             /\ Legal(disk[r], disk'[r]) /\ disk' = [disk EXCEPT ![r] = disk'[r]]
             /\ disk[r] # Null => Sound(disk[r])
             /\ disk[r] # Null /\ disk'[r].reply # Null =>
                   /\ holds[disk'[r].reply][r] = disk[r].version
                   /\ disk'[r].updatedAt - disk[r].updatedAt < ExecutionLease
<1>1. current.pc \in {"evict", "write"} /\ disk' = Written
    BY DiskChanges
<1>2. current # Idle /\ current \in OperationType /\ disk = memory /\ disk \in StoreType
    BY <1>1, WrittenFacts DEF Idle, MailboxInv, TypeOK
<1>3. CASE current.pc = "write"
    <2>1. PICK r \in Requests : r = current.request
        BY <1>2 DEF OperationType
    <2>2. disk' = [disk EXCEPT ![r] = current.next]
        BY <1>1, <1>2, <1>3, <2>1 DEF Written
    <2>3. disk'[r] = current.next
        BY <1>2, <2>1, <2>2 DEF StoreType
    <2>4. /\ Legal(disk[r], current.next)
          /\ current.next.reply # Null =>
                /\ holds[current.next.reply][r] = disk[r].version
                /\ current.next.updatedAt - disk[r].updatedAt < ExecutionLease
        BY <1>2, <1>3, <2>1 DEF MailboxInv, CurrentInv
    <2>5. disk[r] # Null => Sound(disk[r])
        BY DEF MailboxInv, StoreInv, SoundStore
    <2> QED BY <2>2, <2>3, <2>4, <2>5
<1>4. CASE current.pc = "evict"
    <2>1. PICK v \in Requests : v = current.victim
        BY <1>2, <1>4 DEF MailboxInv, CurrentInv
    <2> DEFINE new == Stopped(disk[v], "expire", current.at)
    <2>2. Sound(disk[v]) /\ disk[v].reply # Null /\ current.at \in Nat
        BY <1>2, <1>4, <2>1 DEF MailboxInv, CurrentInv, StoreInv, SoundStore, OperationType
    <2>3. Legal(disk[v], new) /\ new.reply = Null
        BY <2>2, StopIsLegal
    <2>4. disk' = [disk EXCEPT ![v] = new]
        BY <1>1, <1>2, <1>4, <2>1 DEF Written
    <2> HIDE DEF new
    <2>5. disk'[v] = new
        BY <1>2, <2>4 DEF StoreType
    <2> QED BY <2>2, <2>3, <2>4, <2>5
<1> QED BY <1>1, <1>3, <1>4

LEMMA StepPromise ==
    ASSUME MailboxInv, [Next]_vars
    PROVE  [Promise!Next]_(Promise!vars)
<1>1. CASE disk' = disk
    BY <1>1 DEF Promise!vars
<1>2. CASE disk' # disk
    <2>1. PICK r \in Requests :
            /\ Legal(disk[r], disk'[r]) /\ disk' = [disk EXCEPT ![r] = disk'[r]]
            /\ disk[r] # Null => Sound(disk[r])
        BY <1>2, DiskChangesLegally
    <2>2. PICK old, new : old = disk[r] /\ new = disk'[r]
        OBVIOUS
    <2>3. disk \in StoreType /\ Sound(new) /\ new # Null /\ \A q \in Requests \ {r} : disk'[q] = disk[q]
        BY <2>1, <2>2, NullAssumption DEF MailboxInv, TypeOK, StoreType, Legal, Sound
    <2> DEFINE question(rec) == IF rec = Null THEN Null ELSE rec.text
               reply(rec) == IF rec = Null THEN Null ELSE rec.answered
               ended(rec) == rec # Null /\ rec.state \in Terminal
    <2>4. CASE Asks(old, new)
        <3>1. /\ old = Null /\ new.answered = Null /\ new.state \notin Terminal /\ new.question # Null
              /\ new.text \in Texts
            BY <2>3, <2>4 DEF Asks, Sound, Record, Pending, Terminal
        <3>2. Promise!Ask(r, new.text)
            BY <2>1, <2>2, <2>3, <3>1 DEF Promise!Ask, HasBody
        <3> QED BY <3>1, <3>2 DEF Promise!Next
    <2>5. CASE Revises(old, new)
        <3>1. old # Null /\ Sound(old) /\ new.text = old.text /\ old.text # Null
            BY <2>1, <2>2, <2>5, NullAssumption DEF Revises, Sound, Record
        <3>2. CASE Works(old, new)
            <4>1. /\ old.answered = Null /\ new.answered = Null /\ old.state \notin Terminal
                  /\ new.state \notin Terminal /\ old.question # Null /\ new.question # Null
                BY <2>3, <3>1, <3>2 DEF Works, Sound, Pending, Terminal
            <4> QED BY <2>2, <2>3, <3>1, <4>1 DEF Promise!vars, HasBody
        <3>3. CASE Answers(old, new)
            <4>1. /\ old.answered = Null /\ new.answered \in Executors /\ old.state \notin Terminal
                  /\ new.state \in Terminal /\ old.question # Null /\ new.reply # Null
                BY <2>3, <3>1, <3>3 DEF Answers, Sound, Record, Pending, Terminal
            <4>2. Promise!Answer(r, new.answered)
                BY <2>2, <2>3, <3>1, <4>1 DEF Promise!Answer, HasBody
            <4> QED BY <4>1, <4>2 DEF Promise!Next
        <3>4. CASE Stops(old, new)
            <4>1. /\ old.answered = Null /\ new.answered = Null /\ old.state \notin Terminal
                  /\ new.state \in Terminal /\ new.question = Null /\ new.reply = Null
                BY <2>3, <3>1, <3>4 DEF Stops, Sound, Pending, Terminal
            <4>2. Promise!Stop(r)
                BY <2>2, <2>3, <3>1, <4>1 DEF Promise!Stop, HasBody
            <4> QED BY <4>2 DEF Promise!Next
        <3>5. CASE Drops(old, new)
            <4>1. /\ new.answered = old.answered /\ old.state \in Terminal /\ new.state \in Terminal
                  /\ old.reply # Null /\ new.question = Null /\ new.reply = Null
                BY <2>3, <3>5 DEF Drops, Sound, Pending, Terminal
            <4>2. Promise!Drop(r)
                BY <2>2, <2>3, <3>1, <4>1 DEF Promise!Drop, HasBody
            <4> QED BY <4>2 DEF Promise!Next
        <3> QED BY <2>5, <3>2, <3>3, <3>4, <3>5 DEF Revises
    <2> QED BY <2>1, <2>2, <2>4, <2>5 DEF Legal
<1> QED BY <1>1, <1>2

---------------------------------------------------------------------------
(* The table stays sound and within its bounds, and a running operation can  *)
(* rely on what it found: the owner runs one operation at a time, and stops  *)
(* serving after a write it cannot account for.                              *)
THEOREM MailboxInvariant == Spec => []MailboxInv
<1>1. Init => MailboxInv
    BY InitMailbox
<1>2. MailboxInv /\ [Next]_vars => MailboxInv'
    BY StepMailbox
<1> QED BY <1>1, <1>2, PTL DEF Spec

(* openOwner() never refuses what this code wrote, whatever write was cut    *)
(* off or reported as failed.                                                *)
THEOREM MailboxAlwaysOpens == Spec => []MailboxReopens
<1>1. MailboxInv => MailboxReopens
    <2> SUFFICES ASSUME MailboxInv PROVE Opens(disk)
        BY DEF MailboxReopens
    <2>1. ASSUME NEW r \in Present(disk) PROVE Parses(disk[r])
        <3>1. Sound(disk[r]) /\ "completed" \notin Pending
            BY DEF MailboxInv, StoreInv, SoundStore, Present, Pending
        <3> QED BY <3>1 DEF Parses, Sound, Record
    <2> QED BY <2>1 DEF Opens, MailboxInv, StoreInv, WithinBounds
<1> QED BY <1>1, MailboxInvariant, PTL

(* What an owner that still serves answers from is durable.                  *)
THEOREM AnswersAreDurable == Spec => []ServesDurableRecords
<1>1. MailboxInv => ServesDurableRecords
    BY DEF MailboxInv, ServesInv, ServesDurableRecords
<1> QED BY <1>1, MailboxInvariant, PTL

(* A reply is taken only from the executor that holds the newest grant, in   *)
(* time: transition() compares the version its caller was granted and the    *)
(* lease, and nothing else runs until the reply is written.                  *)
THEOREM HoldersReply == Spec => RepliesComeFromTheHolder
<1>1. MailboxInv /\ [Next]_vars =>
        [\A r \in Requests :
            disk'[r] # disk[r] /\ disk'[r] # Null /\ disk[r] # Null /\ disk[r].reply = Null
              /\ disk'[r].reply # Null =>
                /\ holds[disk'[r].reply][r] = disk[r].version
                /\ disk'[r].updatedAt - disk[r].updatedAt < ExecutionLease]_vars
    <2> SUFFICES ASSUME MailboxInv, [Next]_vars, NEW r \in Requests, disk'[r] # disk[r],
                        disk[r] # Null, disk'[r].reply # Null
                 PROVE  /\ holds[disk'[r].reply][r] = disk[r].version
                        /\ disk'[r].updatedAt - disk[r].updatedAt < ExecutionLease
        OBVIOUS
    <2>1. PICK q \in Requests :
            /\ disk' = [disk EXCEPT ![q] = disk'[q]]
            /\ disk[q] # Null /\ disk'[q].reply # Null =>
                  /\ holds[disk'[q].reply][q] = disk[q].version
                  /\ disk'[q].updatedAt - disk[q].updatedAt < ExecutionLease
        BY DiskChangesLegally
    <2>2. q = r
        BY <2>1 DEF MailboxInv, TypeOK, StoreType
    <2> QED BY <2>1, <2>2
<1> QED BY <1>1, MailboxInvariant, PTL DEF Spec, RepliesComeFromTheHolder

(* A body leaves under the access it was authorized with: the fence after    *)
(* the codec compares the version the operation started from.                *)
THEOREM BodiesAreAuthorized == Spec => BodiesLeaveUnderAuthority
<1>1. MailboxInv /\ [Next]_vars =>
        [answer' # answer /\ answer'.kind = "body" =>
            LET r == answer'.request IN
            /\ access.allowed /\ access.version = current.version
            /\ disk[r] # Null /\ disk[r].version = answer'.version
            /\ answer'.body \in {disk[r].question, disk[r].reply} \ {Null}]_vars
    <2> SUFFICES ASSUME MailboxInv, [Next]_vars, answer' # answer, answer'.kind = "body"
                 PROVE  LET r == answer'.request IN
                        /\ access.allowed /\ access.version = current.version
                        /\ disk[r] # Null /\ disk[r].version = answer'.version
                        /\ answer'.body \in {disk[r].question, disk[r].reply} \ {Null}
        OBVIOUS
    <2>1. /\ current.pc = "open" /\ Fence
          /\ answer' = [kind |-> "body", request |-> current.request, version |-> current.next.version,
                        body |-> IF current.next.state = "completed" THEN current.next.reply
                                 ELSE current.next.question]
        <3>1. Operation => answer' = answer \/ answer'.kind = "receipt"
            <4>1. Issue => answer' = answer
                BY DEF Issue
            <4>2. ASSUME NEW r, Observe(r) PROVE answer'.kind = "receipt"
                BY <4>2 DEF Observe, Tell
            <4>3. Operation => Issue \/ \E r \in Requests : Observe(r)
                BY DEF Operation, Enqueue, EnqueueAgain, Dispatch, StartExecution, RenewExecution, Complete,
                       Move, Status, ReadReply, Stop
            <4> QED BY <4>1, <4>2, <4>3
        <3>2. Sweep \/ RoundRefused \/ Tick \/ AccessMoves \/ Close \/ Reopen => answer' = answer
            BY DEF Sweep, Issue, RoundRefused, Tick, AccessMoves, Close, Reopen
        <3>3. Sealed \/ WriteLands \/ WriteFails \/ Released \/ Crash
                 => answer' = answer \/ answer'.kind \in {"nothing", "receipt"}
            BY DEF Sealed, WriteLands, WriteFails, Released, Crash, Proceed, Abandon, Tell, Nothing
        <3>4. Opened
            BY <3>1, <3>2, <3>3 DEF Next, Settle, vars
        <3> QED BY <3>4 DEF Opened, Abandon, Nothing
    <2>2. current # Idle /\ current \in OperationType
        BY <2>1 DEF Idle, MailboxInv, TypeOK
    <2>3. PICK r \in Requests : r = current.request
        BY <2>2 DEF OperationType
    <2>4. /\ disk[r] = current.next /\ disk = memory /\ access.allowed /\ access.version = current.version
          /\ current.next.state = "completed" => current.next.reply # Null
          /\ current.next.state \in Pending \cup {"completed"}
        BY <2>1, <2>2, <2>3 DEF MailboxInv, CurrentInv, Fence
    <2>5. current.next # Null /\ Sound(current.next)
        <3>1. current.next \in Record
            BY <2>2 DEF OperationType
        <3> QED BY <2>3, <2>4, <3>1, NullAssumption DEF MailboxInv, StoreInv, SoundStore
    <2>6. current.next.state # "completed" => current.next.question # Null
        BY <2>4, <2>5 DEF Sound
    <2>7. answer'.request = r /\ answer'.version = disk[r].version
          /\ answer'.body = IF disk[r].state = "completed" THEN disk[r].reply ELSE disk[r].question
        BY <2>1, <2>3, <2>4
    <2> QED BY <2>4, <2>5, <2>6, <2>7
<1> QED BY <1>1, MailboxInvariant, PTL DEF Spec, BodiesLeaveUnderAuthority

(* An identity stands for one question for ever, is answered at most once    *)
(* and never after a stop, and nothing that was dropped comes back.          *)
THEOREM MailboxKeepsPromise == Spec => ImplementsQuestionPromise
<1>1. Init => Promise!Init
    BY DEF Init, Promise!Init, HasBody
<1>2. MailboxInv /\ [Next]_vars => [Promise!Next]_(Promise!vars)
    BY StepPromise
<1> QED BY <1>1, <1>2, MailboxInvariant, PTL DEF Spec, ImplementsQuestionPromise, Promise!Spec

---------------------------------------------------------------------------
(* What a full mailbox gives up *)

WithinAccess(store) == \A r \in Requests : store[r] # Null => store[r].authorization <= access.version

(* What entitles the operation at hand to drop a kept reply of its request:  *)
(* it has expired, or the access it ran under did not allow it.              *)
Forfeited(r) == now >= ExpiresAt[r] \/ (current.version = access.version => ~access.allowed)

Oldest(v) ==
    \A other \in Requests :
        memory[other] # Null /\ memory[other].reply # Null =>
            memory[v].updatedAt <= memory[other].updatedAt

(* An eviction was decided in a full table, on the oldest reply it keeps.    *)
DropInv ==
    /\ WithinAccess(disk) /\ WithinAccess(memory)
    /\ current # Idle =>
          LET r == current.request IN
          /\ current.at <= now /\ current.next.authorization <= access.version
          /\ current.pc = "evict" =>
                Cardinality(Occupied(memory)) >= MaxRequests /\ Oldest(current.victim)
          /\ current.pc \in {"seal", "write"} /\ memory[r] # Null /\ memory[r].reply # Null => Forfeited(r)

LEMMA StoppedAuthorization ==
    ASSUME NEW record \in Record, NEW reason, NEW at
    PROVE  Stopped(record, reason, at).authorization = record.authorization
BY DEF Stopped, Record

LEMMA ChangedAuthorization ==
    ASSUME NEW record \in Record, NEW state, NEW authorization, NEW at
    PROVE  Changed(record, state, authorization, at).authorization = authorization
BY DEF Changed, Record

(* A new operation that writes a reply away only where it is entitled to.    *)
LEMMA DropStarts ==
    ASSUME MailboxInv, DropInv, Still, current' # Idle, NEW r \in Requests, current'.request = r,
           current'.at = now, current'.version = access.version, current'.pc # "evict",
           current'.next.authorization <= access.version,
           \/ current'.pc = "open" \/ memory[r] = Null \/ memory[r].reply = Null
           \/ now >= ExpiresAt[r] \/ ~access.allowed
    PROVE  DropInv'
<1>1. UNCHANGED <<disk, memory, now, access>> /\ now \in Nat
    BY DEF Still, MailboxInv, TypeOK
<1>2. WithinAccess(disk)' /\ WithinAccess(memory)'
    BY <1>1 DEF DropInv, WithinAccess
<1>3. now <= now
    BY <1>1
<1> QED BY <1>1, <1>2, <1>3 DEF DropInv, Forfeited

LEMMA DropIdle ==
    ASSUME WithinAccess(disk)', WithinAccess(memory)', current' = Idle
    PROVE  DropInv'
BY DEF DropInv

LEMMA DropQuiet ==
    ASSUME DropInv, UNCHANGED <<disk, memory, now, access, current>>
    PROVE  DropInv'
BY DEF DropInv, WithinAccess, Forfeited, Oldest

LEMMA RunStarts ==
    ASSUME NEW x, NEW pc \in {"seal", "write", "open"}, NEW r, NEW next, NEW then, RunBy(x, pc, r, next, then)
    PROVE  /\ current' # Idle /\ current'.request = r /\ current'.next = next /\ current'.pc = pc
           /\ current'.at = now /\ current'.version = access.version
BY DEF RunBy, Idle

LEMMA EnqueueDrops ==
    ASSUME MailboxInv, DropInv, NEW r \in Requests, NEW t \in Texts, Enqueue(r, t)
    PROVE  DropInv'
<1> DEFINE q == Question(r, t)
<1>1. Still /\ memory[r] = Null
    BY DEF Enqueue, Fresh, Issue
<1>2. now \in Nat /\ access.version \in Nat
    BY DEF MailboxInv, TypeOK
<1>3. q.authorization = access.version /\ access.version <= access.version
    BY <1>2 DEF Question
<1> HIDE DEF q
<1>4. CASE Run("seal", r, q, "receipt")
    <2>1. RunBy(Null, "seal", r, q, "receipt")
        BY <1>4, RunIsRunBy
    <2>2. /\ current' # Idle /\ current'.request = r /\ current'.next = q /\ current'.pc = "seal"
          /\ current'.at = now /\ current'.version = access.version
        BY <2>1, RunStarts
    <2> QED BY <1>1, <1>3, <2>2, DropStarts
<1>5. ASSUME NEW v \in Evictable, ~HasRoom, \A other \in Evictable : Older(v, other),
             current' = [pc |-> "evict", request |-> r, next |-> q, then |-> "receipt",
                         by |-> Null, at |-> now, version |-> access.version, victim |-> v, left |-> 0]
      PROVE  DropInv'
    <2>1. UNCHANGED <<disk, memory, now, access>>
        BY <1>1 DEF Still
    <2>2. Cardinality(Occupied(memory)) >= MaxRequests
        <3>1. Occupied(memory) \in SUBSET Requests
            BY DEF Occupied, Present
        <3> QED BY <1>5, <3>1, RequestsFinite, MailboxAssumption DEF HasRoom
    <2>3. Oldest(v)
        <3> SUFFICES ASSUME NEW other \in Requests, memory[other] # Null, memory[other].reply # Null
                     PROVE  memory[v].updatedAt <= memory[other].updatedAt
            BY DEF Oldest
        <3>1. memory[other].state = "completed" /\ memory[other].updatedAt \in Nat
            BY FoundRecord DEF Sound
        <3>2. other \in Evictable
            BY <3>1 DEF Evictable, Occupied, Present, Tombstone
        <3>3. v \in Requests /\ memory[v] # Null
            BY DEF Evictable, Occupied, Present
        <3>4. memory[v].updatedAt \in Nat
            BY <3>3, FoundRecord
        <3> QED BY <1>5, <3>1, <3>2, <3>4 DEF Older
    <2>4. /\ current' # Idle /\ current'.pc = "evict" /\ current'.victim = v /\ current'.at = now
          /\ current'.next = q
        BY <1>5 DEF Idle
    <2>5. WithinAccess(disk)' /\ WithinAccess(memory)'
        BY <2>1 DEF DropInv, WithinAccess
    <2>6. now <= now
        BY <1>2
    <2> QED BY <1>3, <2>1, <2>2, <2>3, <2>4, <2>5, <2>6 DEF DropInv, Oldest
<1> QED BY <1>4, <1>5 DEF Enqueue, q

LEMMA StopDrops ==
    ASSUME MailboxInv, DropInv, NEW r \in Requests, NEW then, Stop(r, then)
    PROVE  DropInv'
<1> DEFINE new == Stopped(memory[r], Decision(r, memory[r].authorization), now)
<1>1. /\ Still /\ memory[r] # Null /\ ~Allowed(r) /\ Run("write", r, new, then)
    BY DEF Stop, Issue
<1>2. memory[r] \in Record /\ now \in Nat /\ access.version \in Nat /\ memory[r].authorization \in Nat
    BY <1>1, FoundRecord DEF Record
<1>3. new.authorization = memory[r].authorization
    BY <1>2, StoppedAuthorization
<1> HIDE DEF new
<1>4. memory[r].authorization <= access.version
    BY <1>1 DEF DropInv, WithinAccess
<1>5. now >= ExpiresAt[r] \/ ~access.allowed
    <2>1. ~(memory[r].authorization > access.version)
        BY <1>2, <1>4
    <2> QED BY <1>1, <2>1 DEF Allowed, Decision
<1>6. /\ current' # Idle /\ current'.request = r /\ current'.next = new /\ current'.pc = "write"
      /\ current'.at = now /\ current'.version = access.version
    BY <1>1, RunIsRunBy, RunStarts
<1> QED BY <1>1, <1>3, <1>4, <1>5, <1>6, DropStarts

(* Pending work holds no reply.                                              *)
LEMMA WorkDrops ==
    ASSUME MailboxInv, DropInv, Still, NEW r \in Requests, memory[r] # Null, memory[r].state \in Pending,
           NEW x, NEW pc \in {"seal", "write"}, NEW next, NEW then, next.authorization = access.version,
           RunBy(x, pc, r, next, then)
    PROVE  DropInv'
<1>1. memory[r].reply = Null
    BY FoundRecord DEF Sound, Pending
<1>2. access.version <= access.version
    BY DEF MailboxInv, TypeOK
<1>3. /\ current' # Idle /\ current'.request = r /\ current'.next = next /\ current'.pc = pc
      /\ current'.at = now /\ current'.version = access.version
    BY RunStarts
<1> QED BY <1>1, <1>2, <1>3, DropStarts

LEMMA OpenDrops ==
    ASSUME MailboxInv, DropInv, Still, NEW r \in Requests, memory[r] # Null, NEW x,
           RunBy(x, "open", r, memory[r], "open")
    PROVE  DropInv'
<1>1. memory[r].authorization <= access.version
    BY DEF DropInv, WithinAccess
<1>2. /\ current' # Idle /\ current'.request = r /\ current'.next = memory[r] /\ current'.pc = "open"
      /\ current'.at = now /\ current'.version = access.version
    BY RunStarts
<1> QED BY <1>1, <1>2, DropStarts

LEMMA OperationDrops ==
    ASSUME MailboxInv, DropInv, NEW r \in Requests,
           \/ \E t \in Texts : Enqueue(r, t) \/ EnqueueAgain(r, t)
           \/ \E x \in Executors \cup {Null} : Dispatch(x, r)
           \/ \E x \in Executors : StartExecution(x, r) \/ RenewExecution(x, r) \/ Complete(x, r)
           \/ \E target \in {"running", "failed", "cancelled"} : Move(r, target)
           \/ Status(r) \/ ReadReply(r)
    PROVE  DropInv'
<1>1. Observe(r) => DropInv'
    BY DropQuiet DEF Observe, Still
<1>2. ASSUME NEW x, NEW state, NEW then, Still, Allowed(r), memory[r].state \in Pending,
             RunBy(x, "write", r, Changed(memory[r], state, access.version, now), then)
      PROVE  DropInv'
    <2>1. memory[r] # Null /\ memory[r] \in Record
        BY <1>2, AllowedAccess, FoundRecord
    <2>2. Changed(memory[r], state, access.version, now).authorization = access.version
        BY <2>1, ChangedAuthorization
    <2> QED BY <1>2, <2>1, <2>2, WorkDrops
<1>3. ASSUME NEW x \in Executors \cup {Null}, Dispatch(x, r) PROVE DropInv'
    <2>1. CASE /\ Allowed(r) /\ memory[r].state = "queued" /\ Issue
               /\ RunBy(x, "write", r,
                        Changed(memory[r], IF x = Null THEN "queued" ELSE "delivered", access.version, now),
                        IF x = Null THEN "receipt" ELSE "open")
        BY <1>2, <2>1 DEF Issue, Pending
    <2>2. CASE Issue /\ RunBy(x, "open", r, memory[r], "open")
        BY <1>3, <2>2, OpenDrops DEF Issue, Dispatch
    <2> QED BY <1>1, <1>3, <2>1, <2>2, StopDrops DEF Dispatch
<1>4. ASSUME NEW x \in Executors, StartExecution(x, r) \/ RenewExecution(x, r) PROVE DropInv'
    <2>1. /\ Still /\ Allowed(r)
          /\ RunBy(x, "write", r, Changed(memory[r], "running", access.version, now), "grant")
        BY <1>4 DEF StartExecution, RenewExecution, Issue
    <2>2. memory[r].state \in Pending
        BY <1>4 DEF StartExecution, RenewExecution, Acquirable, LeaseExpired, InTime, Pending
    <2> QED BY <1>2, <2>1, <2>2
<1>5. ASSUME NEW x \in Executors, Complete(x, r) PROVE DropInv'
    <2> DEFINE old == Changed(memory[r], "completed", access.version, now)
               new == [old EXCEPT !.answered = x, !.reply = x]
    <2>1. /\ Still /\ Allowed(r) /\ memory[r].state \in Pending /\ RunBy(x, "seal", r, new, "receipt")
        BY <1>5 DEF Complete, InTime, Issue, Pending
    <2>2. memory[r] # Null /\ memory[r] \in Record
        BY <2>1, AllowedAccess, FoundRecord
    <2>3. new.authorization = access.version
        BY <2>2 DEF Changed, Record
    <2> HIDE DEF new
    <2> QED BY <2>1, <2>2, <2>3, WorkDrops
<1>6. ASSUME NEW target \in {"running", "failed", "cancelled"}, Move(r, target) PROVE DropInv'
    <2>1. /\ Still /\ Allowed(r) /\ memory[r].state # target /\ RequestMayBecome(memory[r].state, target)
          /\ RunBy(Null, "write", r, Changed(memory[r], target, access.version, now), "receipt")
        BY <1>6, RunIsRunBy DEF Move, Issue
    <2>2. memory[r].state \in Pending
        BY <2>1, AllowedAccess, FoundRecord, Transitions
    <2> QED BY <1>2, <2>1, <2>2
<1>7. CASE Status(r) \/ ReadReply(r)
    <2>1. CASE memory[r] # Null /\ Run("open", r, memory[r], "open") /\ Issue
        BY <2>1, RunIsRunBy, OpenDrops DEF Issue
    <2> QED BY <1>1, <1>7, <2>1, StopDrops DEF Status, ReadReply
<1> QED BY <1>1, <1>3, <1>4, <1>5, <1>6, <1>7, EnqueueDrops DEF EnqueueAgain

LEMMA SweepDrops ==
    ASSUME MailboxInv, DropInv, Sweep
    PROVE  DropInv'
<1>1. PICK r \in Requests :
        /\ NeedsExpiry(r, now)
        /\ current' = [pc |-> "write", request |-> r, next |-> Stopped(memory[r], "expire", now),
                       then |-> "sweep", by |-> Null, at |-> now, version |-> access.version,
                       victim |-> Null, left |-> MaxItems - 1]
    BY DEF Sweep
<1>2. PICK new : new = Stopped(memory[r], "expire", now)
    OBVIOUS
<1>3. memory[r] # Null /\ now >= ExpiresAt[r] /\ Still
    BY <1>1 DEF NeedsExpiry, Sweep, Issue
<1>4. new.authorization <= access.version
    <2>1. memory[r] \in Record
        BY <1>3, FoundRecord
    <2> QED BY <1>2, <1>3, <2>1, StoppedAuthorization DEF DropInv, WithinAccess
<1>5. /\ current' # Idle /\ current'.request = r /\ current'.next = new /\ current'.pc = "write"
      /\ current'.at = now /\ current'.version = access.version
    BY <1>1, <1>2 DEF Idle
<1> QED BY <1>3, <1>4, <1>5, DropStarts

LEMMA WrittenAuthorized ==
    ASSUME MailboxInv, DropInv, current.pc \in {"evict", "write"}
    PROVE  WithinAccess(Written)
<1>1. current # Idle /\ current \in OperationType /\ disk = memory /\ memory \in StoreType
    BY WrittenFacts DEF Idle, MailboxInv, TypeOK
<1>2. CASE current.pc = "write"
    BY <1>1, <1>2, WrittenFacts DEF DropInv, WithinAccess
<1>3. CASE current.pc = "evict"
    <2>1. PICK v \in Requests : v = current.victim
        BY <1>1, <1>3 DEF MailboxInv, CurrentInv
    <2>2. memory[v] # Null
        BY <1>1, <1>3, <2>1 DEF MailboxInv, CurrentInv
    <2>3. PICK new : new = Stopped(memory[v], "expire", current.at)
        OBVIOUS
    <2>4. new.authorization <= access.version
        <3>1. memory[v] \in Record
            BY <2>2, FoundRecord
        <3> QED BY <2>2, <2>3, <3>1, StoppedAuthorization DEF DropInv, WithinAccess
    <2>5. Written = [memory EXCEPT ![v] = new]
        BY <1>3, <2>1, <2>3 DEF Written
    <2> QED BY <1>1, <2>4, <2>5 DEF StoreType, DropInv, WithinAccess
<1> QED BY <1>2, <1>3

LEMMA WriteDrops ==
    ASSUME MailboxInv, DropInv, WriteLands
    PROVE  DropInv'
<1>1. disk' = Written /\ memory' = Written /\ UNCHANGED <<now, access>> /\ current.pc \in {"evict", "write"}
    BY DEF WriteLands
<1>2. current # Idle /\ current \in OperationType
    BY <1>1, WrittenFacts DEF Idle
<1>3. WithinAccess(disk)' /\ WithinAccess(memory)'
    BY <1>1, WrittenAuthorized DEF WithinAccess
<1>4. current.at <= now /\ current.next.authorization <= access.version
    BY <1>2 DEF DropInv
<1>5. CASE current' = Idle
    BY <1>3, <1>5, DropIdle
<1>6. CASE current.pc = "evict" /\ current' = [current EXCEPT !.pc = "seal"]
    <2>1. /\ current'.pc = "seal" /\ current'.request = current.request /\ current'.at = current.at
          /\ current'.next = current.next
        BY <1>2, <1>6 DEF OperationType
    <2>2. memory'[current.request] = Null
        BY <1>1, <1>6, WrittenFacts
    <2> QED BY <1>1, <1>3, <1>4, <2>1, <2>2 DEF DropInv
<1>7. CASE current.pc = "write" /\ current' = [current EXCEPT !.pc = "open"]
    <2>1. current'.pc = "open" /\ current'.at = current.at /\ current'.next = current.next
        BY <1>2, <1>7 DEF OperationType
    <2> QED BY <1>1, <1>3, <1>4, <2>1 DEF DropInv
<1>8. CASE current' # Idle /\ current.then = "sweep" /\ SweepOn(Written)
    <2>1. PICK r \in Requests :
            /\ NeedsExpiry(r, current.at) /\ r # current.request
            /\ current' = [current EXCEPT !.request = r, !.left = @ - 1,
                                          !.next = Stopped(Written[r], "expire", current.at)]
        BY <1>8 DEF SweepOn
    <2>2. PICK new : new = Stopped(Written[r], "expire", current.at)
        OBVIOUS
    <2>3. current.pc = "write"
        BY <1>1, <1>2, <1>8 DEF MailboxInv, CurrentInv
    <2>4. Written[r] = memory[r] /\ memory[r] # Null
        BY <1>1, <2>1, <2>3, WrittenFacts DEF NeedsExpiry
    <2>5. new.authorization <= access.version
        <3>1. memory[r] \in Record
            BY <2>4, FoundRecord
        <3> QED BY <2>2, <2>4, <3>1, StoppedAuthorization DEF DropInv, WithinAccess
    <2>6. /\ current'.pc = "write" /\ current'.request = r /\ current'.next = new
          /\ current'.at = current.at
        BY <1>2, <2>1, <2>2, <2>3 DEF OperationType
    <2>7. now >= ExpiresAt[r]
        <3>1. current.at \in Nat /\ now \in Nat /\ ExpiresAt[r] \in Nat
            BY <1>2, MailboxAssumption DEF OperationType, MailboxInv, TypeOK
        <3> QED BY <1>4, <2>1, <3>1 DEF NeedsExpiry
    <2> QED BY <1>1, <1>3, <1>4, <2>5, <2>6, <2>7 DEF DropInv, Forfeited
<1> QED BY <1>5, <1>6, <1>7, <1>8 DEF WriteLands, Proceed, Abandon

LEMMA SettleDrops ==
    ASSUME MailboxInv, DropInv, Settle
    PROVE  DropInv'
<1>1. CASE Sealed
    <2>1. UNCHANGED <<disk, memory, now, access>> /\ current.pc = "seal"
        BY <1>1 DEF Sealed
    <2>2. WithinAccess(disk)' /\ WithinAccess(memory)'
        BY <2>1 DEF DropInv, WithinAccess
    <2>3. CASE current' = Idle
        BY <2>2, <2>3, DropIdle
    <2>4. CASE current' = [current EXCEPT !.pc = "write"]
        <3>1. current # Idle /\ current \in OperationType
            BY <2>1 DEF Idle, MailboxInv, TypeOK
        <3>2. /\ current'.pc = "write" /\ current'.request = current.request /\ current'.at = current.at
              /\ current'.next = current.next /\ current'.version = current.version
            BY <2>4, <3>1 DEF OperationType
        <3> QED BY <2>1, <2>2, <3>1, <3>2 DEF DropInv, Forfeited
    <2> QED BY <1>1, <2>3, <2>4 DEF Sealed, Abandon
<1>2. CASE WriteFails
    <2>1. WithinAccess(disk)' /\ WithinAccess(memory)'
        BY <1>2, WrittenAuthorized DEF WriteFails, DropInv, WithinAccess
    <2> QED BY <1>2, <2>1, DropIdle DEF WriteFails
<1>3. CASE Opened
    <2>1. WithinAccess(disk)' /\ WithinAccess(memory)' /\ current' = Idle
        BY <1>3 DEF Opened, Abandon, DropInv, WithinAccess
    <2> QED BY <2>1, DropIdle
<1> QED BY <1>1, <1>2, <1>3, WriteDrops DEF Settle

LEMMA WorldDrops ==
    ASSUME MailboxInv, DropInv, ClockSteps \subseteq Nat, Tick \/ AccessMoves \/ Released \/ Crash
    PROVE  DropInv'
<1>1. now \in Nat /\ access.version \in Nat
    BY DEF MailboxInv, TypeOK
<1>2. CASE Tick
    <2>1. UNCHANGED <<disk, memory, access, current>> /\ \E step \in Nat : now' = now + step
        BY <1>2 DEF Tick
    <2>2. now' \in Nat /\ now <= now'
        BY <1>1, <2>1
    <2>3. current # Idle => current.at \in Nat /\ ExpiresAt[current.request] \in Nat
        BY MailboxAssumption DEF MailboxInv, TypeOK, OperationType
    <2>4. current # Idle => current.at <= now'
        BY <1>1, <2>2, <2>3 DEF DropInv
    <2>5. current # Idle /\ now >= ExpiresAt[current.request] => now' >= ExpiresAt[current.request]
        BY <1>1, <2>2, <2>3
    <2> QED BY <2>1, <2>4, <2>5 DEF DropInv, WithinAccess, Oldest, Forfeited
<1>3. CASE AccessMoves
    <2>1. UNCHANGED <<disk, memory, now, current>> /\ access'.version = access.version + 1
        BY <1>3 DEF AccessMoves
    <2>2. ASSUME NEW store \in StoreType, WithinAccess(store)
          PROVE  \A r \in Requests : store[r] # Null => store[r].authorization <= access'.version
        <3>1. \A r \in Requests : store[r] # Null => store[r].authorization \in Nat
            BY DEF StoreType, Record
        <3> QED BY <1>1, <2>1, <2>2, <3>1 DEF WithinAccess
    <2>3. WithinAccess(disk)' /\ WithinAccess(memory)'
        BY <2>1, <2>2 DEF DropInv, WithinAccess, MailboxInv, TypeOK
    <2>4. ASSUME current # Idle
          PROVE  current.version # access'.version /\ current.next.authorization <= access'.version
        <3>1. current.version \in Nat /\ current.next.authorization \in Nat
            BY <2>4 DEF MailboxInv, TypeOK, OperationType, Record
        <3>2. current.version <= access.version /\ current.next.authorization <= access.version
            BY <2>4 DEF MailboxInv, CurrentInv, DropInv
        <3> QED BY <1>1, <2>1, <3>1, <3>2
    <2> QED BY <2>1, <2>3, <2>4 DEF DropInv, Oldest, Forfeited
<1>4. CASE Released
    BY <1>4, DropIdle DEF Released, DropInv, WithinAccess
<1>5. CASE Crash
    <2>1. WithinAccess(disk)' /\ WithinAccess(memory)' /\ current' = Idle
        BY <1>5, WrittenAuthorized DEF Crash, DropInv, WithinAccess
    <2> QED BY <2>1, DropIdle
<1> QED BY <1>2, <1>3, <1>4, <1>5

LEMMA StepDrops ==
    ASSUME MailboxInv, DropInv, ClockSteps \subseteq Nat, [Next]_vars
    PROVE  DropInv'
<1>1. CASE RoundRefused \/ Close \/ Reopen \/ UNCHANGED vars
    BY <1>1, DropQuiet DEF RoundRefused, Close, Reopen, vars
<1>2. CASE Operation
    BY <1>2, OperationDrops DEF Operation
<1> QED BY <1>1, <1>2, SweepDrops, SettleDrops, WorldDrops DEF Next

(* A kept reply that neither expired nor lost its access is given up only by *)
(* makeRoom() in a full mailbox, and then it is the oldest kept: enqueue has *)
(* the owner to itself from its look at the table to its write.  A clock     *)
(* that is set back can un-expire a reply while its removal is under way, so *)
(* this is about one that is not.                                            *)
THEOREM OldestReplyGoesFirst ==
    ASSUME ClockSteps \subseteq Nat
    PROVE  Spec => OnlyTheOldestReplyIsEvicted
<1>1. Init => DropInv
    BY DEF Init, DropInv, WithinAccess
<1>2. MailboxInv /\ DropInv /\ [Next]_vars => DropInv'
    BY StepDrops
<1>3. MailboxInv /\ DropInv /\ [Next]_vars =>
        [\A r \in Present(disk) :
            disk[r].reply # Null /\ disk'[r].reply = Null
              /\ now < ExpiresAt[r] /\ access.allowed /\ access.version = current.version =>
                /\ Cardinality(Occupied(disk)) >= MaxRequests
                /\ \A other \in Present(disk) :
                       disk[other].reply # Null => disk[r].updatedAt <= disk[other].updatedAt]_vars
    <2> SUFFICES ASSUME MailboxInv, DropInv, [Next]_vars, NEW r \in Present(disk),
                        disk[r].reply # Null, disk'[r].reply = Null,
                        now < ExpiresAt[r], access.allowed, access.version = current.version
                 PROVE  /\ Cardinality(Occupied(disk)) >= MaxRequests
                        /\ \A other \in Present(disk) :
                               disk[other].reply # Null => disk[r].updatedAt <= disk[other].updatedAt
        OBVIOUS
    <2>1. current.pc \in {"evict", "write"} /\ disk' = Written /\ r \in Requests /\ disk[r] # Null
        BY DiskChanges DEF Present
    <2>2. current # Idle /\ current \in OperationType /\ disk = memory /\ memory \in StoreType
        BY <2>1, WrittenFacts DEF Idle, MailboxInv, TypeOK
    <2>3. current.pc = "evict"
        <3> SUFFICES ASSUME current.pc = "write" PROVE FALSE
            BY <2>1
        <3>1. r = current.request
            BY <2>1, <2>2, WrittenFacts
        <3>2. Forfeited(r)
            BY <2>1, <2>2, <3>1 DEF DropInv
        <3>3. now \in Nat /\ ExpiresAt[r] \in Nat
            BY <2>1, MailboxAssumption DEF MailboxInv, TypeOK
        <3> QED BY <3>2, <3>3 DEF Forfeited
    <2>4. r = current.victim
        BY <2>1, <2>2, <2>3 DEF Written, StoreType
    <2> QED BY <2>2, <2>3, <2>4 DEF DropInv, Oldest, Present
<1> QED BY <1>1, <1>2, <1>3, MailboxInvariant, PTL DEF Spec, OnlyTheOldestReplyIsEvicted

---------------------------------------------------------------------------
(* The worker finds, in the table, every body that has expired in storage;   *)
(* and stopping its record erases it.                                        *)
ExpiredAreFound ==
    status = "open" =>
        \A r \in Requests : HasBody(disk[r]) /\ now >= ExpiresAt[r] =>
            NeedsExpiry(r, now) /\ ~HasBody(Stopped(memory[r], "expire", now))

(* No expired body escapes the worker of an owner that serves: not a kept    *)
(* reply of a request that has ended, nor a question nobody fetched          *)
(* (maintenance.ts:42-73).                                                   *)
THEOREM NoBodyEscapesExpiry == Spec => []ExpiredAreFound
<1>1. ASSUME MailboxInv PROVE ExpiredAreFound
    <2> SUFFICES ASSUME status = "open", NEW r \in Requests, HasBody(disk[r]), now >= ExpiresAt[r]
                 PROVE  NeedsExpiry(r, now) /\ ~HasBody(Stopped(memory[r], "expire", now))
        BY DEF ExpiredAreFound
    <2>1. memory[r] = disk[r] /\ memory[r] # Null /\ Sound(memory[r])
        BY <1>1 DEF MailboxInv, ServesInv, StoreInv, SoundStore, HasBody
    <2>2. memory[r].state \in Pending \/ memory[r].reply # Null
        BY <2>1 DEF HasBody, Sound, Record
    <2>3. memory[r].state \in Pending => memory[r].state \notin Terminal
        BY DEF Pending, Terminal
    <2>4. ~HasBody(Stopped(memory[r], "expire", now))
        <3>1. memory[r] \in Record
            BY <2>1 DEF Sound
        <3> QED BY <2>2, <2>3, <3>1 DEF Stopped, HasBody, Record
    <2> QED BY <2>1, <2>2, <2>4 DEF NeedsExpiry
<1> QED BY <1>1, MailboxInvariant, PTL
=============================================================================
