--------------------------- MODULE QuestionPromise ---------------------------
(***************************************************************************)
(* What the question queue promises about each request identity, whatever  *)
(* fails in between: it stands for one question, ever; it is answered at   *)
(* most once, by one execution, and never after it was stopped; and a body *)
(* that was dropped does not come back.                                    *)
(***************************************************************************)
CONSTANTS Requests, Texts, Executors, Null

VARIABLES
    question,   \* [Requests -> the text asked, Null before]
    reply,      \* [Requests -> whose execution answered, Null for none]
    ended,      \* [Requests -> BOOLEAN]: answered or stopped
    kept        \* [Requests -> BOOLEAN]: a body is still retained

vars == <<question, reply, ended, kept>>

Init ==
    /\ question = [r \in Requests |-> Null]
    /\ reply = [r \in Requests |-> Null]
    /\ ended = [r \in Requests |-> FALSE]
    /\ kept = [r \in Requests |-> FALSE]

Ask(r, t) ==
    /\ question[r] = Null
    /\ question' = [question EXCEPT ![r] = t]
    /\ kept' = [kept EXCEPT ![r] = TRUE]
    /\ UNCHANGED <<reply, ended>>

Answer(r, x) ==
    /\ question[r] # Null /\ ~ended[r]
    /\ reply' = [reply EXCEPT ![r] = x]
    /\ ended' = [ended EXCEPT ![r] = TRUE]
    /\ UNCHANGED <<question, kept>>

Stop(r) ==
    /\ question[r] # Null /\ ~ended[r]
    /\ ended' = [ended EXCEPT ![r] = TRUE]
    /\ kept' = [kept EXCEPT ![r] = FALSE]
    /\ UNCHANGED <<question, reply>>

Drop(r) ==
    /\ ended[r] /\ kept[r]
    /\ kept' = [kept EXCEPT ![r] = FALSE]
    /\ UNCHANGED <<question, reply, ended>>

Next ==
    \E r \in Requests :
        \/ \E t \in Texts : Ask(r, t)
        \/ \E x \in Executors : Answer(r, x)
        \/ Stop(r) \/ Drop(r)

Spec == Init /\ [][Next]_vars
=============================================================================
