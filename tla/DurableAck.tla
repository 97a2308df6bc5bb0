------------------------------ MODULE DurableAck ------------------------------
(***************************************************************************)
(* What the aggregate write path promises its callers (ADR 0002): an       *)
(* Export is answered OK only for deltas inside a committed transaction,   *)
(* an Export answered with an error contributed nothing and never will,    *)
(* and what is durable stays durable.  A caller may also get no answer     *)
(* (the process died): such an Export may or may not be durable, which is  *)
(* why a retrying client gets at-least-once and never at-most-once.        *)
(***************************************************************************)

CONSTANT Exports        \* the Export requests ever made; a client retry is another one

VARIABLES
    answer,             \* [Exports -> {"none", "ok", "error"}]
    durable             \* the Exports whose deltas are inside a committed transaction

vars == <<answer, durable>>

Init ==
    /\ answer = [e \in Exports |-> "none"]
    /\ durable = {}

\* One transaction makes a whole batch of unanswered Exports durable.
Persist(B) ==
    /\ B # {}
    /\ B \cap durable = {}
    /\ \A e \in B : answer[e] = "none"
    /\ durable' = durable \cup B
    /\ UNCHANGED answer

AnswerOK(e) ==
    /\ answer[e] = "none"
    /\ e \in durable
    /\ answer' = [answer EXCEPT ![e] = "ok"]
    /\ UNCHANGED durable

AnswerError(e) ==
    /\ answer[e] = "none"
    /\ e \notin durable
    /\ answer' = [answer EXCEPT ![e] = "error"]
    /\ UNCHANGED durable

Next ==
    \/ \E B \in SUBSET Exports : Persist(B)
    \/ \E e \in Exports : AnswerOK(e) \/ AnswerError(e)

Spec == Init /\ [][Next]_vars
===============================================================================
