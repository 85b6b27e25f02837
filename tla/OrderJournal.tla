---------------------------- MODULE OrderJournal ----------------------------
(***************************************************************************)
(* What an order desk promises about an order intent, whatever becomes of  *)
(* its calls: the intent is written to the journal before it is sent, it   *)
(* is sent at most once and only while the journal has no answer for it,   *)
(* and the answer written is one the broker gave.  A broker may contradict *)
(* itself: take an order and report an error about it.                     *)
(***************************************************************************)
EXTENDS Naturals

CONSTANT Intents

VARIABLES
    journal,  \* what the durable record says of an intent
    sends,    \* how often the intent was handed to the broker
    answers   \* what the broker has said of it so far

vars == <<journal, sends, answers>>

Init ==
    /\ journal = [i \in Intents |-> "none"]
    /\ sends = [i \in Intents |-> 0]
    /\ answers = [i \in Intents |-> {}]

(* The intent becomes durable. *)
Write(i) ==
    /\ journal[i] = "none"
    /\ journal' = [journal EXCEPT ![i] = "open"]
    /\ UNCHANGED <<sends, answers>>

(* It is handed to the broker, once; journalled before, unanswered still. *)
Send(i) ==
    /\ journal[i] = "open"
    /\ sends[i] = 0
    /\ sends' = [sends EXCEPT ![i] = 1]
    /\ UNCHANGED <<journal, answers>>

(* The broker says of what was sent that it is taken, or refused. *)
Answer(i, a) ==
    /\ sends[i] = 1
    /\ answers' = [answers EXCEPT ![i] = @ \cup {a}]
    /\ UNCHANGED <<journal, sends>>

(* An answer is written; an answer that was written is never rewritten. *)
Settle(i) ==
    /\ journal[i] = "open"
    /\ \E a \in answers[i] : journal' = [journal EXCEPT ![i] = a]
    /\ UNCHANGED <<sends, answers>>

Next == \E i \in Intents :
    \/ Write(i) \/ Send(i) \/ Settle(i)
    \/ \E a \in {"taken", "refused"} : Answer(i, a)

Spec == Init /\ [][Next]_vars
=============================================================================
