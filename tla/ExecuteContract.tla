-------------------------- MODULE ExecuteContract -------------------------
(***************************************************************************)
(* What a call of execute() promises to the one who made it, without       *)
(* queues, threads or a session: it hears answers to its own requests      *)
(* only, a whole collect at a time and every message once; it returns      *)
(* once; "ok" means that every collect of its plan was answered and that   *)
(* no answer carried an error, "partial" and "error" tell whether any data *)
(* came of what it heard (docs/M2_IR_CONTRACT.md 2.3, 2.6: a responseError *)
(* and a fieldException are reported, not raised).                         *)
(***************************************************************************)
EXTENDS Integers, FiniteSets

CONSTANTS
  Calls,
  OwnMessages,  \* OwnMessages[c]: the answers to the requests of call c
  Collects      \* Collects[c]: how many answers the plan of c collects

VARIABLES
  phase,        \* "idle", "open" or "done"
  heard,        \* the messages in the result so far
  result        \* the status, once done

vars == <<phase, heard, result>>

Init ==
  /\ phase = [c \in Calls |-> "idle"]
  /\ heard = [c \in Calls |-> {}]
  /\ result = [c \in Calls |-> "none"]

Begin(c) ==
  /\ phase[c] = "idle"
  /\ phase' = [phase EXCEPT ![c] = "open"]
  /\ UNCHANGED <<heard, result>>

Finals(S) == {m \in S : m.final}

Hear(c) ==
  /\ phase[c] = "open"
  /\ heard' = [heard EXCEPT ![c] = heard'[c]]
  /\ heard[c] \subseteq heard'[c] /\ heard'[c] \subseteq OwnMessages[c]
  /\ Cardinality(Finals(heard'[c] \ heard[c])) = 1
  /\ UNCHANGED <<phase, result>>

Answered(c) == Cardinality(Finals(heard[c])) = Collects[c]

HeardData(c)   == \E m \in heard[c] : "data" \in m.body
HeardErrors(c) == \E m \in heard[c] : "error" \in m.body

Return(c) ==
  /\ phase[c] = "open"
  /\ phase' = [phase EXCEPT ![c] = "done"]
  /\ \/ Answered(c) /\ ~ HeardErrors(c) /\ result' = [result EXCEPT ![c] = "ok"]
     \/ HeardData(c) /\ result' = [result EXCEPT ![c] = "partial"]
     \/ ~ HeardData(c) /\ result' = [result EXCEPT ![c] = "error"]
  /\ UNCHANGED heard

Next == \E c \in Calls : Begin(c) \/ Hear(c) \/ Return(c)

Spec == Init /\ [][Next]_vars

=============================================================================
