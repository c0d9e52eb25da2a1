------------------------------ MODULE MCAdapter ------------------------------
(***************************************************************************)
(* The readers of the IBKR client's queues.  Each has a queue of its own   *)
(* and shares no state with the others, so a behaviour of all of them is a *)
(* behaviour of each: one runs while the others rest.                      *)
(***************************************************************************)
EXTENDS InitialStatus, Answers, OpenOrders, BarStream

CONSTANTS c1, c2, o1, o2   \* callers, and open orders

VARIABLE part              \* the reader that runs

Runs(name, step, vars) == IF part = name THEN step ELSE UNCHANGED vars

AdapterInit ==
  /\ part \in {"status", "answers", "orders", "stream"}
  /\ StatusInit /\ OrdersInit /\ StreamInit
  /\ AnswerInit /\ (part # "answers" => yields)

AdapterNext ==
  /\ part' = part
  /\ Runs("status", StatusNext, statusVars)
  /\ Runs("answers", AnswerNext, answerVars)
  /\ Runs("orders", OrdersNext, ordersVars)
  /\ Runs("stream", StreamNext, streamVars)

AdapterSpec ==
  /\ AdapterInit
  /\ [][AdapterNext]_<<part, statusVars, answerVars, ordersVars, streamVars>>
  /\ StatusFairness /\ AnswerFairness
=============================================================================
