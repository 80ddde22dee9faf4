------------------------------- MODULE LinCheck -------------------------------
(***************************************************************************)
(* The linearizability check of recorded histories                         *)
(* (correctness/lincheck/main.go): may the operations be put in an order   *)
(* that keeps every one between its call and its return, and in which a    *)
(* FIFO queue would have answered as recorded?                             *)
(*                                                                         *)
(* A record is [op, arg, ret, t0, t1]: op is "enq" or "deq"; ret is        *)
(* Success or Failure for an enqueue, a value or Failure ("empty") for a   *)
(* dequeue.                                                                *)
(***************************************************************************)
EXTENDS Integers, Sequences

CONSTANTS Success, Failure

\* The queue after record r is applied to it; legal only when StepLegal holds.
StepLegal(queue, r) ==
  \/ r.op = "enq"
  \/ /\ r.op = "deq"
     /\ IF queue = <<>> THEN r.ret = Failure ELSE r.ret = Head(queue)

StepResult(queue, r) ==
  IF r.op = "enq" THEN IF r.ret = Failure THEN queue ELSE Append(queue, r.arg)
  ELSE IF queue = <<>> THEN queue ELSE Tail(queue)

\* What CheckOperationsVerbose of the Porcupine library answers.
RECURSIVE LinearizableFrom(_, _)
LinearizableFrom(queue, records) ==
  \/ records = {}
  \/ \E r \in records :
       /\ \A s \in records : r.t0 < s.t1
       /\ StepLegal(queue, r)
       /\ LinearizableFrom(StepResult(queue, r), records \ {r})

Linearizable(records) == LinearizableFrom(<<>>, records)
===============================================================================
