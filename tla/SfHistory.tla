------------------------------- MODULE SfHistory ------------------------------
(***************************************************************************)
(* The history kernels (correctness/history.cpp) on the SFQ queue, which   *)
(* they drive through the non-blocking calls, up to the check of the       *)
(* dumped history by correctness/lincheck/main.go.                         *)
(***************************************************************************)
EXTENDS SfQueue

CONSTANTS
  Producers,   \* threads that enqueue in the split kernel
  Split,       \* TRUE: split_history_kernel, FALSE: alternating_history_kernel
  Ops,         \* ops, rounds of each thread
  Success,     \* ret of an enqueue that worked
  Failure      \* ret of one that did not, and of a dequeue that returned nothing

VARIABLES
  g_wf_time, g_wf_log,
  at,   \* where each thread is in its round
  ok    \* did the call return SFQ_SUCCESS?

INSTANCE WfLinLog

histVars == <<vars, logVars, at, ok>>

Checker == INSTANCE LinCheck

HistInit ==
  /\ Init
  /\ LogInit
  /\ at = [t \in Threads |-> "next"]
  /\ ok = [t \in Threads |-> FALSE]

Made(t) == Len(g_wf_log[t])
Budget == IF Split THEN Ops ELSE 2 * Ops
Kind(t) ==
  IF Split THEN IF t \in Producers THEN "enq" ELSE "deq"
  ELSE IF Made(t) % 2 = 0 THEN "enq" ELSE "deq"

Last(t) == g_wf_log[t][Made(t)]

\* make_hist_value gives each record of a producer a value of its own.
HistItems == Threads \X (0 .. 2 * Ops)

Begin(t) ==
  /\ at[t] = "next" /\ Made(t) < Budget
  /\ LogBegin(t, Kind(t), IF Kind(t) = "enq" THEN <<t, Made(t)>> ELSE Failure)
  /\ at' = [at EXCEPT ![t] = "begun"]
  /\ UNCHANGED <<vars, ok>>

HistEnqueue(t) == Last(t).op = "enq" /\ EnqNbStart(t, Last(t).arg)
HistDequeue(t) == Last(t).op = "deq" /\ DeqNbStart(t)

CallQueue(t) ==
  /\ at[t] = "begun"
  /\ HistEnqueue(t) \/ HistDequeue(t)
  /\ at' = [at EXCEPT ![t] = "called"]
  /\ ok' = [ok EXCEPT ![t] = FALSE]
  /\ UNCHANGED <<g_wf_time, g_wf_log>>

QueueStep(t) ==
  /\ at[t] = "called"
  /\ EnqStep(t) \/ DeqStep(t)
  /\ ok' = [ok EXCEPT ![t] = pc[t] \in {"enq_publish", "deq_release"}]
  /\ UNCHANGED <<g_wf_time, g_wf_log, at>>

End(t) ==
  /\ at[t] = "called" /\ pc[t] = "idle"
  /\ LogEnd(t, IF ~ok[t] THEN Failure
               ELSE IF Last(t).op = "enq" THEN Success ELSE val[t])
  /\ at' = [at EXCEPT ![t] = "next"]
  /\ UNCHANGED <<vars, ok>>

HistNext == \E t \in Threads : Begin(t) \/ CallQueue(t) \/ QueueStep(t) \/ End(t)

HistSpec == HistInit /\ [][HistNext]_histVars

-----------------------------------------------------------------------------
\* No call is under way: the records so far are a history of their own.
Quiet == \A t \in Threads : at[t] = "next"

Refused(r) == r.op = "deq" /\ r.ret = Failure

\* What the queue does guarantee: leaving aside the dequeues that were refused,
\* which say nothing about the queue being empty, the history is that of a FIFO.
SuccessesLinearizable ==
  Quiet => Checker!Linearizable({r \in Dump : ~Refused(r)})
===============================================================================
