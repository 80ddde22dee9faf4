------------------------------- MODULE GlfHistory -----------------------------
(***************************************************************************)
(* Threads that use a GLFQ queue and log their calls, as the history       *)
(* kernels do (correctness/history.cpp), up to the check of the history.   *)
(* A call is stamped in its first and in its last step, which leaves the   *)
(* check less freedom than the log of the kernels does.                    *)
(***************************************************************************)
EXTENDS GlfMpmc, Sequences

CONSTANTS
  MaxCalls,   \* bound: calls made by all threads together
  Success,    \* ret of an enqueue that worked
  Failure     \* ret of a call that did not

VARIABLES g_wf_time, g_wf_log

INSTANCE WfLinLog

Checker == INSTANCE LinCheck

vars == <<mpmcVars, g_wf_time, g_wf_log>>

CallsMade == Cardinality(UNION {{<<t, i>> : i \in DOMAIN g_wf_log[t]} : t \in Threads})

Init == MpmcInit /\ LogInit

\* Every enqueue brings a value of its own: Values is 1 .. MaxCalls.
Enqueue(t) ==
  /\ CallsMade < MaxCalls
  /\ \E v \in Values :
       /\ v = CallsMade + 1
       /\ EnqPtrStart(t, v)
       /\ LogBegin(t, "enq", v)

Dequeue(t) ==
  /\ CallsMade < MaxCalls
  /\ DeqPtrStart(t)
  /\ LogBegin(t, "deq", Failure)

Inside(t) == InsideStep(t) /\ UNCHANGED <<g_wf_time, g_wf_log>>

Finish(t) ==
  \/ (EnqPtrFull(t) \/ DeqPtrEmpty(t)) /\ LogEnd(t, Failure)
  \/ EnqPtrReturn(t) /\ LogEnd(t, Success)
  \/ DeqPtrReturn(t) /\ LogEnd(t, value[t])

Next == \E t \in Threads : Enqueue(t) \/ Dequeue(t) \/ Inside(t) \/ Finish(t)

Spec == Init /\ [][Next]_vars

-----------------------------------------------------------------------------
Quiet == \A t \in Threads : stage[t] = "idle"

\* GLFQ is a linearizable FIFO queue ("FIFO: Linearizable"): the history of any
\* run that has come to rest passes the check of lincheck/main.go.
HistoryLinearizable == Quiet => Checker!Linearizable(Dump)
===============================================================================
