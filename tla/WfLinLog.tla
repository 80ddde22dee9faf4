------------------------------- MODULE WfLinLog -------------------------------
(***************************************************************************)
(* The history log (correctness/wf_linlog.hpp, correctness/history.cpp):   *)
(* every thread writes a record for each call it makes, stamped before and *)
(* after the call by one shared counter.                                   *)
(***************************************************************************)
EXTENDS Integers, Sequences

CONSTANTS Threads, Failure

VARIABLES
  g_wf_time,   \* the shared counter
  g_wf_log     \* the records of each thread, in its program order

logVars == <<g_wf_time, g_wf_log>>

LogInit ==
  /\ g_wf_time = 1
  /\ g_wf_log = [t \in Threads |-> <<>>]

\* WF_LOG_ENQ_BEGIN and WF_LOG_DEQ_BEGIN
LogBegin(t, op, arg) ==
  /\ g_wf_log' = [g_wf_log EXCEPT ![t] = Append(@,
       [op |-> op, arg |-> arg, ret |-> Failure, t0 |-> g_wf_time, t1 |-> 0])]
  /\ g_wf_time' = g_wf_time + 1

\* WF_LOG_ENQ_END and WF_LOG_DEQ_END
LogEnd(t, ret) ==
  /\ g_wf_log' = [g_wf_log EXCEPT
       ![t][Len(g_wf_log[t])] = [@ EXCEPT !.ret = ret, !.t1 = g_wf_time]]
  /\ g_wf_time' = g_wf_time + 1

\* wf_log_dump_jsonl: the records whose call has returned.
Dump ==
  {r \in UNION {{g_wf_log[t][i] : i \in DOMAIN g_wf_log[t]} : t \in Threads} :
     r.t1 # 0}
===============================================================================
