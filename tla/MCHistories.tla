------------------------------ MODULE MCHistories -----------------------------
(***************************************************************************)
(* For TLC: a history kernel on GLFQ (GlfHistory), or the split history    *)
(* kernel on SFQ with one producer and two consumers (SfHistory).          *)
(***************************************************************************)
EXTENDS GlfHistory, TLC

CONSTANTS
  t1, t2,      \* the threads on GLFQ
  p, c1, c2,   \* the threads on SFQ
  Ops, QueueLength, TicketMod, NoItem,   \* as in SfHistory
  SfCalls      \* bound: calls made on SFQ

VARIABLES
  queue,   \* which queue is used
  head, tail, closed, items, ids, pc, ticket, val, put, pass, left, calls,
  sfTime, sfLog, at, ok

sfVars == <<head, tail, closed, items, ids, pc, ticket, val, put, pass, left, calls,
            sfTime, sfLog, at, ok>>

Sf == INSTANCE SfHistory WITH
  Threads <- {p, c1, c2}, Producers <- {p}, Split <- TRUE,
  Items <- {p, c1, c2} \X (0 .. 2 * Ops), MaxCalls <- SfCalls,
  g_wf_time <- sfTime, g_wf_log <- sfLog

Symmetry == Permutations({c1, c2})

AnyInit == queue \in {"sfq", "glfq"} /\ Sf!HistInit /\ Init

AnyNext ==
  /\ UNCHANGED queue
  /\ \/ queue = "sfq" /\ Sf!HistNext /\ UNCHANGED vars
     \/ queue = "glfq" /\ Next /\ UNCHANGED sfVars

AnySpec == AnyInit /\ [][AnyNext]_<<queue, sfVars, vars>>

-----------------------------------------------------------------------------
\* The history of any run on SFQ that has come to rest, leaving aside the dequeues
\* that were refused, passes the check of lincheck/main.go.
SuccessesLinearizable == Sf!SuccessesLinearizable
===============================================================================
