------------------------------ MODULE WfQueueUse ------------------------------
(***************************************************************************)
(* Threads that enqueue values, each value once, and dequeue them again    *)
(* from one wait-free queue, as the workloads of this repository do.       *)
(***************************************************************************)
EXTENDS WfQueue

CONSTANTS
  Passed,         \* values that have gone through the queue before
  MaxEnqs,        \* bound: values enqueued, the passed ones included
  MaxDeqs,        \* bound: dequeues
  Kinds,          \* which of the dequeues are called: "deq", "deq_bfs"
  ReuseRequests,  \* may a thread go through a second slow enqueue?
  MaxChase        \* bound on the tickets of one slow enqueue, for ChaseBounded

ASSUME UseAssumption ==
  /\ MaxEnqs \in Nat /\ MaxDeqs \in Nat /\ MaxChase \in Nat
  /\ Passed \in 0 .. MaxEnqs /\ Passed <= NumCells
  /\ Kinds \subseteq {"deq", "deq_bfs"} /\ ReuseRequests \in BOOLEAN

VARIABLES
  sent,    \* history: values that enqueues were called with
  deqs,    \* history: number of dequeues called
  done,    \* history: values whose enqueue returned true
  got,     \* history: how often each value was dequeued
  older,   \* history: for a value, those that were done when its enqueue began
  before   \* history: what had been dequeued when the thread's dequeue began

useVars == <<sent, deqs, done, got, older, before>>
vars == <<wfVars, useVars>>

Values == 1 .. MaxEnqs

Init ==
  /\ WfInit(Passed)
  /\ sent = Passed /\ deqs = 0
  /\ done = 1 .. Passed
  /\ got = [v \in Values |-> IF v <= Passed THEN 1 ELSE 0]
  /\ older = [v \in Values |-> {}]
  /\ before = [t \in Threads |-> {}]

CallEnq(t) ==
  /\ sent < MaxEnqs
  /\ EnqStart(t, sent + 1)
  /\ sent' = sent + 1
  /\ older' = [older EXCEPT ![sent + 1] = {v \in done : got[v] = 0}]
  /\ UNCHANGED <<deqs, done, got, before>>

CallDeq(t) ==
  /\ deqs < MaxDeqs
  /\ \E kind \in Kinds : DeqStart(t, kind)
  /\ deqs' = deqs + 1
  /\ before' = [before EXCEPT ![t] = {v \in Values : got[v] > 0}]
  /\ UNCHANGED <<sent, done, got, older>>

\* The call of t ends in this step, in the given way.
Ends(t, kind) == pc[t] # "idle" /\ pc'[t] = "idle" /\ call'[t].kind = kind

\* Where requests are not to be reused, a thread that would do so stops there.
MayStep(t) == pc[t] = "enq_val" /\ reqVal[t] # Bottom => ReuseRequests

Inside(t) ==
  /\ MayStep(t)
  /\ WfStep(t)
  /\ done' = IF Ends(t, "put") THEN done \cup {call'[t].val} ELSE done
  /\ got' = IF Ends(t, "got") THEN [got EXCEPT ![call'[t].val] = @ + 1] ELSE got
  /\ before' = IF pc'[t] = "idle" THEN [before EXCEPT ![t] = {}] ELSE before
  /\ UNCHANGED <<sent, deqs, older>>

Next == \E t \in Threads : CallEnq(t) \/ CallDeq(t) \/ Inside(t)

Spec == Init /\ [][Next]_vars

\* The device keeps the threads of a kernel running.
LiveSpec == Spec /\ \A t \in Threads : WF_vars(Inside(t))

-----------------------------------------------------------------------------
Words == Values \cup {Bottom, Top}
States == [pending : BOOLEAN, low : Nat]
DeqStates == [pending : BOOLEAN, low : Cells]

\* The words of cells and requests keep their kinds; a dequeue never returns a
\* sentinel as a value ("deq_fast never returns WF_TOP as data"), and requests of
\* dequeuers point into the pool.
TypeOK ==
  /\ T \in Nat /\ H \in Nat
  /\ cellVal \in [Cells -> Words]
  /\ cellEnq \in [Cells -> Threads \cup {Null, Topp}]
  /\ cellDeq \in [Cells -> Threads \cup {Null, Topp}]
  /\ reqVal \in [Threads -> Values \cup {Bottom}]
  /\ reqState \in [Threads -> States]
  /\ deqId \in [Threads -> Cells]
  /\ deqState \in [Threads -> DeqStates]
  /\ enqPeer \in [Threads -> Threads] /\ deqPeer \in [Threads -> Threads]
  /\ \A t \in Threads : call[t].kind = "got" => call[t].val \in Values

\* No value leaves the queue twice, though a helper and an owner may both commit it
\* and several threads may settle a request.
DequeuedOnce == \A v \in Values : got[v] <= 1

\* First in, first out between calls that do not overlap: when w had been dequeued
\* before the dequeue of v began, the enqueue of v had not returned before the
\* enqueue of w began.
OldestFirst ==
  [][\A t \in Threads : Ends(t, "got") =>
       \A w \in before[t] : call'[t].val \notin older[w]]_vars

\* "Once a value is published in Q[cid], T must already cover cid+1": otherwise a
\* dequeuer could call the queue empty with the value in it.
PublishedCovered == \A c \in Cells : IsValue(cellVal[c]) => c < T

\* "advance H during the scan so visited cells are covered": no dequeuer to come
\* takes a ticket of a cell that was spoiled or claimed.
SpoiledCovered ==
  \A c \in Cells : cellVal[c] = Top \/ cellDeq[c] # Null => c < H

\* A wait-free enqueue: its request is settled after few tickets, since dequeuers
\* that spoil its cells are bound to help it.
ChaseBounded ==
  \A t \in Threads : reqState[t].pending => T <= reqState[t].low + MaxChase

Quiet == \A t \in Threads : pc[t] = "idle"

\* The value v is in cell c, or will be put there by the dequeuer that comes by
\* from the request that was claimed for this cell.
InCell(v, c) ==
  \/ cellVal[c] = v
  \/ LET r == cellEnq[c]
     IN /\ cellVal[c] = Bottom /\ r \in Threads
        /\ reqVal[r] = v /\ reqState[r] = State(FALSE, c)

\* No dequeuer has published a request: all took what they got by their own tickets.
\* (The cell of a request is not 0, since Passed > 0 in the runs.)
NoneAnnounced == \A t \in Threads : deqState[t] = State(FALSE, 0)

\* "Success enqueued": a value whose enqueue returned true is dequeued or in a cell
\* whose ticket dequeuers have still to take, as long as dequeues need no help and
\* the pool lasts.  (A slow enqueue that draws a ticket outside the pool while its
\* request is pending commits to the cell it began with, and returns true.)
NoneLost ==
  Quiet /\ NoneAnnounced /\ T <= NumCells =>
    \A v \in done : got[v] > 0 \/ \E c \in Cells : c >= H /\ InCell(v, c)

\* Each cell that was claimed for a dequeue request has had its value delivered.
ClaimDelivered ==
  Quiet => \A c \in Cells :
    cellDeq[c] \in Threads /\ IsValue(cellVal[c]) => got[cellVal[c]] > 0

\* "A Wait-free Queue": every call returns as long as its thread runs.
EveryCallReturns == \A t \in Threads : pc[t] # "idle" ~> pc[t] = "idle"

(***************************************************************************)
(* The inductive invariant behind TypeOK, PublishedCovered and             *)
(* SpoiledCovered: at each step the cell that a call works on is in the    *)
(* pool and behind the end that has to cover it, and so is every cell that *)
(* a pending dequeue request announces.                                    *)
(***************************************************************************)
EnqPcs == {"enq_faa", "enq_put", "enq_val", "enq_state", "enq_slow_faa", "enq_bind",
           "enq_peek", "enq_claim", "enq_pending", "enq_final", "enq_dest", "enq_cover",
           "enq_store"}
DeqPcs == {"deq_faa", "deq_take", "bfs_t", "bfs_h", "slow_id", "slow_state",
           "slow_result", "slow_val", "slow_cover"}
ReqPcs == {"help_state", "help_val", "help_claim", "help_reload", "help_check",
           "help_cover", "help_store"}
HelpPcs == ReqPcs \cup {"help_top", "help_enq", "help_peer", "help_bind", "help_topp",
                        "help_end", "help_read"}
AskPcs == {"settle_id", "settle_deq", "settle_val", "settle_take", "settle_close"}
ScanPcs == AskPcs \cup {"scan_start", "scan_first_id", "scan_state", "scan_id",
                        "scan_cell", "scan_seen", "scan_announce", "settle_state"}
Pcs == {"idle"} \cup EnqPcs \cup DeqPcs \cup HelpPcs \cup ScanPcs

CallRecs ==
  [kind : {"none", "enq", "deq", "deq_bfs", "put", "dropped", "empty", "got"},
   val : Nat, tries : Nat]
OwnRecs ==
  [req : Threads \cup {Null, Topp}, state : States, val : Values \cup {Bottom}]
ScanRecs ==
  [helpee : Threads \cup {Null}, id : Cells, prior : Cells, i : Nat,
   state : DeqStates, deq : Threads \cup {Null, Topp}]

LocalsTyped ==
  /\ pc \in [Threads -> Pcs]
  /\ call \in [Threads -> CallRecs]
  /\ cid \in [Threads -> Nat]
  /\ own \in [Threads -> OwnRecs]
  /\ scan \in [Threads -> ScanRecs]
  /\ sent \in 0 .. MaxEnqs

\* What deq_slow and the helpers of its request rely on: H covers the announced cell.
AnnouncedCovered ==
  /\ \A r \in Threads : deqState[r].pending => deqState[r].low < H
  /\ \A t \in Threads : scan[t].state.pending => scan[t].state.low < H

CallInv(t) ==
  /\ pc[t] \in EnqPcs => call[t].kind = "enq" /\ call[t].val \in Values
  /\ pc[t] \in DeqPcs \cup HelpPcs \cup ScanPcs => call[t].kind \in {"deq", "deq_bfs"}
  /\ pc[t] = "deq_take" => call[t].val \in Values
  /\ pc[t] = "slow_cover" => call[t].val \in Values \cup {Bottom}
  /\ pc[t] \in {"idle"} \cup EnqPcs \cup DeqPcs => ~Scanning(t)
  /\ pc[t] \in ScanPcs => Scanning(t)
  /\ Scanning(t) => \/ call[t].val \in Values
                    \/ scan[t].helpee = t /\ call[t].val = Bottom

CellInv(t) ==
  /\ pc[t] \in {"enq_put", "enq_bind", "enq_peek", "enq_claim", "enq_dest", "enq_cover",
                "enq_store", "deq_take", "slow_id", "slow_state", "slow_val",
                "slow_cover"} => cid[t] \in Cells
  /\ pc[t] \in {"enq_put", "enq_store"} => cid[t] < T
  /\ pc[t] \in {"deq_take", "slow_id", "slow_state"} => cid[t] < H
  /\ pc[t] \in HelpPcs \cup {"scan_seen", "scan_announce"} => At(t) \in Cells /\ At(t) < H
  /\ pc[t] = "help_store" => At(t) < T
  /\ pc[t] \in ReqPcs => own[t].req \in Threads
  /\ pc[t] \in AskPcs => scan[t].state.pending

IInv ==
  /\ TypeOK /\ LocalsTyped /\ PublishedCovered /\ SpoiledCovered /\ AnnouncedCovered
  /\ \A t \in Threads : CallInv(t) /\ CellInv(t)
===============================================================================
