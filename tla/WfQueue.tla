-------------------------------- MODULE WfQueue -------------------------------
(***************************************************************************)
(* The wait-free queue of cells (wfqueue_hip_opt.hpp).  An enqueuer takes  *)
(* a cell with T and puts its value there unless a dequeuer has spoiled    *)
(* the cell; a dequeuer takes a cell with H and spoils it when it finds    *)
(* nothing.  A thread that fails too often publishes a request, which the  *)
(* threads that come by help to settle on a cell.                          *)
(*                                                                         *)
(* Each step makes one atomic access to shared memory.  The segments are   *)
(* one array of cells: find_cell is the identity on the cells of the pool. *)
(* T and H are 64 bits wide in the program and do not wrap.                *)
(***************************************************************************)
EXTENDS Integers, FiniteSets

CONSTANTS
  NumThreads,  \* threads, each with its handle
  NumCells,    \* cells of the pool
  Patience     \* WF_PATIENCE

ASSUME ThreadsAssumption == NumThreads \in Nat \ {0}
ASSUME CellsAssumption == NumCells \in Nat \ {0}
ASSUME PatienceAssumption == Patience \in Nat

VARIABLES
  T, H,                   \* ends of struct wf_queue
  cellVal, cellEnq, cellDeq,   \* struct Cell
  reqVal, reqState,       \* EnqReq of each handle
  deqId, deqState,        \* DeqReq of each handle
  enqPeer, lastId,        \* enq.peer and enq.id_last of each handle
  deqPeer,                \* deq.peer
  pc,                     \* step of the call each thread is in
  call,                   \* kind of the call, its value and its tries left
  cid,                    \* cell of its last ticket
  own,                    \* help_enq: the request bound to the cell, as read
  scan                    \* help_deq: helpee, id, prior, i, state as read, deq as read

cells == <<cellVal, cellEnq, cellDeq>>
enqReqs == <<reqVal, reqState>>
deqReqs == <<deqId, deqState>>
peers == <<enqPeer, lastId, deqPeer>>
locals == <<call, cid, own, scan>>
wfVars == <<T, H, cells, enqReqs, deqReqs, peers, pc, locals>>

Threads == 0 .. NumThreads - 1
Cells == 0 .. NumCells - 1

\* Words that are no value; WF_EMPTY and WF_BOTTOM are the same word.
Bottom == 0
Empty == 0
Top == -1
Retry == -2
IsValue(v) == v > 0

\* Null and Topp stand for ENQ_NULL, DEQ_NULL and ENQ_TOPP, DEQ_TOPP; any other
\* request is named by its thread.
Null == -1
Topp == -2

\* pack_state
State(pending, low) == [pending |-> pending, low |-> low]

NextOf(t) == (t + 1) % NumThreads
Larger(a, b) == IF a > b THEN a ELSE b

NoCall == [kind |-> "none", val |-> Bottom, tries |-> 0]
NoOwn == [req |-> Null, state |-> State(FALSE, 0), val |-> Bottom]
NoScan == [helpee |-> Null, id |-> 0, prior |-> 0, i |-> 0,
           state |-> State(FALSE, 0), deq |-> Null]

\* wf_queue_host_init_ex and wf_init_kernel; reached again after thread 0 has
\* passed that many values through the queue, one by one.
WfInit(passed) ==
  /\ T = passed /\ H = passed
  /\ cellVal = [c \in Cells |-> IF c < passed THEN c + 1 ELSE Bottom]
  /\ cellEnq = [c \in Cells |-> Null]
  /\ cellDeq = [c \in Cells |-> IF c < passed THEN Topp ELSE Null]
  /\ reqVal = [t \in Threads |-> Bottom]
  /\ reqState = [t \in Threads |-> State(FALSE, 0)]
  /\ deqId = [t \in Threads |-> 0]
  /\ deqState = [t \in Threads |-> State(FALSE, 0)]
  /\ enqPeer = [t \in Threads |-> NextOf(t)]
  /\ lastId = [t \in Threads |-> 0]
  /\ deqPeer = [t \in Threads |->
       IF t = 0 THEN (passed + 1) % NumThreads ELSE NextOf(t)]
  /\ pc = [t \in Threads |-> "idle"]
  /\ call = [t \in Threads |-> NoCall]
  /\ cid = [t \in Threads |-> 0]
  /\ own = [t \in Threads |-> NoOwn]
  /\ scan = [t \in Threads |-> NoScan]

\* A definition that no action uses is a slip of the code: it stands in for the
\* definition after it in a mutant, which a property must notice.

GoTo(t, next) == pc' = [pc EXCEPT ![t] = next]

\* A call ends; kind tells how, val what a dequeue has found.
Return(t, kind, v) ==
  /\ GoTo(t, "idle")
  /\ call' = [call EXCEPT ![t] = [kind |-> kind, val |-> v, tries |-> 0]]
  /\ cid' = [cid EXCEPT ![t] = 0]
  /\ own' = [own EXCEPT ![t] = NoOwn]
  /\ scan' = [scan EXCEPT ![t] = NoScan]

\* try_to_claim_req: the request leaves for the cell unless it has left before.
Claims(r, id) == reqState[r] = State(TRUE, id)
ClaimForBlind(r, id, i) == reqState' = [reqState EXCEPT ![r] = State(FALSE, i)]
ClaimFor(r, id, i) ==
  reqState' = IF Claims(r, id) THEN [reqState EXCEPT ![r] = State(FALSE, i)]
                               ELSE reqState

(***************************************************************************)
(* wf_enqueue, enq_fast                                                    *)
(***************************************************************************)
EnqStart(t, v) ==
  /\ pc[t] = "idle"
  /\ GoTo(t, "enq_faa")
  /\ call' = [call EXCEPT ![t] = [kind |-> "enq", val |-> v, tries |-> Patience]]
  /\ UNCHANGED <<T, H, cells, enqReqs, deqReqs, peers, cid, own, scan>>

\* A try of enq_fast has failed: the next one, or enq_slow.
EnqFails(t) ==
  IF call[t].tries = 0 THEN GoTo(t, "enq_val") /\ UNCHANGED call
  ELSE GoTo(t, "enq_faa") /\ call' = [call EXCEPT ![t].tries = @ - 1]

EnqTicket(t) ==
  /\ pc[t] = "enq_faa"
  /\ T' = T + 1
  /\ cid' = [cid EXCEPT ![t] = T]
  /\ IF T \in Cells THEN GoTo(t, "enq_put") /\ UNCHANGED call ELSE EnqFails(t)
  /\ UNCHANGED <<H, cells, enqReqs, deqReqs, peers, own, scan>>

EnqPut(t) ==
  /\ pc[t] = "enq_put"
  /\ IF cellVal[cid[t]] = Bottom
     THEN /\ cellVal' = [cellVal EXCEPT ![cid[t]] = call[t].val]
          /\ Return(t, "put", call[t].val)
     ELSE /\ EnqFails(t)
          /\ UNCHANGED <<cellVal, cid, own, scan>>
  /\ UNCHANGED <<T, H, cellEnq, cellDeq, enqReqs, deqReqs, peers>>

(***************************************************************************)
(* enq_slow                                                                *)
(***************************************************************************)
EnqPublishVal(t) ==
  /\ pc[t] = "enq_val"
  /\ reqVal' = [reqVal EXCEPT ![t] = call[t].val]
  /\ GoTo(t, "enq_state")
  /\ UNCHANGED <<T, H, cells, reqState, deqReqs, peers, locals>>

\* The ticket of the last try becomes the request's id, which own keeps: cid is for
\* the tickets to come.
EnqPublishState(t) ==
  /\ pc[t] = "enq_state"
  /\ reqState' = [reqState EXCEPT ![t] = State(TRUE, cid[t])]
  /\ own' = [own EXCEPT ![t].state = State(TRUE, cid[t])]
  /\ GoTo(t, "enq_slow_faa")
  /\ UNCHANGED <<T, H, cells, reqVal, deqReqs, peers, call, cid, scan>>

EnqSlowTicket(t) ==
  /\ pc[t] = "enq_slow_faa"
  /\ T' = T + 1
  /\ cid' = [cid EXCEPT ![t] = T]
  /\ GoTo(t, IF T \in Cells THEN "enq_bind" ELSE "enq_final")
  /\ UNCHANGED <<H, cells, enqReqs, deqReqs, peers, call, own, scan>>

EnqBind(t) ==
  /\ pc[t] = "enq_bind"
  /\ IF cellEnq[cid[t]] = Null
     THEN cellEnq' = [cellEnq EXCEPT ![cid[t]] = t] /\ GoTo(t, "enq_peek")
     ELSE GoTo(t, "enq_pending") /\ UNCHANGED cellEnq
  /\ UNCHANGED <<T, H, cellVal, cellDeq, enqReqs, deqReqs, peers, locals>>

EnqPeek(t) ==
  /\ pc[t] = "enq_peek"
  /\ GoTo(t, IF IsValue(cellVal[cid[t]]) THEN "enq_pending" ELSE "enq_claim")
  /\ UNCHANGED <<T, H, cells, enqReqs, deqReqs, peers, locals>>

EnqClaim(t) ==
  /\ pc[t] = "enq_claim"
  /\ ClaimFor(t, own[t].state.low, cid[t])
  /\ GoTo(t, "enq_final")
  /\ UNCHANGED <<T, H, cells, reqVal, deqReqs, peers, locals>>

EnqPending(t) ==
  /\ pc[t] = "enq_pending"
  /\ GoTo(t, IF reqState[t].pending THEN "enq_slow_faa" ELSE "enq_final")
  /\ UNCHANGED <<T, H, cells, enqReqs, deqReqs, peers, locals>>

\* Where the request has got to; a cell outside the pool makes the call fail.
EnqFinal(t) ==
  /\ pc[t] = "enq_final"
  /\ IF reqState[t].low \in Cells
     THEN /\ cid' = [cid EXCEPT ![t] = reqState[t].low]
          /\ GoTo(t, "enq_dest")
          /\ UNCHANGED <<call, own, scan>>
     ELSE Return(t, "dropped", call[t].val)
  /\ UNCHANGED <<T, H, cells, enqReqs, deqReqs, peers>>

EnqDest(t) ==
  /\ pc[t] = "enq_dest"
  /\ IF cellVal[cid[t]] = Top
     THEN GoTo(t, "enq_cover") /\ UNCHANGED locals
     ELSE Return(t, "put", call[t].val)
  /\ UNCHANGED <<T, H, cells, enqReqs, deqReqs, peers>>

\* enq_commit.  advance_end_for_linearizability retries until its end is at least
\* as large: at its last access it has taken the larger of the two.
EnqCover(t) ==
  /\ pc[t] = "enq_cover"
  /\ T' = Larger(T, cid[t] + 1)
  /\ GoTo(t, "enq_store")
  /\ UNCHANGED <<H, cells, enqReqs, deqReqs, peers, locals>>

EnqStore(t) ==
  /\ pc[t] = "enq_store"
  /\ cellVal' = [cellVal EXCEPT ![cid[t]] = call[t].val]
  /\ Return(t, "put", call[t].val)
  /\ UNCHANGED <<T, H, cellEnq, cellDeq, enqReqs, deqReqs, peers>>

EnqSlowStep(t) ==
  \/ EnqPublishVal(t) \/ EnqPublishState(t) \/ EnqSlowTicket(t)
  \/ EnqBind(t) \/ EnqPeek(t) \/ EnqClaim(t) \/ EnqPending(t)
  \/ EnqFinal(t) \/ EnqDest(t) \/ EnqCover(t) \/ EnqStore(t)

(***************************************************************************)
(* help_enq(i), inlined in its two callers: deq_fast with the ticket in    *)
(* cid, help_deq with the cell in scan.i.  Its result v goes back to them  *)
(* in HelpedFast and HelpedScan.                                           *)
(***************************************************************************)
Scanning(t) == scan[t].helpee # Null
At(t) == IF Scanning(t) THEN scan[t].i ELSE cid[t]

\* deq_fast: a try has failed.
DeqFails(t) ==
  CASE call[t].kind = "deq_bfs" -> GoTo(t, "bfs_t") /\ UNCHANGED call
    [] call[t].kind = "deq" /\ call[t].tries = 0 -> GoTo(t, "slow_id") /\ UNCHANGED call
    [] OTHER -> GoTo(t, "deq_faa") /\ call' = [call EXCEPT ![t].tries = @ - 1]

HelpedFastTop(t, v) ==
  IF v = Empty THEN Return(t, "empty", Bottom)
  ELSE IF v = Retry THEN DeqFails(t) /\ UNCHANGED <<cid, own, scan>>
  ELSE /\ GoTo(t, "deq_take")
       /\ call' = [call EXCEPT ![t].val = v]
       /\ UNCHANGED <<cid, own, scan>>

HelpedFast(t, v) ==
  CASE v = Empty -> Return(t, "empty", Bottom)
    [] IsValue(v) -> /\ GoTo(t, "deq_take")
                     /\ call' = [call EXCEPT ![t].val = v]
                     /\ own' = [own EXCEPT ![t] = NoOwn]
                     /\ UNCHANGED <<cid, scan>>
    [] OTHER -> DeqFails(t) /\ own' = [own EXCEPT ![t] = NoOwn] /\ UNCHANGED <<cid, scan>>

HelpedScan(t, v) ==
  /\ GoTo(t, CASE v = Empty -> "scan_announce"
               [] IsValue(v) -> "scan_seen"
               [] OTHER -> "scan_state")
  /\ own' = [own EXCEPT ![t] = NoOwn]
  /\ UNCHANGED <<call, cid, scan>>

Helped(t, v) == IF Scanning(t) THEN HelpedScan(t, v) ELSE HelpedFast(t, v)

HelpTop(t) ==
  /\ pc[t] = "help_top"
  /\ IF IsValue(cellVal[At(t)])
     THEN Helped(t, cellVal[At(t)]) /\ UNCHANGED cellVal
     ELSE /\ cellVal' = [cellVal EXCEPT ![At(t)] = Top]
          /\ GoTo(t, "help_enq")
          /\ UNCHANGED locals
  /\ UNCHANGED <<T, H, cellEnq, cellDeq, enqReqs, deqReqs, peers>>

\* The cell's request is known: Topp says that it never gets one.
HelpWith(t, r) ==
  /\ GoTo(t, IF r = Topp THEN "help_end" ELSE "help_state")
  /\ own' = [own EXCEPT ![t].req = r]

HelpEnq(t) ==
  /\ pc[t] = "help_enq"
  /\ IF cellEnq[At(t)] = Null THEN GoTo(t, "help_peer") /\ UNCHANGED own
     ELSE HelpWith(t, cellEnq[At(t)])
  /\ UNCHANGED <<T, H, cells, enqReqs, deqReqs, peers, call, cid, scan>>

HelpPeerNever(t) ==
  /\ pc[t] = "help_peer"
  /\ GoTo(t, "help_topp")
  /\ enqPeer' = [enqPeer EXCEPT ![t] = NextOf(@)]
  /\ UNCHANGED <<T, H, cells, enqReqs, deqReqs, lastId, deqPeer, locals>>

\* The state of the peer is read; when a peer watched so far has moved on, the
\* next one is looked at in a step of its own.
HelpPeer(t) ==
  /\ pc[t] = "help_peer"
  /\ LET p == enqPeer[t]
         s == reqState[p]
     IN IF lastId[t] # 0 /\ lastId[t] # s.low
        THEN /\ enqPeer' = [enqPeer EXCEPT ![t] = NextOf(p)]
             /\ lastId' = [lastId EXCEPT ![t] = 0]
             /\ UNCHANGED <<pc, own>>
        ELSE IF s.pending /\ s.low > 0 /\ s.low <= At(t)
        THEN /\ GoTo(t, "help_bind")
             /\ own' = [own EXCEPT ![t].state = s]
             /\ UNCHANGED <<enqPeer, lastId>>
        ELSE /\ GoTo(t, "help_topp")
             /\ enqPeer' = [enqPeer EXCEPT ![t] = NextOf(p)]
             /\ lastId' = [lastId EXCEPT ![t] = 0]
             /\ UNCHANGED own
  /\ UNCHANGED <<T, H, cells, enqReqs, deqReqs, deqPeer, call, cid, scan>>

HelpBind(t) ==
  /\ pc[t] = "help_bind"
  /\ LET p == enqPeer[t]
         prev == cellEnq[At(t)]
     IN IF prev \in {Null, p}
        THEN /\ cellEnq' = [cellEnq EXCEPT ![At(t)] = p]
             /\ enqPeer' = [enqPeer EXCEPT ![t] = NextOf(p)]
             /\ lastId' = [lastId EXCEPT ![t] = 0]
             /\ HelpWith(t, p)
        ELSE /\ lastId' = [lastId EXCEPT ![t] = own[t].state.low]
             /\ HelpWith(t, prev)
             /\ UNCHANGED <<cellEnq, enqPeer>>
  /\ UNCHANGED <<T, H, cellVal, cellDeq, enqReqs, deqReqs, deqPeer, call, cid, scan>>

HelpTopp(t) ==
  /\ pc[t] = "help_topp"
  /\ LET prev == cellEnq[At(t)]
     IN IF prev = Null
        THEN cellEnq' = [cellEnq EXCEPT ![At(t)] = Topp] /\ HelpWith(t, Topp)
        ELSE HelpWith(t, prev) /\ UNCHANGED cellEnq
  /\ UNCHANGED <<T, H, cellVal, cellDeq, enqReqs, deqReqs, peers, call, cid, scan>>

\* No value comes to this cell for now: the queue is empty, or try elsewhere.
HelpEnd(t) ==
  /\ pc[t] = "help_end"
  /\ Helped(t, IF T <= At(t) THEN Empty ELSE Retry)
  /\ UNCHANGED <<T, H, cells, enqReqs, deqReqs, peers>>

HelpState(t) ==
  /\ pc[t] = "help_state"
  /\ own' = [own EXCEPT ![t].state = reqState[own[t].req]]
  /\ GoTo(t, "help_val")
  /\ UNCHANGED <<T, H, cells, enqReqs, deqReqs, peers, call, cid, scan>>

HelpValPending(t) ==
  /\ pc[t] = "help_val"
  /\ GoTo(t, IF own[t].state.pending /\ own[t].state.low <= At(t)
             THEN "help_claim" ELSE "help_end")
  /\ own' = [own EXCEPT ![t].val = reqVal[own[t].req]]
  /\ UNCHANGED <<T, H, cells, enqReqs, deqReqs, peers, call, cid, scan>>

HelpVal(t) ==
  /\ pc[t] = "help_val"
  /\ LET s == own[t].state
     IN GoTo(t, CASE s.pending /\ s.low <= At(t) -> "help_claim"
                  [] ~s.pending /\ s.low = At(t) -> "help_check"
                  [] OTHER -> "help_end")
  /\ own' = [own EXCEPT ![t].val = reqVal[own[t].req]]
  /\ UNCHANGED <<T, H, cells, enqReqs, deqReqs, peers, call, cid, scan>>

HelpClaim(t) ==
  /\ pc[t] = "help_claim"
  /\ ClaimFor(own[t].req, own[t].state.low, At(t))
  /\ GoTo(t, IF Claims(own[t].req, own[t].state.low) THEN "help_check" ELSE "help_reload")
  /\ UNCHANGED <<T, H, cells, reqVal, deqReqs, peers, locals>>

HelpReload(t) ==
  /\ pc[t] = "help_reload"
  /\ GoTo(t, IF reqState[own[t].req] = State(FALSE, At(t)) THEN "help_check" ELSE "help_read")
  /\ UNCHANGED <<T, H, cells, enqReqs, deqReqs, peers, locals>>

HelpCheck(t) ==
  /\ pc[t] = "help_check"
  /\ GoTo(t, IF cellVal[At(t)] = Top THEN "help_cover" ELSE "help_read")
  /\ UNCHANGED <<T, H, cells, enqReqs, deqReqs, peers, locals>>

HelpCoverNot(t) ==
  /\ pc[t] = "help_cover"
  /\ GoTo(t, "help_store")
  /\ UNCHANGED <<T, H, cells, enqReqs, deqReqs, peers, locals>>

\* enq_commit
HelpCoverStore(t) ==
  /\ pc[t] = "help_cover"
  /\ T' = At(t) + 1
  /\ GoTo(t, "help_store")
  /\ UNCHANGED <<H, cells, enqReqs, deqReqs, peers, locals>>

\* enq_commit
HelpCover(t) ==
  /\ pc[t] = "help_cover"
  /\ T' = Larger(T, At(t) + 1)
  /\ GoTo(t, "help_store")
  /\ UNCHANGED <<H, cells, enqReqs, deqReqs, peers, locals>>

HelpStore(t) ==
  /\ pc[t] = "help_store"
  /\ cellVal' = [cellVal EXCEPT ![At(t)] = own[t].val]
  /\ GoTo(t, "help_read")
  /\ UNCHANGED <<T, H, cellEnq, cellDeq, enqReqs, deqReqs, peers, locals>>

HelpRead(t) ==
  /\ pc[t] = "help_read"
  /\ Helped(t, cellVal[At(t)])
  /\ UNCHANGED <<T, H, cells, enqReqs, deqReqs, peers>>

HelpEnqStep(t) ==
  \/ HelpTop(t) \/ HelpEnq(t) \/ HelpPeer(t) \/ HelpBind(t) \/ HelpTopp(t)
  \/ HelpEnd(t) \/ HelpState(t) \/ HelpVal(t) \/ HelpClaim(t) \/ HelpReload(t)
  \/ HelpCheck(t) \/ HelpCover(t) \/ HelpStore(t) \/ HelpRead(t)

(***************************************************************************)
(* wf_dequeue and wf_dequeue_bfs, deq_fast                                 *)
(***************************************************************************)
DeqStart(t, kind) ==
  /\ pc[t] = "idle"
  /\ GoTo(t, "deq_faa")
  /\ call' = [call EXCEPT ![t] = [kind |-> kind, val |-> Bottom, tries |-> Patience]]
  /\ UNCHANGED <<T, H, cells, enqReqs, deqReqs, peers, cid, own, scan>>

DeqTicket(t) ==
  /\ pc[t] = "deq_faa"
  /\ H' = H + 1
  /\ IF H \in Cells
     THEN /\ cid' = [cid EXCEPT ![t] = H]
          /\ GoTo(t, "help_top")
          /\ UNCHANGED <<call, own, scan>>
     ELSE Return(t, "empty", Bottom)
  /\ UNCHANGED <<T, cells, enqReqs, deqReqs, peers>>

\* wf_dequeue helps a peer after each value it gets.
DeqGot(t, v) ==
  IF call[t].kind = "deq_bfs" THEN Return(t, "got", v)
  ELSE /\ GoTo(t, "scan_start")
       /\ call' = [call EXCEPT ![t].val = v]
       /\ scan' = [scan EXCEPT ![t] = [NoScan EXCEPT !.helpee = deqPeer[t]]]
       /\ UNCHANGED <<cid, own>>

DeqTake(t) ==
  /\ pc[t] = "deq_take"
  /\ IF cellDeq[cid[t]] = Null
     THEN cellDeq' = [cellDeq EXCEPT ![cid[t]] = Topp] /\ DeqGot(t, call[t].val)
     ELSE DeqFails(t) /\ UNCHANGED <<cellDeq, cid, own, scan>>
  /\ UNCHANGED <<T, H, cellVal, cellEnq, enqReqs, deqReqs, peers>>

\* wf_dequeue_bfs gives up when T is not ahead of H: two loads.
BfsLoadT(t) ==
  /\ pc[t] = "bfs_t"
  /\ call' = [call EXCEPT ![t].val = T]
  /\ GoTo(t, "bfs_h")
  /\ UNCHANGED <<T, H, cells, enqReqs, deqReqs, peers, cid, own, scan>>

BfsLoadH(t) ==
  /\ pc[t] = "bfs_h"
  /\ IF call[t].val <= H + 1 \/ call[t].tries = 0
     THEN Return(t, "empty", Bottom)
     ELSE /\ GoTo(t, "deq_faa")
          /\ call' = [call EXCEPT ![t].tries = @ - 1, ![t].val = Bottom]
          /\ UNCHANGED <<cid, own, scan>>
  /\ UNCHANGED <<T, H, cells, enqReqs, deqReqs, peers>>

(***************************************************************************)
(* deq_slow                                                                *)
(***************************************************************************)
SlowPublishId(t) ==
  /\ pc[t] = "slow_id"
  /\ deqId' = [deqId EXCEPT ![t] = cid[t]]
  /\ GoTo(t, "slow_state")
  /\ UNCHANGED <<T, H, cells, enqReqs, deqState, peers, locals>>

SlowPublishState(t) ==
  /\ pc[t] = "slow_state"
  /\ deqState' = [deqState EXCEPT ![t] = State(TRUE, cid[t])]
  /\ GoTo(t, "scan_start")
  /\ call' = [call EXCEPT ![t].val = Bottom]
  /\ scan' = [scan EXCEPT ![t] = [NoScan EXCEPT !.helpee = t]]
  /\ UNCHANGED <<T, H, cells, enqReqs, deqId, peers, cid, own>>

\* The cell that the request was settled on.  It is in the pool: so are the ticket
\* that the request began with and every cell that was announced.
SlowResult(t) ==
  /\ pc[t] = "slow_result"
  /\ cid' = [cid EXCEPT ![t] = deqState[t].low]
  /\ GoTo(t, "slow_val")
  /\ UNCHANGED <<T, H, cells, enqReqs, deqReqs, peers, call, own, scan>>

SlowVal(t) ==
  /\ pc[t] = "slow_val"
  /\ call' = [call EXCEPT ![t].val = IF cellVal[cid[t]] = Top THEN Empty ELSE cellVal[cid[t]]]
  /\ GoTo(t, "slow_cover")
  /\ UNCHANGED <<T, H, cells, enqReqs, deqReqs, peers, cid, own, scan>>

SlowCover(t) ==
  /\ pc[t] = "slow_cover"
  /\ H' = Larger(H, cid[t] + 1)
  /\ IF call[t].val = Empty THEN Return(t, "empty", Bottom) ELSE DeqGot(t, call[t].val)
  /\ UNCHANGED <<T, cells, enqReqs, deqReqs, peers>>

(***************************************************************************)
(* help_deq                                                                *)
(***************************************************************************)
\* help_deq returns, to deq_slow or to wf_dequeue.
ScanReturn(t) ==
  IF scan[t].helpee = t /\ call[t].val = Bottom
  THEN /\ GoTo(t, "slow_result")
       /\ scan' = [scan EXCEPT ![t] = NoScan]
       /\ UNCHANGED <<call, cid, own, deqPeer>>
  ELSE /\ deqPeer' = [deqPeer EXCEPT ![t] = NextOf(@)]
       /\ Return(t, "got", call[t].val)

ScanStart(t) ==
  /\ pc[t] = "scan_start"
  /\ scan' = [scan EXCEPT ![t].state = deqState[scan[t].helpee]]
  /\ GoTo(t, "scan_first_id")
  /\ UNCHANGED <<T, H, cells, enqReqs, deqReqs, peers, call, cid, own>>

ScanFirstId(t) ==
  /\ pc[t] = "scan_first_id"
  /\ LET id == deqId[scan[t].helpee]
     IN IF ~scan[t].state.pending \/ scan[t].state.low < id
        THEN ScanReturn(t)
        ELSE /\ scan' = [scan EXCEPT ![t].id = id, ![t].prior = id, ![t].i = id]
             /\ GoTo(t, "scan_state")
             /\ UNCHANGED <<call, cid, own, deqPeer>>
  /\ UNCHANGED <<T, H, cells, enqReqs, deqReqs, enqPeer, lastId>>

\* The request is read again before each cell and before the announced one is
\* settled on; help_deq is done with it when it is no longer pending or not the same.
ScanReload(t, at, next) ==
  /\ pc[t] = at
  /\ LET s == deqState[scan[t].helpee]
     IN IF s.pending
        THEN /\ scan' = [scan EXCEPT ![t].state = s]
             /\ GoTo(t, next)
             /\ UNCHANGED <<call, cid, own, deqPeer>>
        ELSE ScanReturn(t)
  /\ UNCHANGED <<T, H, cells, enqReqs, deqReqs, enqPeer, lastId>>

ScanSame(t, at, next) ==
  /\ pc[t] = at
  /\ IF deqId[scan[t].helpee] = scan[t].id
     THEN GoTo(t, next) /\ UNCHANGED <<locals, deqPeer>>
     ELSE ScanReturn(t)
  /\ UNCHANGED <<T, H, cells, enqReqs, deqReqs, enqPeer, lastId>>

ScanState(t) == ScanReload(t, "scan_state", "scan_id")
ScanId(t) ==
  ScanSame(t, "scan_id",
           IF scan[t].state.low = scan[t].prior THEN "scan_cell" ELSE "settle_state")

ScanCellUncovered(t) ==
  /\ pc[t] = "scan_cell"
  /\ scan' = [scan EXCEPT ![t].i = IF @ \in Cells THEN @ + 1 ELSE @]
  /\ GoTo(t, IF scan[t].i + 1 \in Cells THEN "help_top" ELSE "settle_state")
  /\ UNCHANGED <<T, H, cells, enqReqs, deqReqs, peers, call, cid, own>>

\* The next cell, while no candidate is announced; H covers it before it is touched.
\* Outside the pool one cell is like the next, so that i stops at the first.
ScanCell(t) ==
  /\ pc[t] = "scan_cell"
  /\ scan' = [scan EXCEPT ![t].i = IF @ \in Cells THEN @ + 1 ELSE @]
  /\ IF scan[t].i + 1 \in Cells
     THEN H' = Larger(H, scan[t].i + 2) /\ GoTo(t, "help_top")
     ELSE GoTo(t, "settle_state") /\ UNCHANGED H
  /\ UNCHANGED <<T, cells, enqReqs, deqReqs, peers, call, cid, own>>

ScanSeen(t) ==
  /\ pc[t] = "scan_seen"
  /\ GoTo(t, IF cellDeq[scan[t].i] = Null THEN "scan_announce" ELSE "scan_state")
  /\ UNCHANGED <<T, H, cells, enqReqs, deqReqs, peers, locals>>

ScanAnnounce(t) ==
  /\ pc[t] = "scan_announce"
  /\ LET r == scan[t].helpee
     IN deqState' = IF deqState[r] = State(TRUE, scan[t].prior)
                    THEN [deqState EXCEPT ![r] = State(TRUE, scan[t].i)] ELSE deqState
  /\ GoTo(t, "settle_state")
  /\ UNCHANGED <<T, H, cells, enqReqs, deqId, peers, locals>>

SettleState(t) == ScanReload(t, "settle_state", "settle_id")
SettleId(t) == ScanSame(t, "settle_id", "settle_deq")

Announced(t) == scan[t].state.low

SettleDeq(t) ==
  /\ pc[t] = "settle_deq"
  /\ scan' = [scan EXCEPT ![t].deq = cellDeq[Announced(t)]]
  /\ GoTo(t, "settle_val")
  /\ UNCHANGED <<T, H, cells, enqReqs, deqReqs, peers, call, cid, own>>

SettleVal(t) ==
  /\ pc[t] = "settle_val"
  /\ GoTo(t, IF cellVal[Announced(t)] = Top THEN "settle_close" ELSE "settle_take")
  /\ UNCHANGED <<T, H, cells, enqReqs, deqReqs, peers, locals>>

SettleTakeUnasked(t) ==
  /\ pc[t] = "settle_take"
  /\ cellDeq' = [cellDeq EXCEPT ![Announced(t)] = scan[t].helpee]
  /\ GoTo(t, "settle_close")
  /\ UNCHANGED <<T, H, cellVal, cellEnq, enqReqs, deqReqs, peers, locals>>

SettleTakeSamePrior(t) ==
  /\ pc[t] = "settle_take"
  /\ LET a == Announced(t)
         r == scan[t].helpee
     IN IF cellDeq[a] = Null \/ scan[t].deq = r
        THEN /\ cellDeq' = [cellDeq EXCEPT ![a] = IF @ = Null THEN r ELSE @]
             /\ GoTo(t, "settle_close")
             /\ UNCHANGED scan
        ELSE /\ scan' = [scan EXCEPT ![t].i = Larger(@, a)]
             /\ GoTo(t, "scan_state")
             /\ UNCHANGED cellDeq
  /\ UNCHANGED <<T, H, cellVal, cellEnq, enqReqs, deqReqs, peers, call, cid, own>>

SettleTake(t) ==
  /\ pc[t] = "settle_take"
  /\ LET a == Announced(t)
         r == scan[t].helpee
     IN IF cellDeq[a] = Null \/ scan[t].deq = r
        THEN /\ cellDeq' = [cellDeq EXCEPT ![a] = IF @ = Null THEN r ELSE @]
             /\ GoTo(t, "settle_close")
             /\ UNCHANGED scan
        ELSE /\ scan' = [scan EXCEPT ![t].prior = a, ![t].i = Larger(@, a)]
             /\ GoTo(t, "scan_state")
             /\ UNCHANGED cellDeq
  /\ UNCHANGED <<T, H, cellVal, cellEnq, enqReqs, deqReqs, peers, call, cid, own>>

SettleClose(t) ==
  /\ pc[t] = "settle_close"
  /\ LET r == scan[t].helpee
     IN deqState' = IF deqState[r] = scan[t].state
                    THEN [deqState EXCEPT ![r] = State(FALSE, Announced(t))] ELSE deqState
  /\ ScanReturn(t)
  /\ UNCHANGED <<T, H, cells, enqReqs, deqId, enqPeer, lastId>>

DeqStep(t) ==
  \/ DeqTicket(t) \/ DeqTake(t) \/ BfsLoadT(t) \/ BfsLoadH(t)
  \/ SlowPublishId(t) \/ SlowPublishState(t) \/ SlowResult(t) \/ SlowVal(t) \/ SlowCover(t)
  \/ ScanStart(t) \/ ScanFirstId(t) \/ ScanState(t) \/ ScanId(t) \/ ScanCell(t)
  \/ ScanSeen(t) \/ ScanAnnounce(t) \/ SettleState(t) \/ SettleId(t)
  \/ SettleDeq(t) \/ SettleVal(t) \/ SettleTake(t) \/ SettleClose(t)

\* A step inside a call.
WfStep(t) == EnqTicket(t) \/ EnqPut(t) \/ EnqSlowStep(t) \/ HelpEnqStep(t) \/ DeqStep(t)
===============================================================================
