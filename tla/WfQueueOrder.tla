----------------------------- MODULE WfQueueOrder ------------------------------
(***************************************************************************)
(* The inductive invariant behind DequeuedOnce, NoneLost and OldestFirst   *)
(* of WfQueueUse.  It holds while three things last: no thread goes        *)
(* through enq_slow twice (WfQueue_reuse and WfQueue_twice show why), the  *)
(* pool has cells for the tickets of T (enq_slow commits to a spoiled      *)
(* cell when it runs out), and, for the side of the dequeuers, none of     *)
(* them has published a request.                                           *)
(***************************************************************************)
EXTENDS WfQueueUse

InPool == T <= NumCells

\* No dequeuer has asked for help (the cell of a request is above 0, as in NoneLost).
NoneAsked == \A t \in Threads : deqId[t] = 0

\* A request of a dequeuer is not in cell 0, since the first cells were used up before or
\* the dequeues that ask for help are not called: a request in cell 0 looks like none.
AskAssumption == Passed > 0 \/ Kinds \subseteq {"deq_bfs"}

\* The request of r is out: both of its words are stored.
Published(r) == reqVal[r] # Bottom /\ pc[r] # "enq_state"

\* The request of r is settled on cell c.
Settled(r, c) == Published(r) /\ reqState[r] = State(FALSE, c)

\* Cell c is the place of v: it is in the cell, or in the request settled on it.
Holds(c, v) ==
  \/ cellVal[c] = v
  \/ cellEnq[c] \in Threads /\ Settled(cellEnq[c], c) /\ reqVal[cellEnq[c]] = v

\* Whatever was done when the enqueue of v began has its place below n.
Behind(v, n) == \A w \in older[v] : \E c \in Cells : c < n /\ Holds(c, w)

\* Nothing comes to cell c any more: it was spoiled and no request is settled on it.
Dead(c) ==
  /\ cellVal[c] = Top /\ cellEnq[c] # Null
  /\ cellEnq[c] \in Threads =>
       ~reqState[cellEnq[c]].pending /\ reqState[cellEnq[c]].low # c

(***************************************************************************)
(* Cells and requests of enqueuers                                         *)
(***************************************************************************)
\* Each request has a value of its own, and where it says it is settled is a cell
\* bound to it.
RequestsInv ==
  \A r \in Threads :
    /\ reqVal[r] <= sent
    /\ reqState[r].pending => Published(r) /\ Behind(reqVal[r], reqState[r].low)
    /\ Published(r) /\ ~reqState[r].pending =>
         reqState[r].low \in Cells /\ cellEnq[reqState[r].low] = r
    /\ \A s \in Threads : reqVal[r] # Bottom /\ reqVal[r] = reqVal[s] => r = s

\* A cell is bound to a published request of an earlier or the same ticket, whose
\* value is the only one that gets there; a cell bound to none stays spoiled; T has
\* passed a cell that is bound before a dequeuer came by.
CellsInv ==
  \A c \in Cells :
    /\ cellVal[c] <= sent
    /\ cellEnq[c] \in Threads =>
         /\ Published(cellEnq[c])
         /\ reqState[cellEnq[c]].pending => reqState[cellEnq[c]].low <= c
         /\ cellVal[c] \in {Bottom, Top, reqVal[cellEnq[c]]}
    /\ cellEnq[c] = Topp => cellVal[c] = Top
    /\ cellVal[c] = Bottom /\ cellEnq[c] # Null => c < T
    /\ \A r \in Threads : IsValue(cellVal[c]) /\ cellVal[c] = reqVal[r] => Settled(r, c)
    /\ \A v \in Values : Holds(c, v) => Behind(v, c)

OneEach ==
  \A c, d \in Cells : IsValue(cellVal[c]) /\ cellVal[c] = cellVal[d] => c = d

DoneInv ==
  /\ \A v \in done : v \in Values /\ \E c \in Cells : c < T /\ Holds(c, v)
  /\ older \in [Values -> SUBSET done]

\* Before it is published or put, a value is with its enqueuer alone.
FreshPcs == {"enq_faa", "enq_put", "enq_val"}
TicketPcs == {"enq_put", "enq_bind", "enq_peek", "enq_claim"}
SettledPcs == {"enq_final", "enq_dest", "enq_cover", "enq_store"}
LoopPcs == EnqPcs \ (SettledPcs \cup {"enq_faa"})

FreshInv(t) ==
  pc[t] \in FreshPcs =>
    /\ \A c \in Cells : cellVal[c] # call[t].val
    /\ \A r \in Threads : reqVal[r] # call[t].val
    /\ \A u \in Threads \ {t} : pc[u] \in FreshPcs => call[u].val # call[t].val

\* A cell whose ticket an enqueuer holds is used by others only if it is not Bottom.
TicketInv(t) ==
  pc[t] \in TicketPcs =>
    /\ \A u \in Threads \ {t} : pc[u] \in TicketPcs => cid[u] # cid[t]
    /\ pc[t] \in {"enq_put", "enq_bind"} /\ cellEnq[cid[t]] = Null => ~IsValue(cellVal[cid[t]])
    /\ pc[t] \in {"enq_put", "enq_bind"} /\ cellVal[cid[t]] = Bottom => cellEnq[cid[t]] = Null
    /\ pc[t] \in {"enq_peek", "enq_claim"} => cellEnq[cid[t]] = t

SlowInv(t) ==
  pc[t] \in EnqPcs \ FreshPcs =>
    /\ reqVal[t] = call[t].val
    /\ reqState[t].pending => reqState[t] = own[t].state /\ reqState[t].low <= cid[t]
    /\ pc[t] \in SettledPcs => ~reqState[t].pending
    /\ pc[t] \in SettledPcs \ {"enq_final"} => reqState[t].low = cid[t]
    /\ pc[t] \in {"enq_cover", "enq_store"} => cellVal[cid[t]] \in {Top, call[t].val}

EnqOrderInv(t) ==
  pc[t] \in EnqPcs =>
    /\ call[t].val <= sent
    /\ Behind(call[t].val, T)
    /\ pc[t] \in LoopPcs => cid[t] < T /\ Behind(call[t].val, cid[t])

\* help_enq knows what it has read: the cell is not Bottom any more, the request it
\* has read does not change but for being settled.
HelpInv(t) ==
  /\ pc[t] \in HelpPcs \ {"help_top"} => cellVal[At(t)] # Bottom
  /\ pc[t] \in {"help_enq", "help_peer", "help_bind", "help_topp"} /\ cellEnq[At(t)] = Null =>
       cellVal[At(t)] = Top
  /\ pc[t] = "help_bind" =>
       /\ Published(enqPeer[t])
       /\ reqState[enqPeer[t]].pending => reqState[enqPeer[t]].low <= At(t)
  /\ pc[t] \in ReqPcs => cellEnq[At(t)] = own[t].req
  /\ pc[t] = "help_val" =>
       \/ reqState[own[t].req] = own[t].state
       \/ own[t].state.pending /\ ~reqState[own[t].req].pending
  /\ pc[t] = "help_val" /\ own[t].state.pending => own[t].state.low <= At(t)
  /\ pc[t] \in {"help_claim", "help_reload", "help_check", "help_cover", "help_store"} =>
       own[t].val = reqVal[own[t].req]
  /\ pc[t] = "help_claim" /\ reqState[own[t].req].pending =>
       reqState[own[t].req] = own[t].state
  /\ pc[t] = "help_reload" => ~reqState[own[t].req].pending
  /\ pc[t] \in {"help_check", "help_cover", "help_store"} =>
       reqState[own[t].req] = State(FALSE, At(t))
  /\ pc[t] = "help_end" => Dead(At(t))
  /\ pc[t] = "help_read" => IsValue(cellVal[At(t)]) \/ Dead(At(t))

StoreThread(t) ==
  FreshInv(t) /\ TicketInv(t) /\ SlowInv(t) /\ EnqOrderInv(t) /\ HelpInv(t)

Store == RequestsInv /\ CellsInv /\ OneEach /\ DoneInv /\ \A t \in Threads : StoreThread(t)

StoreInv == InPool => Store

(***************************************************************************)
(* Requests of dequeuers                                                   *)
(***************************************************************************)
AskedThread(t) ==
  /\ call[t].kind = "deq" => "deq" \in Kinds
  /\ pc[t] \in HelpPcs \cup {"deq_take", "slow_id", "slow_state"} /\ ~Scanning(t) =>
       cid[t] >= Passed
  /\ pc[t] \in {"slow_id", "slow_state"} => call[t].kind = "deq"
  /\ pc[t] \in {"slow_state", "slow_result", "slow_val", "slow_cover"} => deqId[t] # 0
  /\ Scanning(t) /\ call[t].val = Bottom => deqId[t] # 0
  /\ pc[t] \in HelpPcs \cup {"scan_seen", "scan_announce"} /\ Scanning(t) => scan[t].i > 0
  /\ scan[t].state.pending => scan[t].state.low > 0

AskedInv ==
  /\ H >= Passed
  /\ \A r \in Threads :
       /\ deqId[r] = 0 => deqState[r] = State(FALSE, 0)
       /\ deqState[r].pending => deqState[r].low > 0
       /\ deqId[r] # 0 /\ deqState[r] = State(FALSE, 0) => pc[r] = "slow_state"
  /\ \A t \in Threads : AskedThread(t)

(***************************************************************************)
(* Cells and dequeuers                                                     *)
(***************************************************************************)
\* A dequeuer has taken the ticket of cell c and is still about to take its value.
Tries(t) == pc[t] \in HelpPcs \cup {"deq_take"}
InHand(c) == \E t \in Threads : Tries(t) /\ cid[t] = c

\* wf_dequeue has taken the value of its cell and helps a peer before it returns it.
Carries(t, v) == Scanning(t) /\ call[t].val = v

TakenInv ==
  /\ \A c \in Cells :
       /\ cellDeq[c] # Null =>
            /\ IsValue(cellVal[c])
            /\ \/ got[cellVal[c]] = 1
               \/ \E t \in Threads : Carries(t, cellVal[c])
       /\ c < H => cellDeq[c] # Null \/ InHand(c) \/ Dead(c)
  /\ got \in [Values -> {0, 1}] /\ before \in [Threads -> SUBSET Values]
  /\ \A v \in Values : got[v] = 1 => \E c \in Cells : cellVal[c] = v /\ cellDeq[c] # Null

TakeInv(t) ==
  /\ Scanning(t) =>
       /\ pc[t] \in {"scan_start", "scan_first_id"} /\ ~scan[t].state.pending
       /\ cid[t] \in Cells /\ cellVal[cid[t]] = call[t].val /\ cellDeq[cid[t]] # Null
       /\ got[call[t].val] = 0
       /\ \A u \in Threads \ {t} : ~Carries(u, call[t].val)
  /\ pc[t] = "deq_take" => cellVal[cid[t]] = call[t].val
  /\ \A w \in before[t] :
       /\ got[w] = 1
       /\ Tries(t) \/ Scanning(t) =>
            \E c \in Cells : c < cid[t] /\ cellVal[c] = w

DequeueInv == InPool /\ NoneAsked => TakenInv /\ \A t \in Threads : TakeInv(t)

FifoInv == StoreInv /\ AskedInv /\ DequeueInv

\* Though its enqueuer and helpers may all commit a value, no value is in two cells.
StoredOnce == InPool => OneEach
===============================================================================
