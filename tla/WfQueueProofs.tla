---------------------------- MODULE WfQueueProofs ----------------------------
(***************************************************************************)
(* Machine-checked proofs about WfQueueUse, for every number of threads,   *)
(* cells, tries and calls, and after them about WfQueueOrder, for every    *)
(* number of threads, cells and values, and any patience.                  *)
(***************************************************************************)
EXTENDS WfQueueOrder, ModArith

-----------------------------------------------------------------------------
(***************************************************************************)
(* The invariant, split into what it says of shared memory and what it     *)
(* says of one thread                                                      *)
(***************************************************************************)

SharedTyped ==
  /\ T \in Nat /\ H \in Nat
  /\ cellVal \in [Cells -> Words]
  /\ cellEnq \in [Cells -> Threads \cup {Null, Topp}]
  /\ cellDeq \in [Cells -> Threads \cup {Null, Topp}]
  /\ reqVal \in [Threads -> Values \cup {Bottom}]
  /\ reqState \in [Threads -> States]
  /\ deqId \in [Threads -> Cells]
  /\ deqState \in [Threads -> DeqStates]
  /\ enqPeer \in [Threads -> Threads] /\ deqPeer \in [Threads -> Threads]

SharedInv ==
  /\ SharedTyped /\ PublishedCovered /\ SpoiledCovered
  /\ \A r \in Threads : deqState[r].pending => deqState[r].low < H

ThreadInv(t) ==
  /\ CallInv(t) /\ CellInv(t)
  /\ call[t].kind = "got" => call[t].val \in Values
  /\ scan[t].state.pending => scan[t].state.low < H

Parts == SharedInv /\ LocalsTyped /\ \A t \in Threads : ThreadInv(t)

\* Nothing is lost in the split.
LEMMA IInvParts == IInv <=> Parts
BY DEF IInv, Parts, SharedInv, SharedTyped, ThreadInv, TypeOK, AnnouncedCovered

\* The ends only grow.
EndsGrow == T' \in Nat /\ H' \in Nat /\ T' >= T /\ H' >= H

\* Nothing that belongs to another thread changes.
Others(t) ==
  \A u \in Threads \ {t} :
    /\ pc'[u] = pc[u] /\ call'[u] = call[u] /\ cid'[u] = cid[u]
    /\ own'[u] = own[u] /\ scan'[u] = scan[u]

\* What a step of t has to show of the threads.
LocalGood(t) == LocalsTyped' /\ Others(t) /\ ThreadInv(t)'

\* The other threads do not notice.
LEMMA StepGood ==
  ASSUME Parts, NEW t \in Threads, EndsGrow, SharedInv', LocalGood(t)
  PROVE  Parts'
<1>1. ASSUME NEW u \in Threads, u # t PROVE ThreadInv(u)'
  <2>1. /\ pc'[u] = pc[u] /\ call'[u] = call[u] /\ cid'[u] = cid[u]
        /\ own'[u] = own[u] /\ scan'[u] = scan[u]
    BY <1>1 DEF LocalGood, Others
  <2>2. ThreadInv(u) /\ T \in Nat /\ H \in Nat /\ cid[u] \in Nat /\ scan[u].i \in Nat
        /\ scan[u].state.low \in Nat
    BY <1>1 DEF Parts, SharedInv, SharedTyped, LocalsTyped, ScanRecs, DeqStates, Cells
  <2>3. CallInv(u)' BY <2>1, <2>2 DEF ThreadInv, CallInv, Scanning
  <2>4. CellInv(u)' BY <2>1, <2>2 DEF ThreadInv, CellInv, At, Scanning, EndsGrow
  <2>5. QED BY <2>1, <2>2, <2>3, <2>4 DEF ThreadInv, EndsGrow
<1>2. QED BY <1>1 DEF Parts, LocalGood

LEMMA Basics ==
  /\ 0 \in Cells /\ Cells \subseteq Nat /\ Threads \subseteq Nat
  /\ Null \notin Threads /\ Topp \notin Threads /\ Null # Topp
  /\ \A t \in Threads : NextOf(t) \in Threads
<1>1. \A t \in Threads : NextOf(t) \in Threads
  <2>1. SUFFICES ASSUME NEW t \in Threads PROVE (t + 1) % NumThreads \in 0 .. NumThreads - 1
    BY DEF NextOf, Threads
  <2>2. t + 1 \in Nat BY ThreadsAssumption DEF Threads
  <2>3. QED BY <2>2, ThreadsAssumption, DivMod
<1>2. QED BY <1>1, ThreadsAssumption, CellsAssumption DEF Threads, Cells, Null, Topp

\* Records that are built and changed keep their types.
LEMMA CallFacts ==
  /\ \A k \in {"none", "enq", "deq", "deq_bfs", "put", "dropped", "empty", "got"},
        v \in Nat, n \in Nat :
       [kind |-> k, val |-> v, tries |-> n] \in CallRecs
  /\ \A c \in CallRecs : c.val \in Nat /\ c.tries \in Nat
  /\ \A c \in CallRecs, v \in Nat :
       /\ [c EXCEPT !.val = v] \in CallRecs
       /\ [c EXCEPT !.val = v].val = v
       /\ [c EXCEPT !.val = v].kind = c.kind
  /\ \A c \in CallRecs, n \in Nat :
       /\ [c EXCEPT !.tries = n] \in CallRecs
       /\ [c EXCEPT !.tries = n].val = c.val
       /\ [c EXCEPT !.tries = n].kind = c.kind
       /\ [[c EXCEPT !.tries = n] EXCEPT !.val = 0] \in CallRecs
       /\ [[c EXCEPT !.tries = n] EXCEPT !.val = 0].val = 0
       /\ [[c EXCEPT !.tries = n] EXCEPT !.val = 0].kind = c.kind
  /\ NoCall \in CallRecs
BY DEF CallRecs, NoCall, Bottom

LEMMA OwnFacts ==
  /\ \A b \in BOOLEAN, n \in Nat : State(b, n) \in States
  /\ \A o \in OwnRecs : /\ o.req \in Threads \cup {Null, Topp} /\ o.state \in States
                        /\ o.val \in Values \cup {Bottom}
                        /\ o.state.low \in Nat /\ o.state.pending \in BOOLEAN
  /\ \A o \in OwnRecs, r \in Threads \cup {Null, Topp} :
       [o EXCEPT !.req = r] \in OwnRecs /\ [o EXCEPT !.req = r].req = r
  /\ \A o \in OwnRecs, s \in States :
       [o EXCEPT !.state = s] \in OwnRecs /\ [o EXCEPT !.state = s].req = o.req
  /\ \A o \in OwnRecs, v \in Values \cup {Bottom} :
       [o EXCEPT !.val = v] \in OwnRecs /\ [o EXCEPT !.val = v].req = o.req
  /\ NoOwn \in OwnRecs
BY DEF OwnRecs, NoOwn, State, States

LEMMA ScanFacts ==
  /\ \A b \in BOOLEAN, n \in Cells : /\ State(b, n) \in DeqStates
                                     /\ State(b, n).pending = b /\ State(b, n).low = n
  /\ \A s \in DeqStates : s.low \in Cells /\ s.pending \in BOOLEAN
  /\ \A s \in ScanRecs : /\ s.helpee \in Threads \cup {Null} /\ s.id \in Cells
                         /\ s.prior \in Cells /\ s.i \in Nat /\ s.state \in DeqStates
                         /\ s.deq \in Threads \cup {Null, Topp}
  /\ \A s \in ScanRecs, x \in DeqStates :
       LET n == [s EXCEPT !.state = x]
       IN n \in ScanRecs /\ n.helpee = s.helpee /\ n.state = x /\ n.i = s.i
  /\ \A s \in ScanRecs, x \in Nat :
       LET n == [s EXCEPT !.i = x]
       IN n \in ScanRecs /\ n.helpee = s.helpee /\ n.state = s.state /\ n.i = x
  /\ \A s \in ScanRecs, x \in Threads \cup {Null, Topp} :
       LET n == [s EXCEPT !.deq = x]
       IN n \in ScanRecs /\ n.helpee = s.helpee /\ n.state = s.state /\ n.i = s.i
  /\ \A s \in ScanRecs, x \in Cells, y \in Nat :
       LET n == [[s EXCEPT !.prior = x] EXCEPT !.i = y]
       IN n \in ScanRecs /\ n.helpee = s.helpee /\ n.state = s.state /\ n.i = y
  /\ \A s \in ScanRecs, x \in Cells :
       LET n == [[[s EXCEPT !.id = x] EXCEPT !.prior = x] EXCEPT !.i = x]
       IN n \in ScanRecs /\ n.helpee = s.helpee /\ n.state = s.state /\ n.i = x
  /\ \A r \in Threads :
       LET n == [NoScan EXCEPT !.helpee = r]
       IN n \in ScanRecs /\ n.helpee = r /\ n.state.pending = FALSE
  /\ NoScan \in ScanRecs /\ NoScan.helpee = Null /\ NoScan.state.pending = FALSE
BY Basics DEF ScanRecs, NoScan, State, DeqStates

\* What is known of one thread.
Known(t) ==
  /\ SharedTyped /\ ThreadInv(t) /\ CallInv(t) /\ CellInv(t)
  /\ call[t] \in CallRecs /\ call[t].val \in Nat /\ call[t].tries \in Nat
  /\ cid[t] \in Nat
  /\ own[t] \in OwnRecs /\ own[t].req \in Threads \cup {Null, Topp}
  /\ own[t].val \in Values \cup {Bottom}
  /\ own[t].state.low \in Nat
  /\ scan[t] \in ScanRecs /\ scan[t].helpee \in Threads \cup {Null}
  /\ scan[t].id \in Cells /\ scan[t].prior \in Cells /\ scan[t].i \in Nat
  /\ scan[t].state \in DeqStates /\ scan[t].state.low \in Cells

LEMMA LocalFacts == ASSUME Parts, NEW t \in Threads PROVE Known(t)
BY CallFacts, OwnFacts, ScanFacts DEF Parts, SharedInv, LocalsTyped, Known, ThreadInv

LEMMA StateFacts ==
  ASSUME NEW b \in BOOLEAN, NEW n \in Nat
  PROVE  /\ State(b, n) \in States /\ (n \in Cells => State(b, n) \in DeqStates)
         /\ State(b, n).pending = b /\ State(b, n).low = n
BY DEF State, States, DeqStates

-----------------------------------------------------------------------------
(***************************************************************************)
(* What the operators that end a step do to the thread                     *)
(***************************************************************************)

\* Thread t gets these values, each changed or not.
Becomes(t, p, c, n, o, s) ==
  /\ pc' = [pc EXCEPT ![t] = p] /\ call' = [call EXCEPT ![t] = c]
  /\ cid' = [cid EXCEPT ![t] = n] /\ own' = [own EXCEPT ![t] = o]
  /\ scan' = [scan EXCEPT ![t] = s]

LEMMA BecomesFacts ==
  ASSUME Parts, NEW t \in Threads, UNCHANGED sent,
         NEW p \in Pcs, NEW c \in CallRecs, NEW n \in Nat, NEW o \in OwnRecs,
         NEW s \in ScanRecs, Becomes(t, p, c, n, o, s)
  PROVE  /\ LocalsTyped' /\ Others(t)
         /\ pc'[t] = p /\ call'[t] = c /\ cid'[t] = n /\ own'[t] = o /\ scan'[t] = s
BY DEF Becomes, Parts, LocalsTyped, Others

\* What does not change is changed to itself.
LEMMA Same ==
  ASSUME Parts, NEW t \in Threads
  PROVE  /\ call = [call EXCEPT ![t] = call[t]] /\ cid = [cid EXCEPT ![t] = cid[t]]
         /\ own = [own EXCEPT ![t] = own[t]] /\ scan = [scan EXCEPT ![t] = scan[t]]
BY DEF Parts, LocalsTyped

LEMMA ReturnGood ==
  ASSUME Parts, NEW t \in Threads, UNCHANGED sent, EndsGrow,
         NEW kind \in {"put", "dropped", "empty", "got"}, NEW v \in Nat,
         kind = "got" => v \in Values, Return(t, kind, v)
  PROVE  LocalGood(t)
<1> DEFINE c == [kind |-> kind, val |-> v, tries |-> 0]
<1>1. c \in CallRecs /\ c.kind = kind /\ c.val = v BY DEF CallRecs
<1>2. call' = [call EXCEPT ![t] = c] BY DEF Return
<1> HIDE DEF c
<1>0. /\ NoOwn \in OwnRecs /\ NoScan \in ScanRecs
      /\ NoScan.helpee = Null /\ NoScan.state.pending = FALSE
  BY OwnFacts, ScanFacts
<1>3. LocalsTyped'
  BY <1>0, <1>1, <1>2 DEF Parts, LocalsTyped, Return, GoTo, Pcs
<1>4. Others(t) BY <1>2 DEF Parts, LocalsTyped, Return, GoTo, Others
<1>5. pc'[t] = "idle" /\ call'[t] = c /\ scan'[t] = NoScan
  BY <1>2 DEF Parts, LocalsTyped, Return, GoTo
<1>6. ThreadInv(t)'
  BY <1>0, <1>1, <1>5
     DEF ThreadInv, CallInv, CellInv, Scanning, EnqPcs, DeqPcs, HelpPcs, ReqPcs, ScanPcs,
         AskPcs
<1>7. QED BY <1>3, <1>4, <1>6 DEF LocalGood

LEMMA EnqFailsGood ==
  ASSUME Parts, NEW t \in Threads, UNCHANGED <<own, scan, sent>>, EndsGrow,
         pc[t] \in EnqPcs, cid'[t] \in Nat,
         cid' = [cid EXCEPT ![t] = cid'[t]], EnqFails(t)
  PROVE  LocalGood(t)
<1> DEFINE c == [call[t] EXCEPT !.tries = @ - 1]
<1>1. call[t] \in CallRecs /\ call[t].tries \in Nat /\ ThreadInv(t)
  BY LocalFacts DEF Parts, LocalsTyped, Known
<1>2. call[t].tries # 0 => c \in CallRecs /\ c.kind = call[t].kind /\ c.val = call[t].val
  <2>1. call[t].tries # 0 => call[t].tries - 1 \in Nat BY <1>1
  <2>2. QED BY <1>1, <2>1, CallFacts
<1>3. \/ pc' = [pc EXCEPT ![t] = "enq_val"] /\ call' = call
      \/ pc' = [pc EXCEPT ![t] = "enq_faa"] /\ call[t].tries # 0
         /\ call' = [call EXCEPT ![t] = c]
  BY DEF EnqFails, GoTo
<1> HIDE DEF c
<1>4. LocalsTyped' BY <1>2, <1>3 DEF Parts, LocalsTyped, Pcs, EnqPcs
<1>5. Others(t) BY <1>3 DEF Parts, LocalsTyped, Others
<1>6. /\ pc'[t] \in {"enq_val", "enq_faa"} /\ call'[t].kind = call[t].kind
      /\ call'[t].val = call[t].val /\ scan'[t] = scan[t]
  BY <1>2, <1>3 DEF Parts, LocalsTyped
<1>7. scan[t].state.low \in Nat /\ H \in Nat
  BY LocalFacts, Basics DEF SharedTyped, Known
<1>8. ThreadInv(t)'
  BY <1>1, <1>6, <1>7
     DEF ThreadInv, CallInv, CellInv, Scanning, EnqPcs, DeqPcs, HelpPcs, ReqPcs, ScanPcs,
         AskPcs, EndsGrow
<1>9. QED BY <1>4, <1>5, <1>8 DEF LocalGood

LEMMA DeqFailsGood ==
  ASSUME Parts, NEW t \in Threads, UNCHANGED <<cid, scan, sent>>, EndsGrow,
         ~Scanning(t), call[t].kind \in {"deq", "deq_bfs"},
         cid[t] \in Cells, cid[t] < H,
         own' = [own EXCEPT ![t] = own'[t]], own'[t] \in OwnRecs, DeqFails(t)
  PROVE  LocalGood(t)
<1> DEFINE c == [call[t] EXCEPT !.tries = @ - 1]
<1>1. call[t] \in CallRecs /\ call[t].tries \in Nat /\ ThreadInv(t)
  BY LocalFacts DEF Parts, LocalsTyped, Known
<1>2. call[t].tries # 0 => c \in CallRecs /\ c.kind = call[t].kind /\ c.val = call[t].val
  <2>1. call[t].tries # 0 => call[t].tries - 1 \in Nat BY <1>1
  <2>2. QED BY <1>1, <2>1, CallFacts
<1>3. \/ pc' = [pc EXCEPT ![t] = "bfs_t"] /\ call' = call
      \/ pc' = [pc EXCEPT ![t] = "slow_id"] /\ call' = call
      \/ pc' = [pc EXCEPT ![t] = "deq_faa"] /\ call[t].tries # 0
         /\ call' = [call EXCEPT ![t] = c]
  BY DEF DeqFails, GoTo
<1> HIDE DEF c
<1>4. LocalsTyped' BY <1>2, <1>3 DEF Parts, LocalsTyped, Pcs, DeqPcs
<1>5. Others(t) BY <1>3 DEF Parts, LocalsTyped, Others
<1>6. /\ pc'[t] \in {"bfs_t", "slow_id", "deq_faa"} /\ call'[t].kind = call[t].kind
      /\ call'[t].val = call[t].val /\ scan'[t] = scan[t] /\ cid'[t] = cid[t]
  BY <1>2, <1>3 DEF Parts, LocalsTyped
<1>7. scan[t].state.low \in Nat /\ cid[t] \in Nat /\ H \in Nat
  BY LocalFacts, Basics DEF SharedTyped, Known
<1>8. ThreadInv(t)'
  BY <1>1, <1>6, <1>7
     DEF ThreadInv, CallInv, CellInv, Scanning, EnqPcs, DeqPcs, HelpPcs, ReqPcs, ScanPcs,
         AskPcs, EndsGrow
<1>9. QED BY <1>4, <1>5, <1>8 DEF LocalGood

LEMMA HelpedGood ==
  ASSUME Parts, NEW t \in Threads, UNCHANGED sent, EndsGrow, pc[t] \in HelpPcs,
         NEW v \in Words \cup {Retry}, Helped(t, v)
  PROVE  LocalGood(t)
<1>1. /\ call[t] \in CallRecs /\ call[t].val \in Nat /\ ThreadInv(t)
      /\ scan[t].state.low \in Nat /\ cid[t] \in Nat /\ scan[t].i \in Nat /\ H \in Nat
  BY LocalFacts, Basics DEF Parts, LocalsTyped, SharedTyped, Known
<1>2. /\ call[t].kind \in {"deq", "deq_bfs"}
      /\ At(t) \in Cells /\ At(t) < H /\ At(t) \in Nat
      /\ Scanning(t) => \/ call[t].val \in Values
                        \/ scan[t].helpee = t /\ call[t].val = Bottom
      /\ scan[t].state.pending => scan[t].state.low < H
  BY <1>1, Basics DEF ThreadInv, CallInv, CellInv
<1>3. NoOwn \in OwnRecs BY OwnFacts
<1>4. CASE Scanning(t)
  <2>1. \E p \in {"scan_announce", "scan_seen", "scan_state"} : pc' = [pc EXCEPT ![t] = p]
    BY <1>4 DEF Helped, HelpedScan, GoTo
  <2>2. own' = [own EXCEPT ![t] = NoOwn] /\ UNCHANGED <<call, cid, scan>>
    BY <1>4 DEF Helped, HelpedScan
  <2>3. LocalsTyped' BY <1>3, <2>1, <2>2 DEF Parts, LocalsTyped, Pcs, ScanPcs
  <2>4. Others(t) BY <2>1, <2>2 DEF Parts, LocalsTyped, Others
  <2>5. pc'[t] \in {"scan_announce", "scan_seen", "scan_state"}
    BY <2>1 DEF Parts, LocalsTyped
  <2>6. At(t)' = At(t) BY <2>2 DEF At, Scanning
  <2>7. ThreadInv(t)'
    BY <1>1, <1>2, <1>4, <2>2, <2>5, <2>6
       DEF ThreadInv, CallInv, CellInv, Scanning, EnqPcs, DeqPcs, HelpPcs, ReqPcs,
           ScanPcs, AskPcs, EndsGrow
  <2>8. QED BY <2>3, <2>4, <2>7 DEF LocalGood
<1>5. CASE ~Scanning(t)
  <2>1. cid[t] \in Cells /\ cid[t] < H BY <1>2, <1>5 DEF At
  <2>2. CASE v = Empty
    <3>1. Return(t, "empty", Bottom)
      BY <1>5, <2>2 DEF Helped, HelpedFast, Empty, IsValue
    <3>2. Bottom \in Nat BY DEF Bottom
    <3>3. QED BY <3>1, <3>2, ReturnGood
  <2>3. CASE v # Empty /\ IsValue(v)
    <3> DEFINE c == [call[t] EXCEPT !.val = v]
    <3>1. v \in Values /\ v \in Nat
      <4>1. v \in Values \cup {0, -1, -2} /\ v > 0
        BY <2>3 DEF Words, IsValue, Bottom, Top, Retry
      <4>2. v \in Values BY <4>1
      <4>3. QED BY <4>2 DEF Values
    <3>2. c \in CallRecs /\ c.val = v /\ c.kind = call[t].kind
      BY <1>1, <3>1, CallFacts
    <3>3. /\ pc' = [pc EXCEPT ![t] = "deq_take"] /\ call' = [call EXCEPT ![t] = c]
          /\ own' = [own EXCEPT ![t] = NoOwn] /\ UNCHANGED <<cid, scan>>
      BY <1>5, <2>3 DEF Helped, HelpedFast, GoTo
    <3> HIDE DEF c
    <3>4. LocalsTyped' BY <1>3, <3>2, <3>3 DEF Parts, LocalsTyped, Pcs, DeqPcs
    <3>5. Others(t) BY <3>3 DEF Parts, LocalsTyped, Others
    <3>6. pc'[t] = "deq_take" /\ call'[t] = c BY <3>3 DEF Parts, LocalsTyped
    <3>7. ThreadInv(t)'
      BY <1>1, <1>2, <1>5, <2>1, <3>1, <3>2, <3>3, <3>6
         DEF ThreadInv, CallInv, CellInv, Scanning, EnqPcs, DeqPcs, HelpPcs, ReqPcs,
             ScanPcs, AskPcs, EndsGrow
    <3>8. QED BY <3>4, <3>5, <3>7 DEF LocalGood
  <2>4. CASE v # Empty /\ ~IsValue(v)
    <3>1. DeqFails(t) /\ own' = [own EXCEPT ![t] = NoOwn] /\ UNCHANGED <<cid, scan>>
      BY <1>5, <2>4 DEF Helped, HelpedFast, Empty, IsValue
    <3>2. own'[t] = NoOwn BY <3>1 DEF Parts, LocalsTyped
    <3>3. QED BY <1>2, <1>3, <1>5, <2>1, <3>1, <3>2, DeqFailsGood
  <2>5. QED BY <2>2, <2>3, <2>4
<1>6. QED BY <1>4, <1>5

LEMMA HelpWithGood ==
  ASSUME Parts, NEW t \in Threads, UNCHANGED <<call, cid, scan, sent>>, EndsGrow,
         pc[t] \in HelpPcs, NEW r \in Threads \cup {Topp}, HelpWith(t, r)
  PROVE  LocalGood(t)
<1> DEFINE o == [own[t] EXCEPT !.req = r]
<1>1. /\ own[t] \in OwnRecs /\ ThreadInv(t)
      /\ scan[t].state.low \in Nat /\ cid[t] \in Nat /\ scan[t].i \in Nat /\ H \in Nat
  BY LocalFacts, Basics DEF Parts, LocalsTyped, SharedTyped, Known
<1>2. o \in OwnRecs /\ o.req = r BY <1>1, OwnFacts
<1>3. /\ pc' = [pc EXCEPT ![t] = IF r = Topp THEN "help_end" ELSE "help_state"]
      /\ own' = [own EXCEPT ![t] = o]
  BY DEF HelpWith, GoTo
<1> HIDE DEF o
<1>4. LocalsTyped' BY <1>2, <1>3 DEF Parts, LocalsTyped, Pcs, HelpPcs, ReqPcs
<1>5. Others(t) BY <1>3 DEF Parts, LocalsTyped, Others
<1>6. pc'[t] = (IF r = Topp THEN "help_end" ELSE "help_state") /\ own'[t] = o
  BY <1>3 DEF Parts, LocalsTyped
<1>7. At(t)' = At(t) /\ At(t) \in Nat BY <1>1, Basics DEF At, Scanning, ThreadInv, CellInv
<1>8. ThreadInv(t)'
  BY <1>1, <1>2, <1>6, <1>7
     DEF ThreadInv, CallInv, CellInv, Scanning, EnqPcs, DeqPcs, HelpPcs, ReqPcs, ScanPcs,
         AskPcs, EndsGrow
<1>9. QED BY <1>4, <1>5, <1>8 DEF LocalGood

LEMMA DeqGotGood ==
  ASSUME Parts, NEW t \in Threads, UNCHANGED sent, EndsGrow,
         call[t].kind \in {"deq", "deq_bfs"}, NEW v \in Values, DeqGot(t, v)
  PROVE  LocalGood(t)
<1>1. v \in Nat BY DEF Values
<1>2. CASE call[t].kind = "deq_bfs"
  <2>1. Return(t, "got", v) BY <1>2 DEF DeqGot
  <2>2. QED BY <1>1, <2>1, ReturnGood
<1>3. CASE call[t].kind # "deq_bfs"
  <2> DEFINE c == [call[t] EXCEPT !.val = v]
             s == [NoScan EXCEPT !.helpee = deqPeer[t]]
  <2>1. call[t] \in CallRecs /\ deqPeer[t] \in Threads
    BY DEF Parts, LocalsTyped, SharedInv, SharedTyped
  <2>2. c \in CallRecs /\ c.val = v /\ c.kind = call[t].kind BY <1>1, <2>1, CallFacts
  <2>3. s \in ScanRecs /\ s.helpee = deqPeer[t] /\ s.state.pending = FALSE
    BY <2>1, ScanFacts
  <2>4. /\ pc' = [pc EXCEPT ![t] = "scan_start"] /\ call' = [call EXCEPT ![t] = c]
        /\ scan' = [scan EXCEPT ![t] = s] /\ UNCHANGED <<cid, own>>
    BY <1>3 DEF DeqGot, GoTo
  <2> HIDE DEF c, s
  <2>5. LocalsTyped' BY <2>2, <2>3, <2>4 DEF Parts, LocalsTyped, Pcs, ScanPcs
  <2>6. Others(t) BY <2>4 DEF Parts, LocalsTyped, Others
  <2>7. pc'[t] = "scan_start" /\ call'[t] = c /\ scan'[t] = s
    BY <2>4 DEF Parts, LocalsTyped
  <2>8. ThreadInv(t)'
    BY <2>1, <2>2, <2>3, <2>7, Basics
       DEF ThreadInv, CallInv, CellInv, Scanning, EnqPcs, DeqPcs, HelpPcs, ReqPcs,
           ScanPcs,
           AskPcs
  <2>9. QED BY <2>5, <2>6, <2>8 DEF LocalGood
<1>4. QED BY <1>2, <1>3

LEMMA ScanReturnGood ==
  ASSUME Parts, NEW t \in Threads, UNCHANGED sent, EndsGrow, pc[t] \in ScanPcs,
         ScanReturn(t)
  PROVE  LocalGood(t) /\ deqPeer' \in [Threads -> Threads]
<1>1. call[t].val \in Nat /\ deqPeer \in [Threads -> Threads] /\ ThreadInv(t)
  BY LocalFacts DEF SharedTyped, Known
<1>2. /\ call[t].kind \in {"deq", "deq_bfs"}
      /\ \/ call[t].val \in Values
         \/ scan[t].helpee = t /\ call[t].val = Bottom
  BY <1>1 DEF ThreadInv, CallInv
<1>3. CASE scan[t].helpee = t /\ call[t].val = Bottom
  <2>1. /\ pc' = [pc EXCEPT ![t] = "slow_result"] /\ scan' = [scan EXCEPT ![t] = NoScan]
        /\ UNCHANGED <<call, cid, own, deqPeer>>
    BY <1>3 DEF ScanReturn, GoTo
  <2>2. NoScan \in ScanRecs /\ NoScan.helpee = Null /\ NoScan.state.pending = FALSE
    BY ScanFacts
  <2>3. LocalsTyped' BY <2>1, <2>2 DEF Parts, LocalsTyped, Pcs, DeqPcs
  <2>4. Others(t) BY <2>1 DEF Parts, LocalsTyped, Others
  <2>5. pc'[t] = "slow_result" /\ scan'[t] = NoScan BY <2>1 DEF Parts, LocalsTyped
  <2>6. ThreadInv(t)'
    BY <1>1, <1>2, <2>1, <2>2, <2>5
       DEF ThreadInv, CallInv, CellInv, Scanning, EnqPcs, DeqPcs, HelpPcs, ReqPcs,
           ScanPcs,
           AskPcs
  <2>7. QED BY <1>1, <2>1, <2>3, <2>4, <2>6 DEF LocalGood
<1>4. CASE ~(scan[t].helpee = t /\ call[t].val = Bottom)
  <2>1. deqPeer' = [deqPeer EXCEPT ![t] = NextOf(@)] /\ Return(t, "got", call[t].val)
    BY <1>4 DEF ScanReturn
  <2>2. LocalGood(t) BY <1>1, <1>2, <1>4, <2>1, ReturnGood
  <2>3. deqPeer' \in [Threads -> Threads] BY <1>1, <2>1, Basics
  <2>4. QED BY <2>2, <2>3
<1>5. QED BY <1>3, <1>4

\* What arithmetic a step needs.
Ground(t) ==
  /\ ThreadInv(t) /\ CallInv(t) /\ CellInv(t)
  /\ T \in Nat /\ H \in Nat /\ T' \in Nat /\ H' \in Nat /\ T' >= T /\ H' >= H
  /\ cid[t] \in Nat /\ scan[t].i \in Nat /\ scan[t].state.low \in Nat

LEMMA GroundFacts == ASSUME Parts, NEW t \in Threads, EndsGrow PROVE Ground(t)
BY LocalFacts, Basics DEF Known, SharedTyped, EndsGrow, Ground

-----------------------------------------------------------------------------
(***************************************************************************)
(* The actions                                                             *)
(***************************************************************************)

\* A step that changes no more of shared memory than whom it helps next.
LEMMA QuietShared ==
  ASSUME Parts, UNCHANGED <<T, H, cells, enqReqs, deqReqs>>,
         enqPeer' \in [Threads -> Threads], deqPeer' \in [Threads -> Threads]
  PROVE  SharedInv' /\ EndsGrow
BY DEF Parts, SharedInv, SharedTyped, PublishedCovered, SpoiledCovered, EndsGrow, cells,
       enqReqs, deqReqs

\* One of the ends moves on.
LEMMA EndsShared ==
  ASSUME Parts, EndsGrow, UNCHANGED <<cells, enqReqs, deqReqs, enqPeer>>,
         deqPeer' \in [Threads -> Threads]
  PROVE  SharedInv'
<1>1. SharedTyped'
  BY DEF Parts, SharedInv, SharedTyped, EndsGrow, cells, enqReqs, deqReqs
<1>2. /\ T \in Nat /\ H \in Nat /\ T' \in Nat /\ H' \in Nat /\ T' >= T /\ H' >= H
      /\ PublishedCovered /\ SpoiledCovered /\ Cells \subseteq Nat
      /\ cellVal' = cellVal /\ cellDeq' = cellDeq
  BY Basics DEF Parts, SharedInv, SharedTyped, EndsGrow, cells
<1>3. PublishedCovered' BY <1>2 DEF PublishedCovered
<1>4. SpoiledCovered' BY <1>2 DEF SpoiledCovered
<1>5. \A r \in Threads : deqState'[r].pending => deqState'[r].low < H'
  <2>1. SUFFICES ASSUME NEW r \in Threads, deqState[r].pending PROVE deqState[r].low < H'
    BY DEF deqReqs
  <2>2. deqState[r].low \in Cells /\ deqState[r].low < H
    BY <2>1 DEF Parts, SharedInv, SharedTyped, DeqStates
  <2>3. deqState[r].low \in Nat BY <1>2, <2>2
  <2>4. QED BY <1>2, <2>2, <2>3
<1>6. QED BY <1>1, <1>3, <1>4, <1>5 DEF SharedInv

\* A word is written to a cell that the ends cover.
LEMMA ValShared ==
  ASSUME Parts, NEW c \in Cells, NEW v \in Words, IsValue(v) => c < T, v = Top => c < H,
         cellVal' = [cellVal EXCEPT ![c] = v],
         UNCHANGED <<T, H, cellEnq, cellDeq, enqReqs, deqReqs, enqPeer, deqPeer>>
  PROVE  SharedInv' /\ EndsGrow
<1>1. SharedTyped /\ PublishedCovered /\ SpoiledCovered BY DEF Parts, SharedInv
<1>2. SharedTyped' BY <1>1 DEF SharedTyped, enqReqs, deqReqs
<1>3. \A d \in Cells : cellVal'[d] = IF d = c THEN v ELSE cellVal[d]
  BY <1>1 DEF SharedTyped
<1>4. PublishedCovered' BY <1>1, <1>3 DEF PublishedCovered
<1>5. SpoiledCovered' BY <1>1, <1>3 DEF SpoiledCovered
<1>6. QED
  BY <1>1, <1>2, <1>4, <1>5
     DEF Parts, SharedInv, SharedTyped, EndsGrow, enqReqs, deqReqs

\* A cell is bound to a request of an enqueuer, or to none.
LEMMA EnqShared ==
  ASSUME Parts, NEW c \in Cells, NEW r \in Threads \cup {Null, Topp},
         cellEnq' = [cellEnq EXCEPT ![c] = r], enqPeer' \in [Threads -> Threads],
         UNCHANGED <<T, H, cellVal, cellDeq, enqReqs, deqReqs, deqPeer>>
  PROVE  SharedInv' /\ EndsGrow
<1>1. SharedTyped'
  BY DEF Parts, SharedInv, SharedTyped, enqReqs, deqReqs
<1>2. QED
  BY <1>1 DEF Parts, SharedInv, SharedTyped, PublishedCovered, SpoiledCovered, EndsGrow,
              enqReqs, deqReqs

\* A dequeuer takes a cell that H covers.
LEMMA DeqShared ==
  ASSUME Parts, NEW c \in Cells, c < H, NEW r \in Threads \cup {Null, Topp},
         cellDeq' = [cellDeq EXCEPT ![c] = r], deqPeer' \in [Threads -> Threads],
         UNCHANGED <<T, H, cellVal, cellEnq, enqReqs, deqReqs, enqPeer>>
  PROVE  SharedInv' /\ EndsGrow
<1>1. SharedTyped /\ PublishedCovered /\ SpoiledCovered BY DEF Parts, SharedInv
<1>2. SharedTyped' BY <1>1 DEF SharedTyped, enqReqs, deqReqs
<1>3. \A d \in Cells : cellDeq'[d] = IF d = c THEN r ELSE cellDeq[d]
  BY <1>1 DEF SharedTyped
<1>4. PublishedCovered' BY <1>1 DEF PublishedCovered
<1>5. SpoiledCovered' BY <1>1, <1>3 DEF SpoiledCovered
<1>6. QED
  BY <1>1, <1>2, <1>4, <1>5
     DEF Parts, SharedInv, SharedTyped, EndsGrow, enqReqs, deqReqs

\* A request of an enqueuer changes: neither end has to cover its cell.
LEMMA ReqShared ==
  ASSUME Parts, reqVal' \in [Threads -> Values \cup {Bottom}],
         reqState' \in [Threads -> States],
         UNCHANGED <<T, H, cells, deqReqs, enqPeer, deqPeer>>
  PROVE  SharedInv' /\ EndsGrow
<1>1. SharedTyped' BY DEF Parts, SharedInv, SharedTyped, cells, deqReqs
<1>2. QED
  BY <1>1 DEF Parts, SharedInv, SharedTyped, PublishedCovered, SpoiledCovered, EndsGrow,
              cells, deqReqs

\* A request of a dequeuer goes to a cell that H covers.
LEMMA DeqReqShared ==
  ASSUME Parts, NEW r \in Threads, NEW s \in DeqStates, s.pending => s.low < H,
         deqState' = [deqState EXCEPT ![r] = s] \/ deqState' = deqState,
         deqPeer' \in [Threads -> Threads],
         UNCHANGED <<T, H, cells, enqReqs, deqId, enqPeer>>
  PROVE  SharedInv' /\ EndsGrow
<1>1. SharedTyped BY DEF Parts, SharedInv
<1>2. SharedTyped' BY <1>1 DEF SharedTyped, cells, enqReqs
<1>3. \A u \in Threads : deqState'[u] = deqState[u] \/ deqState'[u] = s
  BY <1>1 DEF SharedTyped
<1>4. QED
  BY <1>2, <1>3 DEF Parts, SharedInv, SharedTyped, PublishedCovered, SpoiledCovered,
                    EndsGrow, cells, enqReqs

LEMMA EnqTicketGood ==
  ASSUME Parts, NEW t \in Threads, EnqTicket(t), UNCHANGED sent
  PROVE  SharedInv' /\ EndsGrow /\ LocalGood(t)
<1>1. Known(t) BY LocalFacts
<1>2. EndsGrow /\ UNCHANGED <<cells, enqReqs, deqReqs, enqPeer, deqPeer>>
  BY <1>1, Basics DEF EnqTicket, Known, SharedTyped, EndsGrow, peers
<1>3. deqPeer' \in [Threads -> Threads] BY <1>1, <1>2 DEF Known, SharedTyped
<1>4. SharedInv' /\ EndsGrow BY <1>2, <1>3, EndsShared
<1>5. /\ cid' = [cid EXCEPT ![t] = T] /\ cid'[t] = T /\ T \in Nat /\ T' = T + 1
      /\ UNCHANGED <<own, scan>> /\ pc[t] = "enq_faa" /\ pc[t] \in EnqPcs
  BY <1>1 DEF EnqTicket, Known, SharedTyped, Parts, LocalsTyped, EnqPcs
<1>6. CASE T \notin Cells
  <2>1. EnqFails(t) BY <1>6 DEF EnqTicket
  <2>2. cid' = [cid EXCEPT ![t] = cid'[t]] /\ cid'[t] \in Nat BY <1>5
  <2>3. QED BY <1>4, <1>5, <2>1, <2>2, EnqFailsGood
<1>7. CASE T \in Cells
  <2> DEFINE p == "enq_put"
  <2>1. Becomes(t, p, call[t], T, own[t], scan[t])
    BY <1>5, <1>7, Same DEF EnqTicket, Becomes, GoTo
  <2>2. p \in Pcs BY DEF Pcs, EnqPcs
  <2>3. /\ LocalsTyped' /\ Others(t)
        /\ pc'[t] = p /\ call'[t] = call[t] /\ cid'[t] = T /\ own'[t] = own[t]
        /\ scan'[t] = scan[t]
    BY <1>1, <1>5, <2>1, <2>2, BecomesFacts DEF Known
  <2>4. ThreadInv(t)'
    BY <1>4, <1>5, <1>7, <2>3, GroundFacts
       DEF Ground, ThreadInv, CallInv, CellInv, Scanning, EnqPcs, DeqPcs, HelpPcs,
           ReqPcs, ScanPcs, AskPcs
  <2>5. QED BY <1>4, <2>3, <2>4 DEF LocalGood
<1>8. QED BY <1>6, <1>7

LEMMA EnqPutGood ==
  ASSUME Parts, NEW t \in Threads, EnqPut(t), UNCHANGED sent
  PROVE  SharedInv' /\ EndsGrow /\ LocalGood(t)
<1>1. /\ cid[t] \in Cells /\ cid[t] < T /\ call[t].val \in Values
      /\ pc[t] \in EnqPcs /\ cid[t] \in Nat
  BY LocalFacts DEF EnqPut, Known, CellInv, CallInv, EnqPcs
<1>2. call[t].val \in Words /\ call[t].val # Top /\ call[t].val \in Nat
  BY <1>1 DEF Words, Values, Top
<1>3. CASE cellVal[cid[t]] = Bottom
  <2>1. /\ cellVal' = [cellVal EXCEPT ![cid[t]] = call[t].val]
        /\ Return(t, "put", call[t].val)
        /\ UNCHANGED <<T, H, cellEnq, cellDeq, enqReqs, deqReqs, enqPeer, deqPeer>>
    BY <1>3 DEF EnqPut, peers
  <2>2. SharedInv' /\ EndsGrow BY <1>1, <1>2, <2>1, ValShared
  <2>3. LocalGood(t) BY <1>2, <2>1, <2>2, ReturnGood
  <2>4. QED BY <2>2, <2>3
<1>4. CASE cellVal[cid[t]] # Bottom
  <2>1. /\ EnqFails(t) /\ UNCHANGED <<cid, own, scan>>
        /\ UNCHANGED <<T, H, cells, enqReqs, deqReqs, enqPeer, deqPeer>>
    BY <1>4 DEF EnqPut, peers, cells
  <2>2. SharedInv' /\ EndsGrow
    BY <2>1, QuietShared DEF Parts, SharedInv, SharedTyped
  <2>3. cid' = [cid EXCEPT ![t] = cid'[t]] /\ cid'[t] \in Nat BY <1>1, <2>1, Same
  <2>4. LocalGood(t) BY <1>1, <2>1, <2>2, <2>3, EnqFailsGood
  <2>5. QED BY <2>2, <2>4
<1>5. QED BY <1>3, <1>4

LEMMA EnqPublishValGood ==
  ASSUME Parts, NEW t \in Threads, EnqPublishVal(t), UNCHANGED sent
  PROVE  SharedInv' /\ EndsGrow /\ LocalGood(t)
<1> DEFINE p == "enq_state"
<1>1. Known(t) BY LocalFacts
<1>2. /\ reqVal' \in [Threads -> Values \cup {Bottom}]
      /\ reqState' \in [Threads -> States]
      /\ UNCHANGED <<T, H, cells, deqReqs, enqPeer, deqPeer>>
  BY <1>1, Basics
     DEF EnqPublishVal, Known, SharedTyped, CallInv, CellInv, ReqPcs, EnqPcs, peers
<1>3. SharedInv' /\ EndsGrow BY <1>2, ReqShared
<1>4. Becomes(t, p, call[t], cid[t], own[t], scan[t])
  BY Same DEF EnqPublishVal, GoTo, Becomes, locals
<1>5. p \in Pcs BY DEF Pcs, HelpPcs, ReqPcs, ScanPcs, AskPcs, EnqPcs, DeqPcs
<1> HIDE DEF p
<1>6. /\ LocalsTyped' /\ Others(t)
      /\ pc'[t] = p /\ call'[t] = call[t] /\ cid'[t] = cid[t] /\ own'[t] = own[t]
      /\ scan'[t] = scan[t]
  BY <1>1, <1>4, <1>5, BecomesFacts DEF Known
<1>7. ThreadInv(t)'
  BY <1>3, <1>5, <1>6, GroundFacts
     DEF EnqPublishVal, p, Ground, ThreadInv, CallInv, CellInv, At, Scanning, HelpPcs,
         ReqPcs, ScanPcs, AskPcs, EnqPcs, DeqPcs
<1>8. QED BY <1>3, <1>6, <1>7 DEF LocalGood

LEMMA EnqPublishStateGood ==
  ASSUME Parts, NEW t \in Threads, EnqPublishState(t), UNCHANGED sent
  PROVE  SharedInv' /\ EndsGrow /\ LocalGood(t)
<1> DEFINE p == "enq_slow_faa"
           o == [own[t] EXCEPT !.state = State(TRUE, cid[t])]
<1>1. Known(t) BY LocalFacts
<1>2. State(TRUE, cid[t]) \in States BY <1>1, StateFacts DEF Known
<1>3. /\ reqVal' \in [Threads -> Values \cup {Bottom}]
      /\ reqState' \in [Threads -> States]
      /\ UNCHANGED <<T, H, cells, deqReqs, enqPeer, deqPeer>>
  BY <1>1, <1>2, Basics
     DEF EnqPublishState, Known, SharedTyped, CallInv, CellInv, ReqPcs, EnqPcs, peers
<1>4. SharedInv' /\ EndsGrow BY <1>3, ReqShared
<1>5. Becomes(t, p, call[t], cid[t], o, scan[t])
  BY Same DEF EnqPublishState, GoTo, Becomes
<1>6. p \in Pcs BY DEF Pcs, HelpPcs, ReqPcs, ScanPcs, AskPcs, EnqPcs, DeqPcs
<1>7. o \in OwnRecs
  BY <1>1, Basics, OwnFacts, <1>2 DEF EnqPublishState, Known
<1> HIDE DEF p, o
<1>8. /\ LocalsTyped' /\ Others(t)
      /\ pc'[t] = p /\ call'[t] = call[t] /\ cid'[t] = cid[t] /\ own'[t] = o
      /\ scan'[t] = scan[t]
  BY <1>1, <1>5, <1>6, <1>7, BecomesFacts DEF Known
<1>9. ThreadInv(t)'
  BY <1>4, <1>6, <1>7, <1>8, GroundFacts
     DEF EnqPublishState, p, Ground, ThreadInv, CallInv, CellInv, At, Scanning, HelpPcs,
         ReqPcs, ScanPcs, AskPcs, EnqPcs, DeqPcs
<1>10. QED BY <1>4, <1>8, <1>9 DEF LocalGood

LEMMA EnqSlowTicketGood ==
  ASSUME Parts, NEW t \in Threads, EnqSlowTicket(t), UNCHANGED sent
  PROVE  SharedInv' /\ EndsGrow /\ LocalGood(t)
<1> DEFINE p == IF T \in Cells THEN "enq_bind" ELSE "enq_final"
           n == T
<1>1. Known(t) BY LocalFacts
<1>2. EndsGrow /\ UNCHANGED <<cells, enqReqs, deqReqs, enqPeer, deqPeer>>
  BY <1>1, Basics DEF EnqSlowTicket, Known, SharedTyped, EndsGrow, peers
<1>3. deqPeer' \in [Threads -> Threads] BY <1>1, <1>2 DEF Known, SharedTyped
<1>4. SharedInv' /\ EndsGrow BY <1>2, <1>3, EndsShared
<1>5. Becomes(t, p, call[t], n, own[t], scan[t])
  BY Same DEF EnqSlowTicket, GoTo, Becomes
<1>6. p \in Pcs BY DEF Pcs, HelpPcs, ReqPcs, ScanPcs, AskPcs, EnqPcs, DeqPcs
<1>7. n \in Nat
  BY <1>1, Basics DEF EnqSlowTicket, Known, SharedTyped
<1> HIDE DEF p, n
<1>8. /\ LocalsTyped' /\ Others(t)
      /\ pc'[t] = p /\ call'[t] = call[t] /\ cid'[t] = n /\ own'[t] = own[t]
      /\ scan'[t] = scan[t]
  BY <1>1, <1>5, <1>6, <1>7, BecomesFacts DEF Known
<1>9. ThreadInv(t)'
  BY <1>4, <1>6, <1>7, <1>8, GroundFacts
     DEF EnqSlowTicket, p, n, Ground, ThreadInv, CallInv, CellInv, At, Scanning, HelpPcs,
         ReqPcs, ScanPcs, AskPcs, EnqPcs, DeqPcs
<1>10. QED BY <1>4, <1>8, <1>9 DEF LocalGood

LEMMA EnqBindGood ==
  ASSUME Parts, NEW t \in Threads, EnqBind(t), UNCHANGED sent
  PROVE  SharedInv' /\ EndsGrow /\ LocalGood(t)
<1> DEFINE p == IF cellEnq[cid[t]] = Null THEN "enq_peek" ELSE "enq_pending"
<1>1. Known(t) BY LocalFacts
<1>2. SharedInv' /\ EndsGrow
  <2>1. CASE cellEnq[cid[t]] = Null
    <3>1. /\ cid[t] \in Cells /\ enqPeer' \in [Threads -> Threads]
          /\ t \in Threads \cup {Null, Topp} /\ cellEnq' = [cellEnq EXCEPT ![cid[t]] = t]
          /\ UNCHANGED <<T, H, cellVal, cellDeq, enqReqs, deqReqs, enqPeer, deqPeer>>
      BY <1>1, <2>1 DEF EnqBind, Known, SharedTyped, CellInv, peers
    <3>2. QED BY <3>1, EnqShared
  <2>2. CASE cellEnq[cid[t]] # Null
    <3>1. /\ UNCHANGED <<T, H, cells, enqReqs, deqReqs>>
          /\ enqPeer' \in [Threads -> Threads] /\ deqPeer' \in [Threads -> Threads]
      BY <1>1, <2>2 DEF EnqBind, Known, SharedTyped, peers, cells
    <3>2. QED BY <3>1, QuietShared
  <2>3. QED BY <2>1, <2>2
<1>3. Becomes(t, p, call[t], cid[t], own[t], scan[t])
  BY Same DEF EnqBind, GoTo, Becomes, locals
<1>4. p \in Pcs BY DEF Pcs, HelpPcs, ReqPcs, ScanPcs, AskPcs, EnqPcs, DeqPcs
<1> HIDE DEF p
<1>5. /\ LocalsTyped' /\ Others(t)
      /\ pc'[t] = p /\ call'[t] = call[t] /\ cid'[t] = cid[t] /\ own'[t] = own[t]
      /\ scan'[t] = scan[t]
  BY <1>1, <1>3, <1>4, BecomesFacts DEF Known
<1>6. ThreadInv(t)'
  BY <1>2, <1>4, <1>5, GroundFacts
     DEF EnqBind, p, Ground, ThreadInv, CallInv, CellInv, At, Scanning, HelpPcs, ReqPcs,
         ScanPcs, AskPcs, EnqPcs, DeqPcs
<1>7. QED BY <1>2, <1>5, <1>6 DEF LocalGood

LEMMA EnqPeekGood ==
  ASSUME Parts, NEW t \in Threads, EnqPeek(t), UNCHANGED sent
  PROVE  SharedInv' /\ EndsGrow /\ LocalGood(t)
<1> DEFINE p == IF IsValue(cellVal[cid[t]]) THEN "enq_pending" ELSE "enq_claim"
<1>1. Known(t) BY LocalFacts
<1>2. SharedInv' /\ EndsGrow
  BY <1>1, QuietShared DEF EnqPeek, Known, SharedTyped, peers
<1>3. Becomes(t, p, call[t], cid[t], own[t], scan[t])
  BY Same DEF EnqPeek, GoTo, Becomes, locals
<1>4. p \in Pcs BY DEF Pcs, HelpPcs, ReqPcs, ScanPcs, AskPcs, EnqPcs, DeqPcs
<1> HIDE DEF p
<1>5. /\ LocalsTyped' /\ Others(t)
      /\ pc'[t] = p /\ call'[t] = call[t] /\ cid'[t] = cid[t] /\ own'[t] = own[t]
      /\ scan'[t] = scan[t]
  BY <1>1, <1>3, <1>4, BecomesFacts DEF Known
<1>6. ThreadInv(t)'
  BY <1>2, <1>4, <1>5, GroundFacts
     DEF EnqPeek, p, Ground, ThreadInv, CallInv, CellInv, At, Scanning, HelpPcs, ReqPcs,
         ScanPcs, AskPcs, EnqPcs, DeqPcs
<1>7. QED BY <1>2, <1>5, <1>6 DEF LocalGood

LEMMA EnqClaimGood ==
  ASSUME Parts, NEW t \in Threads, EnqClaim(t), UNCHANGED sent
  PROVE  SharedInv' /\ EndsGrow /\ LocalGood(t)
<1> DEFINE p == "enq_final"
<1>1. Known(t) BY LocalFacts
<1>2. State(FALSE, cid[t]) \in States BY <1>1, StateFacts DEF Known
<1>3. /\ reqVal' \in [Threads -> Values \cup {Bottom}]
      /\ reqState' \in [Threads -> States]
      /\ UNCHANGED <<T, H, cells, deqReqs, enqPeer, deqPeer>>
  BY <1>1, <1>2, Basics
     DEF EnqClaim, Known, SharedTyped, CallInv, CellInv, ReqPcs, EnqPcs, peers, ClaimFor
<1>4. SharedInv' /\ EndsGrow BY <1>3, ReqShared
<1>5. Becomes(t, p, call[t], cid[t], own[t], scan[t])
  BY Same DEF EnqClaim, GoTo, Becomes, locals
<1>6. p \in Pcs BY DEF Pcs, HelpPcs, ReqPcs, ScanPcs, AskPcs, EnqPcs, DeqPcs
<1> HIDE DEF p
<1>7. /\ LocalsTyped' /\ Others(t)
      /\ pc'[t] = p /\ call'[t] = call[t] /\ cid'[t] = cid[t] /\ own'[t] = own[t]
      /\ scan'[t] = scan[t]
  BY <1>1, <1>5, <1>6, BecomesFacts DEF Known
<1>8. ThreadInv(t)'
  BY <1>4, <1>6, <1>7, GroundFacts
     DEF EnqClaim, p, Ground, ThreadInv, CallInv, CellInv, At, Scanning, HelpPcs, ReqPcs,
         ScanPcs, AskPcs, EnqPcs, DeqPcs
<1>9. QED BY <1>4, <1>7, <1>8 DEF LocalGood

LEMMA EnqPendingGood ==
  ASSUME Parts, NEW t \in Threads, EnqPending(t), UNCHANGED sent
  PROVE  SharedInv' /\ EndsGrow /\ LocalGood(t)
<1> DEFINE p == IF reqState[t].pending THEN "enq_slow_faa" ELSE "enq_final"
<1>1. Known(t) BY LocalFacts
<1>2. SharedInv' /\ EndsGrow
  BY <1>1, QuietShared DEF EnqPending, Known, SharedTyped, peers
<1>3. Becomes(t, p, call[t], cid[t], own[t], scan[t])
  BY Same DEF EnqPending, GoTo, Becomes, locals
<1>4. p \in Pcs BY DEF Pcs, HelpPcs, ReqPcs, ScanPcs, AskPcs, EnqPcs, DeqPcs
<1> HIDE DEF p
<1>5. /\ LocalsTyped' /\ Others(t)
      /\ pc'[t] = p /\ call'[t] = call[t] /\ cid'[t] = cid[t] /\ own'[t] = own[t]
      /\ scan'[t] = scan[t]
  BY <1>1, <1>3, <1>4, BecomesFacts DEF Known
<1>6. ThreadInv(t)'
  BY <1>2, <1>4, <1>5, GroundFacts
     DEF EnqPending, p, Ground, ThreadInv, CallInv, CellInv, At, Scanning, HelpPcs,
         ReqPcs, ScanPcs, AskPcs, EnqPcs, DeqPcs
<1>7. QED BY <1>2, <1>5, <1>6 DEF LocalGood

LEMMA EnqFinalGood ==
  ASSUME Parts, NEW t \in Threads, EnqFinal(t), UNCHANGED sent
  PROVE  SharedInv' /\ EndsGrow /\ LocalGood(t)
<1>1. Known(t) BY LocalFacts
<1>2. SharedInv' /\ EndsGrow
  BY <1>1, QuietShared DEF EnqFinal, Known, SharedTyped, peers
<1>3. CASE reqState[t].low \notin Cells
  <2>1. Return(t, "dropped", call[t].val) /\ call[t].val \in Nat
    BY <1>1, <1>3 DEF EnqFinal, Known
  <2>2. QED BY <1>2, <2>1, ReturnGood
<1>4. CASE reqState[t].low \in Cells
  <2> DEFINE p == "enq_dest"
             n == reqState[t].low
  <2>1. Becomes(t, p, call[t], n, own[t], scan[t])
    BY <1>4, Same DEF EnqFinal, Becomes, GoTo
  <2>2. p \in Pcs /\ n \in Cells /\ n \in Nat BY <1>4, Basics DEF Pcs, EnqPcs
  <2>3. pc[t] = "enq_final" BY DEF EnqFinal
  <2> HIDE DEF n
  <2>4. /\ LocalsTyped' /\ Others(t)
        /\ pc'[t] = p /\ call'[t] = call[t] /\ cid'[t] = n /\ own'[t] = own[t]
        /\ scan'[t] = scan[t]
    BY <1>1, <2>1, <2>2, BecomesFacts DEF Known
  <2>5. ThreadInv(t)'
    BY <1>2, <2>2, <2>3, <2>4, GroundFacts
       DEF Ground, ThreadInv, CallInv, CellInv, Scanning, EnqPcs, DeqPcs, HelpPcs,
           ReqPcs, ScanPcs, AskPcs
  <2>6. QED BY <1>2, <2>4, <2>5 DEF LocalGood
<1>5. QED BY <1>3, <1>4

LEMMA EnqDestGood ==
  ASSUME Parts, NEW t \in Threads, EnqDest(t), UNCHANGED sent
  PROVE  SharedInv' /\ EndsGrow /\ LocalGood(t)
<1>1. Known(t) BY LocalFacts
<1>2. SharedInv' /\ EndsGrow
  BY <1>1, QuietShared DEF EnqDest, Known, SharedTyped, peers
<1>3. CASE cellVal[cid[t]] # Top
  <2>1. Return(t, "put", call[t].val) /\ call[t].val \in Nat
    BY <1>1, <1>3 DEF EnqDest, Known
  <2>2. QED BY <1>2, <2>1, ReturnGood
<1>4. CASE cellVal[cid[t]] = Top
  <2> DEFINE p == "enq_cover"
  <2>1. Becomes(t, p, call[t], cid[t], own[t], scan[t])
    BY <1>4, Same DEF EnqDest, Becomes, GoTo, locals
  <2>2. p \in Pcs /\ pc[t] = "enq_dest" BY DEF Pcs, EnqPcs, EnqDest
  <2>3. /\ LocalsTyped' /\ Others(t)
        /\ pc'[t] = p /\ call'[t] = call[t] /\ cid'[t] = cid[t] /\ own'[t] = own[t]
        /\ scan'[t] = scan[t]
    BY <1>1, <2>1, <2>2, BecomesFacts DEF Known
  <2>4. ThreadInv(t)'
    BY <1>2, <2>2, <2>3, GroundFacts
       DEF Ground, ThreadInv, CallInv, CellInv, Scanning, EnqPcs, DeqPcs, HelpPcs,
           ReqPcs, ScanPcs, AskPcs
  <2>5. QED BY <1>2, <2>3, <2>4 DEF LocalGood
<1>5. QED BY <1>3, <1>4

LEMMA EnqCoverGood ==
  ASSUME Parts, NEW t \in Threads, EnqCover(t), UNCHANGED sent
  PROVE  SharedInv' /\ EndsGrow /\ LocalGood(t)
<1> DEFINE p == "enq_store"
<1>1. Known(t) BY LocalFacts
<1>2. EndsGrow /\ UNCHANGED <<cells, enqReqs, deqReqs, enqPeer, deqPeer>>
  BY <1>1, Basics DEF EnqCover, Known, SharedTyped, EndsGrow, peers, Larger, CellInv
<1>3. deqPeer' \in [Threads -> Threads] BY <1>1, <1>2 DEF Known, SharedTyped
<1>4. SharedInv' /\ EndsGrow BY <1>2, <1>3, EndsShared
<1>5. Becomes(t, p, call[t], cid[t], own[t], scan[t])
  BY Same DEF EnqCover, GoTo, Becomes, locals
<1>6. p \in Pcs BY DEF Pcs, HelpPcs, ReqPcs, ScanPcs, AskPcs, EnqPcs, DeqPcs
<1> HIDE DEF p
<1>7. /\ LocalsTyped' /\ Others(t)
      /\ pc'[t] = p /\ call'[t] = call[t] /\ cid'[t] = cid[t] /\ own'[t] = own[t]
      /\ scan'[t] = scan[t]
  BY <1>1, <1>5, <1>6, BecomesFacts DEF Known
<1>8. ThreadInv(t)'
  BY <1>4, <1>6, <1>7, GroundFacts
     DEF EnqCover, p, Larger, Ground, ThreadInv, CallInv, CellInv, At, Scanning, HelpPcs,
         ReqPcs, ScanPcs, AskPcs, EnqPcs, DeqPcs
<1>9. QED BY <1>4, <1>7, <1>8 DEF LocalGood

LEMMA EnqStoreGood ==
  ASSUME Parts, NEW t \in Threads, EnqStore(t), UNCHANGED sent
  PROVE  SharedInv' /\ EndsGrow /\ LocalGood(t)
<1>1. cid[t] \in Cells /\ cid[t] < T /\ call[t].val \in Values
  BY LocalFacts DEF EnqStore, Known, CellInv, CallInv, EnqPcs
<1>2. call[t].val \in Words /\ call[t].val # Top /\ call[t].val \in Nat
  BY <1>1 DEF Words, Values, Top
<1>3. /\ cellVal' = [cellVal EXCEPT ![cid[t]] = call[t].val]
      /\ Return(t, "put", call[t].val)
      /\ UNCHANGED <<T, H, cellEnq, cellDeq, enqReqs, deqReqs, enqPeer, deqPeer>>
  BY DEF EnqStore, peers
<1>4. SharedInv' /\ EndsGrow BY <1>1, <1>2, <1>3, ValShared
<1>5. LocalGood(t) BY <1>2, <1>3, <1>4, ReturnGood
<1>6. QED BY <1>4, <1>5

LEMMA HelpTopGood ==
  ASSUME Parts, NEW t \in Threads, HelpTop(t), UNCHANGED sent
  PROVE  SharedInv' /\ EndsGrow /\ LocalGood(t)
<1>1. Known(t) BY LocalFacts
<1>2. /\ At(t) \in Cells /\ At(t) < H /\ pc[t] = "help_top" /\ pc[t] \in HelpPcs
      /\ cellVal[At(t)] \in Words /\ cellVal[At(t)] \in Words \cup {Retry}
  BY <1>1 DEF HelpTop, Known, CellInv, HelpPcs, SharedTyped
<1>3. CASE IsValue(cellVal[At(t)])
  <2>1. /\ Helped(t, cellVal[At(t)])
        /\ UNCHANGED <<T, H, cells, enqReqs, deqReqs, enqPeer, deqPeer>>
    BY <1>3 DEF HelpTop, cells, peers
  <2>2. SharedInv' /\ EndsGrow
    BY <2>1, QuietShared DEF Parts, SharedInv, SharedTyped
  <2>3. LocalGood(t) BY <1>2, <2>1, <2>2, HelpedGood
  <2>4. QED BY <2>2, <2>3
<1>4. CASE ~IsValue(cellVal[At(t)])
  <2> DEFINE p == "help_enq"
  <2>1. /\ cellVal' = [cellVal EXCEPT ![At(t)] = Top]
        /\ UNCHANGED <<T, H, cellEnq, cellDeq, enqReqs, deqReqs, enqPeer, deqPeer>>
    BY <1>4 DEF HelpTop, peers
  <2>2. Top \in Words /\ ~IsValue(Top) BY DEF Words, IsValue, Top
  <2>3. SharedInv' /\ EndsGrow BY <1>2, <2>1, <2>2, ValShared
  <2>4. Becomes(t, p, call[t], cid[t], own[t], scan[t])
    BY <1>4, Same DEF HelpTop, Becomes, GoTo, locals
  <2>5. p \in Pcs BY DEF Pcs, HelpPcs
  <2>6. /\ LocalsTyped' /\ Others(t)
        /\ pc'[t] = p /\ call'[t] = call[t] /\ cid'[t] = cid[t] /\ own'[t] = own[t]
        /\ scan'[t] = scan[t]
    BY <1>1, <2>4, <2>5, BecomesFacts DEF Known
  <2>7. At(t)' = At(t) BY <2>6 DEF At, Scanning
  <2>8. ThreadInv(t)'
    BY <1>1, <1>2, <2>1, <2>6, <2>7
       DEF Known, SharedTyped, ThreadInv, CallInv, CellInv, Scanning, EnqPcs,
           DeqPcs, HelpPcs, ReqPcs, ScanPcs, AskPcs
  <2>9. QED BY <2>3, <2>6, <2>8 DEF LocalGood
<1>5. QED BY <1>3, <1>4

\* A step of help_enq that only moves on.
LEMMA HelpMoves ==
  ASSUME Parts, NEW t \in Threads, UNCHANGED <<locals, sent>>, EndsGrow,
         pc[t] \in HelpPcs, NEW p \in {"help_peer", "help_topp", "help_end"},
         pc' = [pc EXCEPT ![t] = p]
  PROVE  LocalGood(t)
<1>1. Known(t) BY LocalFacts
<1>2. Becomes(t, p, call[t], cid[t], own[t], scan[t])
  BY Same DEF Becomes, locals
<1>3. p \in Pcs BY DEF Pcs, HelpPcs
<1>4. /\ LocalsTyped' /\ Others(t)
      /\ pc'[t] = p /\ call'[t] = call[t] /\ cid'[t] = cid[t] /\ own'[t] = own[t]
      /\ scan'[t] = scan[t]
  BY <1>1, <1>2, <1>3, BecomesFacts DEF Known
<1>5. At(t)' = At(t) BY <1>4 DEF At, Scanning
<1>6. At(t) \in Nat BY GroundFacts DEF Ground, At
<1>7. ThreadInv(t)'
  BY <1>4, <1>5, <1>6, GroundFacts
     DEF Ground, ThreadInv, CallInv, CellInv, At, Scanning, EnqPcs, DeqPcs, HelpPcs,
         ReqPcs, ScanPcs, AskPcs
<1>8. QED BY <1>4, <1>7 DEF LocalGood

LEMMA HelpEnqGood ==
  ASSUME Parts, NEW t \in Threads, HelpEnq(t), UNCHANGED sent
  PROVE  SharedInv' /\ EndsGrow /\ LocalGood(t)
<1>1. Known(t) BY LocalFacts
<1>2. SharedInv' /\ EndsGrow
  BY <1>1, QuietShared DEF HelpEnq, Known, SharedTyped, peers
<1>3. /\ At(t) \in Cells /\ pc[t] \in HelpPcs
      /\ cellEnq[At(t)] \in Threads \cup {Null, Topp}
  BY <1>1 DEF HelpEnq, Known, CellInv, HelpPcs, SharedTyped
<1>4. CASE cellEnq[At(t)] = Null
  <2>1. UNCHANGED locals /\ pc' = [pc EXCEPT ![t] = "help_peer"]
    BY <1>4 DEF HelpEnq, GoTo, locals
  <2>2. QED BY <1>2, <1>3, <2>1, HelpMoves
<1>5. CASE cellEnq[At(t)] # Null
  <2>1. HelpWith(t, cellEnq[At(t)]) /\ UNCHANGED <<call, cid, scan>>
    BY <1>5 DEF HelpEnq
  <2>2. cellEnq[At(t)] \in Threads \cup {Topp} BY <1>3, <1>5
  <2>3. QED BY <1>2, <1>3, <2>1, <2>2, HelpWithGood
<1>6. QED BY <1>4, <1>5

LEMMA HelpPeerGood ==
  ASSUME Parts, NEW t \in Threads, HelpPeer(t), UNCHANGED sent
  PROVE  SharedInv' /\ EndsGrow /\ LocalGood(t)
<1> DEFINE q == enqPeer[t]
           st == reqState[q]
           o == [own[t] EXCEPT !.state = st]
<1>1. Known(t) BY LocalFacts
<1>2. q \in Threads /\ st \in States /\ NextOf(q) \in Threads
  BY <1>1, Basics DEF Known, SharedTyped
<1>3. /\ UNCHANGED <<T, H, cells, enqReqs, deqReqs, call, cid, scan>> /\ pc[t] = "help_peer"
      /\ deqPeer' = deqPeer /\ enqPeer' \in [Threads -> Threads]
  BY <1>1, <1>2 DEF HelpPeer, Known, SharedTyped
<1>4. deqPeer' \in [Threads -> Threads] BY <1>1, <1>3 DEF Known, SharedTyped
<1>5. SharedInv' /\ EndsGrow BY <1>3, <1>4, QuietShared
<1>6. \/ UNCHANGED <<pc, own>>
      \/ pc' = [pc EXCEPT ![t] = "help_bind"] /\ own' = [own EXCEPT ![t] = o]
      \/ pc' = [pc EXCEPT ![t] = "help_topp"] /\ UNCHANGED own
  BY DEF HelpPeer, GoTo
<1>7. o \in OwnRecs BY <1>1, <1>2, OwnFacts DEF Known
<1> HIDE DEF o
<1>8. CASE UNCHANGED <<pc, own>>
  <2>1. LocalsTyped' /\ Others(t) BY <1>3, <1>8 DEF Parts, LocalsTyped, Others
  <2>2. ThreadInv(t)'
    BY <1>3, <1>5, <1>8, GroundFacts
       DEF Ground, ThreadInv, CallInv, CellInv, At, Scanning, EnqPcs, DeqPcs, HelpPcs,
           ReqPcs, ScanPcs, AskPcs
  <2>3. QED BY <1>5, <2>1, <2>2 DEF LocalGood
<1>9. CASE pc' = [pc EXCEPT ![t] = "help_topp"] /\ UNCHANGED own
  BY <1>3, <1>5, <1>9, HelpMoves DEF locals, HelpPcs
<1>10. CASE pc' = [pc EXCEPT ![t] = "help_bind"] /\ own' = [own EXCEPT ![t] = o]
  <2>1. Becomes(t, "help_bind", call[t], cid[t], o, scan[t])
    BY <1>3, <1>10, Same DEF Becomes
  <2>2. "help_bind" \in Pcs BY DEF Pcs, HelpPcs
  <2>3. /\ LocalsTyped' /\ Others(t)
        /\ pc'[t] = "help_bind" /\ call'[t] = call[t] /\ cid'[t] = cid[t] /\ own'[t] = o
        /\ scan'[t] = scan[t]
    BY <1>1, <1>7, <2>1, <2>2, BecomesFacts DEF Known
  <2>4. ThreadInv(t)'
    BY <1>3, <1>5, <2>3, GroundFacts
       DEF Ground, ThreadInv, CallInv, CellInv, At, Scanning, EnqPcs, DeqPcs, HelpPcs,
           ReqPcs, ScanPcs, AskPcs
  <2>5. QED BY <1>5, <2>3, <2>4 DEF LocalGood
<1>11. QED BY <1>6, <1>8, <1>9, <1>10

LEMMA HelpBindGood ==
  ASSUME Parts, NEW t \in Threads, HelpBind(t), UNCHANGED sent
  PROVE  SharedInv' /\ EndsGrow /\ LocalGood(t)
<1> DEFINE q == enqPeer[t]
           prev == cellEnq[At(t)]
<1>1. Known(t) BY LocalFacts
<1>2. /\ At(t) \in Cells /\ pc[t] \in HelpPcs /\ q \in Threads /\ NextOf(q) \in Threads
      /\ prev \in Threads \cup {Null, Topp} /\ enqPeer \in [Threads -> Threads]
      /\ deqPeer \in [Threads -> Threads]
  BY <1>1, Basics DEF HelpBind, Known, CellInv, SharedTyped, HelpPcs
<1>3. UNCHANGED <<T, H, cellVal, cellDeq, enqReqs, deqReqs, deqPeer, call, cid, scan>>
  BY DEF HelpBind
<1>4. CASE prev \in {Null, q}
  <2>1. /\ cellEnq' = [cellEnq EXCEPT ![At(t)] = q] /\ HelpWith(t, q)
        /\ enqPeer' \in [Threads -> Threads]
    BY <1>2, <1>4 DEF HelpBind
  <2>2. SharedInv' /\ EndsGrow BY <1>2, <1>3, <2>1, EnqShared
  <2>3. LocalGood(t) BY <1>2, <1>3, <2>1, <2>2, HelpWithGood
  <2>4. QED BY <2>2, <2>3
<1>5. CASE prev \notin {Null, q}
  <2>1. UNCHANGED <<cellEnq, enqPeer>> /\ HelpWith(t, prev) /\ prev \in Threads \cup {Topp}
    BY <1>2, <1>5 DEF HelpBind
  <2>2. SharedInv' /\ EndsGrow BY <1>2, <1>3, <2>1, QuietShared DEF cells
  <2>3. LocalGood(t) BY <1>2, <1>3, <2>1, <2>2, HelpWithGood
  <2>4. QED BY <2>2, <2>3
<1>6. QED BY <1>4, <1>5

LEMMA HelpToppGood ==
  ASSUME Parts, NEW t \in Threads, HelpTopp(t), UNCHANGED sent
  PROVE  SharedInv' /\ EndsGrow /\ LocalGood(t)
<1> DEFINE prev == cellEnq[At(t)]
<1>1. Known(t) BY LocalFacts
<1>2. /\ At(t) \in Cells /\ pc[t] \in HelpPcs
      /\ prev \in Threads \cup {Null, Topp} /\ enqPeer \in [Threads -> Threads]
      /\ deqPeer \in [Threads -> Threads]
  BY <1>1 DEF HelpTopp, Known, CellInv, SharedTyped, HelpPcs
<1>3. /\ UNCHANGED <<T, H, cellVal, cellDeq, enqReqs, deqReqs, enqPeer, deqPeer>>
      /\ UNCHANGED <<call, cid, scan>>
  BY DEF HelpTopp, peers
<1>4. CASE prev = Null
  <2>1. cellEnq' = [cellEnq EXCEPT ![At(t)] = Topp] /\ HelpWith(t, Topp)
    BY <1>4 DEF HelpTopp
  <2>2. SharedInv' /\ EndsGrow BY <1>2, <1>3, <2>1, EnqShared
  <2>3. LocalGood(t) BY <1>2, <1>3, <2>1, <2>2, HelpWithGood
  <2>4. QED BY <2>2, <2>3
<1>5. CASE prev # Null
  <2>1. UNCHANGED cellEnq /\ HelpWith(t, prev) /\ prev \in Threads \cup {Topp}
    BY <1>2, <1>5 DEF HelpTopp
  <2>2. SharedInv' /\ EndsGrow BY <1>2, <1>3, <2>1, QuietShared DEF cells
  <2>3. LocalGood(t) BY <1>2, <1>3, <2>1, <2>2, HelpWithGood
  <2>4. QED BY <2>2, <2>3
<1>6. QED BY <1>4, <1>5

LEMMA HelpEndGood ==
  ASSUME Parts, NEW t \in Threads, HelpEnd(t), UNCHANGED sent
  PROVE  SharedInv' /\ EndsGrow /\ LocalGood(t)
<1>1. Known(t) BY LocalFacts
<1>2. SharedInv' /\ EndsGrow
  BY <1>1, QuietShared DEF HelpEnd, Known, SharedTyped, peers
<1> DEFINE v == IF T <= At(t) THEN Empty ELSE Retry
<1>3. Helped(t, v) /\ v \in Words \cup {Retry} /\ pc[t] \in HelpPcs
  BY DEF HelpEnd, Words, Empty, Bottom, HelpPcs
<1> HIDE DEF v
<1>4. QED BY <1>2, <1>3, HelpedGood

LEMMA HelpStateGood ==
  ASSUME Parts, NEW t \in Threads, HelpState(t), UNCHANGED sent
  PROVE  SharedInv' /\ EndsGrow /\ LocalGood(t)
<1> DEFINE p == "help_val"
           o == [own[t] EXCEPT !.state = reqState[own[t].req]]
<1>1. Known(t) BY LocalFacts
<1>2. reqState[own[t].req] \in States
  BY <1>1 DEF HelpState, Known, SharedTyped, CellInv, ReqPcs
<1>3. SharedInv' /\ EndsGrow
  BY <1>1, QuietShared DEF HelpState, Known, SharedTyped, peers
<1>4. Becomes(t, p, call[t], cid[t], o, scan[t])
  BY Same DEF HelpState, GoTo, Becomes
<1>5. p \in Pcs BY DEF Pcs, HelpPcs, ReqPcs, ScanPcs, AskPcs, EnqPcs, DeqPcs
<1>6. o \in OwnRecs
  BY <1>1, Basics, OwnFacts, <1>2 DEF HelpState, Known
<1> HIDE DEF p, o
<1>7. /\ LocalsTyped' /\ Others(t)
      /\ pc'[t] = p /\ call'[t] = call[t] /\ cid'[t] = cid[t] /\ own'[t] = o
      /\ scan'[t] = scan[t]
  BY <1>1, <1>4, <1>5, <1>6, BecomesFacts DEF Known
<1>8. ThreadInv(t)'
  BY <1>3, <1>5, <1>6, <1>7, GroundFacts
     DEF HelpState, p, Ground, ThreadInv, CallInv, CellInv, At, Scanning, HelpPcs, ReqPcs,
         ScanPcs, AskPcs, EnqPcs, DeqPcs
<1>9. QED BY <1>3, <1>7, <1>8 DEF LocalGood

LEMMA HelpValGood ==
  ASSUME Parts, NEW t \in Threads, HelpVal(t), UNCHANGED sent
  PROVE  SharedInv' /\ EndsGrow /\ LocalGood(t)
<1> DEFINE p == CASE own[t].state.pending /\ own[t].state.low <= At(t) -> "help_claim"
                  [] ~own[t].state.pending /\ own[t].state.low = At(t) -> "help_check"
                  [] OTHER -> "help_end"
           o == [own[t] EXCEPT !.val = reqVal[own[t].req]]
<1>1. Known(t) BY LocalFacts
<1>2. reqVal[own[t].req] \in Values \cup {Bottom}
  BY <1>1 DEF HelpVal, Known, SharedTyped, CellInv, ReqPcs
<1>3. SharedInv' /\ EndsGrow
  BY <1>1, QuietShared DEF HelpVal, Known, SharedTyped, peers
<1>4. Becomes(t, p, call[t], cid[t], o, scan[t])
  BY Same DEF HelpVal, GoTo, Becomes
<1>5. p \in Pcs BY DEF Pcs, HelpPcs, ReqPcs, ScanPcs, AskPcs, EnqPcs, DeqPcs
<1>6. o \in OwnRecs
  BY <1>1, Basics, OwnFacts, <1>2 DEF HelpVal, Known
<1> HIDE DEF p, o
<1>7. /\ LocalsTyped' /\ Others(t)
      /\ pc'[t] = p /\ call'[t] = call[t] /\ cid'[t] = cid[t] /\ own'[t] = o
      /\ scan'[t] = scan[t]
  BY <1>1, <1>4, <1>5, <1>6, BecomesFacts DEF Known
<1>8. ThreadInv(t)'
  BY <1>3, <1>5, <1>6, <1>7, GroundFacts
     DEF HelpVal, p, Ground, ThreadInv, CallInv, CellInv, At, Scanning, HelpPcs, ReqPcs,
         ScanPcs, AskPcs, EnqPcs, DeqPcs
<1>9. QED BY <1>3, <1>7, <1>8 DEF LocalGood

LEMMA HelpClaimGood ==
  ASSUME Parts, NEW t \in Threads, HelpClaim(t), UNCHANGED sent
  PROVE  SharedInv' /\ EndsGrow /\ LocalGood(t)
<1> DEFINE p == IF Claims(own[t].req, own[t].state.low) THEN "help_check" ELSE "help_reload"
<1>1. Known(t) BY LocalFacts
<1>2. own[t].req \in Threads /\ At(t) \in Nat
  BY <1>1, Basics DEF HelpClaim, Known, CellInv, ReqPcs, HelpPcs
<1>3. State(FALSE, At(t)) \in States BY <1>2, StateFacts
<1>4. /\ reqVal' \in [Threads -> Values \cup {Bottom}]
      /\ reqState' \in [Threads -> States]
      /\ UNCHANGED <<T, H, cells, deqReqs, enqPeer, deqPeer>>
  BY <1>1, <1>2, <1>3, Basics
     DEF HelpClaim, Known, SharedTyped, CallInv, CellInv, ReqPcs, EnqPcs, peers, ClaimFor
<1>5. SharedInv' /\ EndsGrow BY <1>4, ReqShared
<1>6. Becomes(t, p, call[t], cid[t], own[t], scan[t])
  BY Same DEF HelpClaim, GoTo, Becomes, locals
<1>7. p \in Pcs BY DEF Pcs, HelpPcs, ReqPcs, ScanPcs, AskPcs, EnqPcs, DeqPcs
<1> HIDE DEF p
<1>8. /\ LocalsTyped' /\ Others(t)
      /\ pc'[t] = p /\ call'[t] = call[t] /\ cid'[t] = cid[t] /\ own'[t] = own[t]
      /\ scan'[t] = scan[t]
  BY <1>1, <1>6, <1>7, BecomesFacts DEF Known
<1>9. ThreadInv(t)'
  BY <1>5, <1>7, <1>8, GroundFacts
     DEF HelpClaim, p, Ground, ThreadInv, CallInv, CellInv, At, Scanning, HelpPcs, ReqPcs,
         ScanPcs, AskPcs, EnqPcs, DeqPcs
<1>10. QED BY <1>5, <1>8, <1>9 DEF LocalGood

LEMMA HelpReloadGood ==
  ASSUME Parts, NEW t \in Threads, HelpReload(t), UNCHANGED sent
  PROVE  SharedInv' /\ EndsGrow /\ LocalGood(t)
<1> DEFINE p == IF reqState[own[t].req] = State(FALSE, At(t)) THEN "help_check"
                ELSE "help_read"
<1>1. Known(t) BY LocalFacts
<1>2. SharedInv' /\ EndsGrow
  BY <1>1, QuietShared DEF HelpReload, Known, SharedTyped, peers
<1>3. Becomes(t, p, call[t], cid[t], own[t], scan[t])
  BY Same DEF HelpReload, GoTo, Becomes, locals
<1>4. p \in Pcs BY DEF Pcs, HelpPcs, ReqPcs, ScanPcs, AskPcs, EnqPcs, DeqPcs
<1>5. pc[t] = "help_reload" /\ p \in {"help_check", "help_read"}
  BY <1>1, Basics DEF HelpReload, GoTo, Known, SharedTyped, Larger
<1> HIDE DEF p
<1>6. /\ LocalsTyped' /\ Others(t)
      /\ pc'[t] = p /\ call'[t] = call[t] /\ cid'[t] = cid[t] /\ own'[t] = own[t]
      /\ scan'[t] = scan[t]
  BY <1>1, <1>3, <1>4, BecomesFacts DEF Known
<1>7. ThreadInv(t)'
  <2>1. Ground(t) BY <1>2, GroundFacts
  <2>2. CallInv(t)'
    BY <1>6, <1>5, <1>4, <2>1
       DEF Ground, CallInv, Scanning, HelpPcs, ReqPcs, ScanPcs, AskPcs, EnqPcs, DeqPcs
  <2>3. CellInv(t)'
    BY <1>6, <1>5, <1>4, <2>1
       DEF Ground, CellInv, CallInv, At, Scanning, HelpPcs, ReqPcs, ScanPcs, AskPcs,
           EnqPcs, DeqPcs
  <2>4. QED BY <1>6, <1>5, <1>4, <2>1, <2>2, <2>3 DEF Ground, ThreadInv, CallInv
<1>8. QED BY <1>2, <1>6, <1>7 DEF LocalGood

LEMMA HelpCheckGood ==
  ASSUME Parts, NEW t \in Threads, HelpCheck(t), UNCHANGED sent
  PROVE  SharedInv' /\ EndsGrow /\ LocalGood(t)
<1> DEFINE p == IF cellVal[At(t)] = Top THEN "help_cover" ELSE "help_read"
<1>1. Known(t) BY LocalFacts
<1>2. SharedInv' /\ EndsGrow
  BY <1>1, QuietShared DEF HelpCheck, Known, SharedTyped, peers
<1>3. Becomes(t, p, call[t], cid[t], own[t], scan[t])
  BY Same DEF HelpCheck, GoTo, Becomes, locals
<1>4. p \in Pcs BY DEF Pcs, HelpPcs, ReqPcs, ScanPcs, AskPcs, EnqPcs, DeqPcs
<1> HIDE DEF p
<1>5. /\ LocalsTyped' /\ Others(t)
      /\ pc'[t] = p /\ call'[t] = call[t] /\ cid'[t] = cid[t] /\ own'[t] = own[t]
      /\ scan'[t] = scan[t]
  BY <1>1, <1>3, <1>4, BecomesFacts DEF Known
<1>6. ThreadInv(t)'
  BY <1>2, <1>4, <1>5, GroundFacts
     DEF HelpCheck, p, Ground, ThreadInv, CallInv, CellInv, At, Scanning, HelpPcs, ReqPcs,
         ScanPcs, AskPcs, EnqPcs, DeqPcs
<1>7. QED BY <1>2, <1>5, <1>6 DEF LocalGood

LEMMA HelpCoverGood ==
  ASSUME Parts, NEW t \in Threads, HelpCover(t), UNCHANGED sent
  PROVE  SharedInv' /\ EndsGrow /\ LocalGood(t)
<1> DEFINE p == "help_store"
<1>1. Known(t) BY LocalFacts
<1>2. At(t) \in Nat BY <1>1, Basics DEF HelpCover, Known, CellInv, ReqPcs, HelpPcs
<1>3. EndsGrow /\ UNCHANGED <<cells, enqReqs, deqReqs, enqPeer, deqPeer>>
  BY <1>1, <1>2, Basics DEF HelpCover, Known, SharedTyped, EndsGrow, peers, Larger
<1>4. deqPeer' \in [Threads -> Threads] BY <1>1, <1>3 DEF Known, SharedTyped
<1>5. SharedInv' /\ EndsGrow BY <1>3, <1>4, EndsShared
<1>6. Becomes(t, p, call[t], cid[t], own[t], scan[t])
  BY Same DEF HelpCover, GoTo, Becomes, locals
<1>7. p \in Pcs BY DEF Pcs, HelpPcs, ReqPcs, ScanPcs, AskPcs, EnqPcs, DeqPcs
<1> HIDE DEF p
<1>8. /\ LocalsTyped' /\ Others(t)
      /\ pc'[t] = p /\ call'[t] = call[t] /\ cid'[t] = cid[t] /\ own'[t] = own[t]
      /\ scan'[t] = scan[t]
  BY <1>1, <1>6, <1>7, BecomesFacts DEF Known
<1>9. ThreadInv(t)'
  BY <1>5, <1>7, <1>8, GroundFacts, <1>2
     DEF HelpCover, p, Larger, Ground, ThreadInv, CallInv, CellInv, At, Scanning, HelpPcs,
         ReqPcs, ScanPcs, AskPcs, EnqPcs, DeqPcs
<1>10. QED BY <1>5, <1>8, <1>9 DEF LocalGood

LEMMA HelpStoreGood ==
  ASSUME Parts, NEW t \in Threads, HelpStore(t), UNCHANGED sent
  PROVE  SharedInv' /\ EndsGrow /\ LocalGood(t)
<1> DEFINE p == "help_read"
<1>1. Known(t) BY LocalFacts
<1>2. At(t) \in Cells /\ At(t) < T /\ At(t) < H
  BY <1>1 DEF HelpStore, Known, CellInv, ReqPcs, HelpPcs
<1>3. own[t].val \in Words BY <1>1 DEF Known, Words
<1>4. UNCHANGED <<enqPeer, deqPeer>> BY DEF HelpStore, peers
<1>5. SharedInv' /\ EndsGrow BY <1>2, <1>3, <1>4, ValShared DEF HelpStore
<1>6. Becomes(t, p, call[t], cid[t], own[t], scan[t])
  BY Same DEF HelpStore, GoTo, Becomes, locals
<1>7. p \in Pcs BY DEF Pcs, HelpPcs, ReqPcs, ScanPcs, AskPcs, EnqPcs, DeqPcs
<1> HIDE DEF p
<1>8. /\ LocalsTyped' /\ Others(t)
      /\ pc'[t] = p /\ call'[t] = call[t] /\ cid'[t] = cid[t] /\ own'[t] = own[t]
      /\ scan'[t] = scan[t]
  BY <1>1, <1>6, <1>7, BecomesFacts DEF Known
<1>9. ThreadInv(t)'
  BY <1>5, <1>7, <1>8, GroundFacts
     DEF HelpStore, p, Ground, ThreadInv, CallInv, CellInv, At, Scanning, HelpPcs, ReqPcs,
         ScanPcs, AskPcs, EnqPcs, DeqPcs
<1>10. QED BY <1>5, <1>8, <1>9 DEF LocalGood

LEMMA HelpReadGood ==
  ASSUME Parts, NEW t \in Threads, HelpRead(t), UNCHANGED sent
  PROVE  SharedInv' /\ EndsGrow /\ LocalGood(t)
<1>1. Known(t) BY LocalFacts
<1>2. SharedInv' /\ EndsGrow
  BY <1>1, QuietShared DEF HelpRead, Known, SharedTyped, peers
<1>3. Helped(t, cellVal[At(t)]) /\ cellVal[At(t)] \in Words \cup {Retry} /\ pc[t] \in HelpPcs
  BY <1>1 DEF HelpRead, Known, SharedTyped, CellInv, HelpPcs
<1>4. QED BY <1>2, <1>3, HelpedGood

LEMMA DeqTicketGood ==
  ASSUME Parts, NEW t \in Threads, DeqTicket(t), UNCHANGED sent
  PROVE  SharedInv' /\ EndsGrow /\ LocalGood(t)
<1>1. Known(t) BY LocalFacts
<1>2. EndsGrow /\ UNCHANGED <<cells, enqReqs, deqReqs, enqPeer, deqPeer>>
  BY <1>1, Basics DEF DeqTicket, Known, SharedTyped, EndsGrow, peers
<1>3. deqPeer' \in [Threads -> Threads] BY <1>1, <1>2 DEF Known, SharedTyped
<1>4. SharedInv' BY <1>2, <1>3, EndsShared
<1>5. pc[t] = "deq_faa" /\ H' = H + 1 /\ H \in Nat
  BY <1>1 DEF DeqTicket, Known, SharedTyped
<1>6. CASE H \notin Cells
  <2>1. Return(t, "empty", Bottom) /\ Bottom \in Nat BY <1>6 DEF DeqTicket, Bottom
  <2>2. QED BY <1>2, <1>4, <2>1, ReturnGood
<1>7. CASE H \in Cells
  <2>1. Becomes(t, "help_top", call[t], H, own[t], scan[t])
    BY <1>7, Same DEF DeqTicket, Becomes, GoTo
  <2>2. "help_top" \in Pcs BY DEF Pcs, HelpPcs
  <2>3. /\ LocalsTyped' /\ Others(t)
        /\ pc'[t] = "help_top" /\ call'[t] = call[t] /\ cid'[t] = H /\ own'[t] = own[t]
        /\ scan'[t] = scan[t]
    BY <1>1, <1>5, <2>1, <2>2, BecomesFacts DEF Known
  <2>4. ThreadInv(t)'
    BY <1>2, <1>5, <1>7, <2>3, GroundFacts
       DEF Ground, ThreadInv, CallInv, CellInv, At, Scanning, EnqPcs, DeqPcs, HelpPcs,
           ReqPcs, ScanPcs, AskPcs
  <2>5. QED BY <1>2, <1>4, <2>3, <2>4 DEF LocalGood
<1>8. QED BY <1>6, <1>7

LEMMA DeqTakeGood ==
  ASSUME Parts, NEW t \in Threads, DeqTake(t), UNCHANGED sent
  PROVE  SharedInv' /\ EndsGrow /\ LocalGood(t)
<1>1. Known(t) BY LocalFacts
<1>2. /\ cid[t] \in Cells /\ cid[t] < H /\ call[t].val \in Values /\ ~Scanning(t)
      /\ call[t].kind \in {"deq", "deq_bfs"} /\ own[t] \in OwnRecs
      /\ enqPeer \in [Threads -> Threads] /\ deqPeer \in [Threads -> Threads]
  BY <1>1 DEF DeqTake, Known, CellInv, CallInv, DeqPcs, SharedTyped
<1>3. UNCHANGED <<T, H, cellVal, cellEnq, enqReqs, deqReqs, enqPeer, deqPeer>>
  BY DEF DeqTake, peers
<1>4. CASE cellDeq[cid[t]] = Null
  <2>1. cellDeq' = [cellDeq EXCEPT ![cid[t]] = Topp] /\ DeqGot(t, call[t].val)
    BY <1>4 DEF DeqTake
  <2>2. SharedInv' /\ EndsGrow BY <1>2, <1>3, <2>1, DeqShared
  <2>3. LocalGood(t) BY <1>2, <2>1, <2>2, DeqGotGood
  <2>4. QED BY <2>2, <2>3
<1>5. CASE cellDeq[cid[t]] # Null
  <2>1. DeqFails(t) /\ UNCHANGED <<cellDeq, cid, own, scan>> BY <1>5 DEF DeqTake
  <2>2. SharedInv' /\ EndsGrow BY <1>2, <1>3, <2>1, QuietShared DEF cells
  <2>3. own' = [own EXCEPT ![t] = own'[t]] /\ own'[t] \in OwnRecs
    BY <1>2, <2>1, Same
  <2>4. LocalGood(t) BY <1>2, <2>1, <2>2, <2>3, DeqFailsGood
  <2>5. QED BY <2>2, <2>4
<1>6. QED BY <1>4, <1>5

LEMMA BfsLoadTGood ==
  ASSUME Parts, NEW t \in Threads, BfsLoadT(t), UNCHANGED sent
  PROVE  SharedInv' /\ EndsGrow /\ LocalGood(t)
<1> DEFINE p == "bfs_h"
           c == [call[t] EXCEPT !.val = T]
<1>1. Known(t) BY LocalFacts
<1>2. SharedInv' /\ EndsGrow
  BY <1>1, QuietShared DEF BfsLoadT, Known, SharedTyped, peers
<1>3. Becomes(t, p, c, cid[t], own[t], scan[t])
  BY Same DEF BfsLoadT, GoTo, Becomes
<1>4. p \in Pcs BY DEF Pcs, HelpPcs, ReqPcs, ScanPcs, AskPcs, EnqPcs, DeqPcs
<1>5. c \in CallRecs
  BY <1>1, Basics, CallFacts DEF BfsLoadT, Known, SharedTyped
<1> HIDE DEF p, c
<1>6. /\ LocalsTyped' /\ Others(t)
      /\ pc'[t] = p /\ call'[t] = c /\ cid'[t] = cid[t] /\ own'[t] = own[t]
      /\ scan'[t] = scan[t]
  BY <1>1, <1>3, <1>4, <1>5, BecomesFacts DEF Known
<1>7. ThreadInv(t)'
  BY <1>2, <1>4, <1>5, <1>6, GroundFacts
     DEF BfsLoadT, p, Ground, ThreadInv, CallInv, CellInv, At, Scanning, HelpPcs, ReqPcs,
         ScanPcs, AskPcs, EnqPcs, DeqPcs
<1>8. QED BY <1>2, <1>6, <1>7 DEF LocalGood

LEMMA BfsLoadHGood ==
  ASSUME Parts, NEW t \in Threads, BfsLoadH(t), UNCHANGED sent
  PROVE  SharedInv' /\ EndsGrow /\ LocalGood(t)
<1>1. Known(t) BY LocalFacts
<1>2. SharedInv' /\ EndsGrow
  BY <1>1, QuietShared DEF BfsLoadH, Known, SharedTyped, peers
<1>3. CASE call[t].val <= H + 1 \/ call[t].tries = 0
  <2>1. Return(t, "empty", Bottom) /\ Bottom \in Nat BY <1>3 DEF BfsLoadH, Bottom
  <2>2. QED BY <1>2, <2>1, ReturnGood
<1>4. CASE ~(call[t].val <= H + 1 \/ call[t].tries = 0)
  <2> DEFINE c == [call[t] EXCEPT !.tries = @ - 1, !.val = Bottom]
  <2>1. call[t] \in CallRecs /\ call[t].tries - 1 \in Nat BY <1>1, <1>4 DEF Known
  <2>2. c \in CallRecs /\ c.kind = call[t].kind BY <2>1 DEF CallRecs, Bottom
  <2>3. Becomes(t, "deq_faa", c, cid[t], own[t], scan[t])
    BY <1>1, <1>4, Same DEF BfsLoadH, Becomes, GoTo, Parts, LocalsTyped
  <2>4. "deq_faa" \in Pcs /\ pc[t] = "bfs_h" BY DEF Pcs, DeqPcs, BfsLoadH
  <2> HIDE DEF c
  <2>5. /\ LocalsTyped' /\ Others(t)
        /\ pc'[t] = "deq_faa" /\ call'[t] = c /\ cid'[t] = cid[t] /\ own'[t] = own[t]
        /\ scan'[t] = scan[t]
    BY <1>1, <2>2, <2>3, <2>4, BecomesFacts DEF Known
  <2>6. ThreadInv(t)'
    BY <1>2, <2>2, <2>4, <2>5, GroundFacts
       DEF Ground, ThreadInv, CallInv, CellInv, At, Scanning, EnqPcs, DeqPcs, HelpPcs,
           ReqPcs, ScanPcs, AskPcs
  <2>7. QED BY <1>2, <2>5, <2>6 DEF LocalGood
<1>5. QED BY <1>3, <1>4

LEMMA SlowPublishIdGood ==
  ASSUME Parts, NEW t \in Threads, SlowPublishId(t), UNCHANGED sent
  PROVE  SharedInv' /\ EndsGrow /\ LocalGood(t)
<1> DEFINE p == "slow_state"
<1>1. Known(t) BY LocalFacts
<1>2. cid[t] \in Cells BY <1>1 DEF SlowPublishId, Known, CellInv
<1>3. SharedTyped'
  BY <1>1, <1>2
     DEF SlowPublishId, Known, SharedTyped, cells, enqReqs, peers
<1>4. SharedInv' /\ EndsGrow
  BY <1>3 DEF SlowPublishId, Parts, SharedInv, SharedTyped, PublishedCovered,
              SpoiledCovered, EndsGrow, cells
<1>5. Becomes(t, p, call[t], cid[t], own[t], scan[t])
  BY Same DEF SlowPublishId, GoTo, Becomes, locals
<1>6. p \in Pcs BY DEF Pcs, HelpPcs, ReqPcs, ScanPcs, AskPcs, EnqPcs, DeqPcs
<1> HIDE DEF p
<1>7. /\ LocalsTyped' /\ Others(t)
      /\ pc'[t] = p /\ call'[t] = call[t] /\ cid'[t] = cid[t] /\ own'[t] = own[t]
      /\ scan'[t] = scan[t]
  BY <1>1, <1>5, <1>6, BecomesFacts DEF Known
<1>8. ThreadInv(t)'
  BY <1>4, <1>6, <1>7, GroundFacts
     DEF SlowPublishId, p, Ground, ThreadInv, CallInv, CellInv, At, Scanning, HelpPcs,
         ReqPcs, ScanPcs, AskPcs, EnqPcs, DeqPcs
<1>9. QED BY <1>4, <1>7, <1>8 DEF LocalGood

LEMMA SlowPublishStateGood ==
  ASSUME Parts, NEW t \in Threads, SlowPublishState(t), UNCHANGED sent
  PROVE  SharedInv' /\ EndsGrow /\ LocalGood(t)
<1> DEFINE p == "scan_start"
           c == [call[t] EXCEPT !.val = Bottom]
           s == [NoScan EXCEPT !.helpee = t]
<1>1. Known(t) BY LocalFacts
<1>2. cid[t] \in Cells /\ cid[t] < H BY <1>1 DEF SlowPublishState, Known, CellInv
<1>3. State(TRUE, cid[t]) \in DeqStates /\ State(TRUE, cid[t]).low = cid[t]
  BY <1>1, <1>2, StateFacts DEF Known
<1>4. /\ UNCHANGED <<T, H, cells, enqReqs, deqId, enqPeer>>
      /\ deqPeer' \in [Threads -> Threads]
      /\ deqState' = [deqState EXCEPT ![t] = State(TRUE, cid[t])]
  BY <1>1 DEF SlowPublishState, Known, SharedTyped, peers
<1>5. SharedInv' /\ EndsGrow BY <1>2, <1>3, <1>4, DeqReqShared
<1>6. Becomes(t, p, c, cid[t], own[t], s)
  BY Same DEF SlowPublishState, GoTo, Becomes
<1>7. p \in Pcs BY DEF Pcs, HelpPcs, ReqPcs, ScanPcs, AskPcs, EnqPcs, DeqPcs
<1>8. /\ c \in CallRecs /\ s \in ScanRecs
      /\ c.kind = call[t].kind /\ c.val = Bottom /\ s.helpee = t /\ s.state.pending = FALSE
  BY <1>1, Basics
     DEF SlowPublishState, Known, CallRecs, ScanRecs, NoScan, State, DeqStates, Bottom
<1> HIDE DEF p, c, s
<1>9. /\ LocalsTyped' /\ Others(t)
      /\ pc'[t] = p /\ call'[t] = c /\ cid'[t] = cid[t] /\ own'[t] = own[t]
      /\ scan'[t] = s
  BY <1>1, <1>6, <1>7, <1>8, BecomesFacts DEF Known
<1>10. ThreadInv(t)'
  BY <1>5, <1>7, <1>8, <1>9, GroundFacts, Basics
     DEF SlowPublishState, p, Ground, ThreadInv, CallInv, CellInv, At, Scanning, HelpPcs,
         ReqPcs, ScanPcs, AskPcs, EnqPcs, DeqPcs
<1>11. QED BY <1>5, <1>9, <1>10 DEF LocalGood

LEMMA SlowResultGood ==
  ASSUME Parts, NEW t \in Threads, SlowResult(t), UNCHANGED sent
  PROVE  SharedInv' /\ EndsGrow /\ LocalGood(t)
<1> DEFINE p == "slow_val"
           n == deqState[t].low
<1>1. Known(t) BY LocalFacts
<1>2. SharedInv' /\ EndsGrow
  BY <1>1, QuietShared DEF SlowResult, Known, SharedTyped, peers
<1>3. Becomes(t, p, call[t], n, own[t], scan[t])
  BY Same DEF SlowResult, GoTo, Becomes
<1>4. p \in Pcs BY DEF Pcs, HelpPcs, ReqPcs, ScanPcs, AskPcs, EnqPcs, DeqPcs
<1>5. /\ n \in Nat
      /\ n \in Cells
  BY <1>1, Basics, ScanFacts DEF SlowResult, Known, SharedTyped
<1> HIDE DEF p, n
<1>6. /\ LocalsTyped' /\ Others(t)
      /\ pc'[t] = p /\ call'[t] = call[t] /\ cid'[t] = n /\ own'[t] = own[t]
      /\ scan'[t] = scan[t]
  BY <1>1, <1>3, <1>4, <1>5, BecomesFacts DEF Known
<1>7. ThreadInv(t)'
  BY <1>2, <1>4, <1>5, <1>6, GroundFacts
     DEF SlowResult, p, n, Ground, ThreadInv, CallInv, CellInv, At, Scanning, HelpPcs,
         ReqPcs, ScanPcs, AskPcs, EnqPcs, DeqPcs
<1>8. QED BY <1>2, <1>6, <1>7 DEF LocalGood

LEMMA SlowValGood ==
  ASSUME Parts, NEW t \in Threads, SlowVal(t), UNCHANGED sent
  PROVE  SharedInv' /\ EndsGrow /\ LocalGood(t)
<1> DEFINE p == "slow_cover"
           c == [call[t] EXCEPT !.val = IF cellVal[cid[t]] = Top THEN Empty ELSE cellVal[cid[t]]]
<1>1. Known(t) BY LocalFacts
<1>2. (IF cellVal[cid[t]] = Top THEN Empty ELSE cellVal[cid[t]]) \in Values \cup {Bottom}
  BY <1>1 DEF SlowVal, Known, CellInv, SharedTyped, Words, Empty, Bottom
<1>3. (IF cellVal[cid[t]] = Top THEN Empty ELSE cellVal[cid[t]]) \in Nat
  BY <1>2 DEF Values, Bottom
<1>4. SharedInv' /\ EndsGrow
  BY <1>1, QuietShared DEF SlowVal, Known, SharedTyped, peers
<1>5. Becomes(t, p, c, cid[t], own[t], scan[t])
  BY Same DEF SlowVal, GoTo, Becomes
<1>6. p \in Pcs BY DEF Pcs, HelpPcs, ReqPcs, ScanPcs, AskPcs, EnqPcs, DeqPcs
<1>7. /\ c \in CallRecs
      /\ c.val \in Values \cup {Bottom} /\ c.kind = call[t].kind
  BY <1>1, Basics, <1>2, <1>3 DEF SlowVal, Known, CallRecs
<1> HIDE DEF p, c
<1>8. /\ LocalsTyped' /\ Others(t)
      /\ pc'[t] = p /\ call'[t] = c /\ cid'[t] = cid[t] /\ own'[t] = own[t]
      /\ scan'[t] = scan[t]
  BY <1>1, <1>5, <1>6, <1>7, BecomesFacts DEF Known
<1>9. ThreadInv(t)'
  BY <1>4, <1>6, <1>7, <1>8, GroundFacts
     DEF SlowVal, p, Ground, ThreadInv, CallInv, CellInv, At, Scanning, HelpPcs, ReqPcs,
         ScanPcs, AskPcs, EnqPcs, DeqPcs
<1>10. QED BY <1>4, <1>8, <1>9 DEF LocalGood

LEMMA SlowCoverGood ==
  ASSUME Parts, NEW t \in Threads, SlowCover(t), UNCHANGED sent
  PROVE  SharedInv' /\ EndsGrow /\ LocalGood(t)
<1>1. Known(t) BY LocalFacts
<1>2. EndsGrow /\ UNCHANGED <<cells, enqReqs, deqReqs, enqPeer, deqPeer>>
  BY <1>1, Basics DEF SlowCover, Known, SharedTyped, EndsGrow, Larger, peers
<1>3. deqPeer' \in [Threads -> Threads] BY <1>1, <1>2 DEF Known, SharedTyped
<1>4. SharedInv' BY <1>2, <1>3, EndsShared
<1>5. CASE call[t].val = Empty
  <2>1. Return(t, "empty", Bottom) /\ Bottom \in Nat BY <1>5 DEF SlowCover, Bottom
  <2>2. QED BY <1>2, <1>4, <2>1, ReturnGood
<1>6. CASE call[t].val # Empty
  <2>1. /\ DeqGot(t, call[t].val) /\ call[t].kind \in {"deq", "deq_bfs"}
        /\ call[t].val \in Values
    BY <1>1, <1>6 DEF SlowCover, Known, CallInv, DeqPcs, Empty, Bottom
  <2>2. QED BY <1>2, <1>4, <2>1, DeqGotGood
<1>7. QED BY <1>5, <1>6

\* A step of help_deq that returns.
LEMMA ScanReturns ==
  ASSUME Parts, NEW t \in Threads,
         UNCHANGED <<T, H, cells, enqReqs, deqReqs, enqPeer, sent>>,
         pc[t] \in ScanPcs, ScanReturn(t)
  PROVE  SharedInv' /\ EndsGrow /\ LocalGood(t)
<1>1. EndsGrow BY DEF Parts, SharedInv, SharedTyped, EndsGrow
<1>2. LocalGood(t) /\ deqPeer' \in [Threads -> Threads] BY <1>1, ScanReturnGood
<1>3. enqPeer' \in [Threads -> Threads] BY DEF Parts, SharedInv, SharedTyped
<1>4. SharedInv' BY <1>2, <1>3, QuietShared
<1>5. QED BY <1>1, <1>2, <1>4

\* A step of help_deq that goes on with its scan, having read the request again or not.
LEMMA ScanMoves ==
  ASSUME Parts, NEW t \in Threads, UNCHANGED <<T, H, cells, enqReqs, deqReqs, peers, sent>>,
         pc[t] \in ScanPcs, NEW p \in ScanPcs \ {"scan_seen", "scan_announce"},
         NEW s \in ScanRecs, s.helpee = scan[t].helpee,
         s.state.pending => s.state.low < H, p \in AskPcs => s.state.pending,
         Becomes(t, p, call[t], cid[t], own[t], s)
  PROVE  SharedInv' /\ EndsGrow /\ LocalGood(t)
<1>1. Known(t) BY LocalFacts
<1>2. SharedInv' /\ EndsGrow BY <1>1, QuietShared DEF Known, SharedTyped, peers
<1>3. p \in Pcs BY DEF Pcs, ScanPcs
<1>4. /\ LocalsTyped' /\ Others(t)
      /\ pc'[t] = p /\ call'[t] = call[t] /\ cid'[t] = cid[t] /\ own'[t] = own[t]
      /\ scan'[t] = s
  BY <1>1, <1>3, BecomesFacts DEF Known
<1>5. ThreadInv(t)'
  BY <1>2, <1>4, GroundFacts
     DEF Ground, ThreadInv, CallInv, CellInv, At, Scanning, EnqPcs, DeqPcs, HelpPcs,
         ReqPcs, ScanPcs, AskPcs
<1>6. QED BY <1>2, <1>4, <1>5 DEF LocalGood

LEMMA ScanStartGood ==
  ASSUME Parts, NEW t \in Threads, ScanStart(t), UNCHANGED sent
  PROVE  SharedInv' /\ EndsGrow /\ LocalGood(t)
<1> DEFINE p == "scan_first_id"
           s == [scan[t] EXCEPT !.state = deqState[scan[t].helpee]]
<1>1. Known(t) BY LocalFacts
<1>2. scan[t].helpee \in Threads
  BY <1>1 DEF ScanStart, Known, CallInv, Scanning, ScanPcs
<1>3. /\ deqState[scan[t].helpee] \in DeqStates
      /\ deqState[scan[t].helpee].pending => deqState[scan[t].helpee].low < H
  BY <1>1, <1>2 DEF Known, SharedTyped, Parts, SharedInv
<1>4. SharedInv' /\ EndsGrow
  BY <1>1, QuietShared DEF ScanStart, Known, SharedTyped, peers
<1>5. Becomes(t, p, call[t], cid[t], own[t], s)
  BY Same DEF ScanStart, GoTo, Becomes
<1>6. p \in Pcs BY DEF Pcs, HelpPcs, ReqPcs, ScanPcs, AskPcs, EnqPcs, DeqPcs
<1>7. /\ s \in ScanRecs
      /\ s.helpee = scan[t].helpee /\ s.state = deqState[scan[t].helpee]
  BY <1>1, Basics, <1>3 DEF ScanStart, Known, ScanRecs
<1>8. /\ pc[t] = "scan_start" /\ p = "scan_first_id" /\ H' = H
      /\ s.state.pending => s.state.low < H
  BY <1>1, Basics, <1>3 DEF ScanStart, GoTo, Known, SharedTyped, Larger
<1> HIDE DEF p, s
<1>9. /\ LocalsTyped' /\ Others(t)
      /\ pc'[t] = p /\ call'[t] = call[t] /\ cid'[t] = cid[t] /\ own'[t] = own[t]
      /\ scan'[t] = s
  BY <1>1, <1>5, <1>6, <1>7, BecomesFacts DEF Known
<1>10. ThreadInv(t)'
  <2>1. Ground(t) BY <1>4, GroundFacts
  <2>2. CallInv(t)'
    BY <1>9, <1>8, <1>6, <1>7, <2>1
       DEF Ground, CallInv, Scanning, HelpPcs, ReqPcs, ScanPcs, AskPcs, EnqPcs, DeqPcs
  <2>3. CellInv(t)'
    BY <1>9, <1>8, <1>6, <1>7, <2>1
       DEF Ground, CellInv, CallInv, At, Scanning, HelpPcs, ReqPcs, ScanPcs, AskPcs,
           EnqPcs, DeqPcs
  <2>4. QED BY <1>9, <1>8, <1>6, <1>7, <2>1, <2>2, <2>3 DEF Ground, ThreadInv, CallInv
<1>11. QED BY <1>4, <1>9, <1>10 DEF LocalGood

LEMMA ScanFirstIdGood ==
  ASSUME Parts, NEW t \in Threads, ScanFirstId(t), UNCHANGED sent
  PROVE  SharedInv' /\ EndsGrow /\ LocalGood(t)
<1> DEFINE id == deqId[scan[t].helpee]
           s == [scan[t] EXCEPT !.id = id, !.prior = id, !.i = id]
<1>1. Known(t) BY LocalFacts
<1>2. /\ UNCHANGED <<T, H, cells, enqReqs, deqReqs, enqPeer, lastId>>
      /\ pc[t] \in ScanPcs
  BY DEF ScanFirstId, ScanPcs
<1>3. CASE ~scan[t].state.pending \/ scan[t].state.low < id
  <2>1. ScanReturn(t) BY <1>3 DEF ScanFirstId
  <2>2. QED BY <1>2, <2>1, ScanReturns
<1>4. CASE ~(~scan[t].state.pending \/ scan[t].state.low < id)
  <2>1. /\ scan' = [scan EXCEPT ![t] = s] /\ pc' = [pc EXCEPT ![t] = "scan_state"]
        /\ UNCHANGED <<call, cid, own, deqPeer>>
    BY <1>4 DEF ScanFirstId, GoTo
  <2>2. id \in Cells /\ id \in Nat
    BY <1>1, <1>2, Basics DEF Known, SharedTyped, CallInv, Scanning
  <2>3. s \in ScanRecs /\ s.helpee = scan[t].helpee /\ s.state = scan[t].state
    BY <1>1, <2>2 DEF Known, ScanRecs
  <2> HIDE DEF s
  <2>4. Becomes(t, "scan_state", call[t], cid[t], own[t], s) BY <2>1, Same DEF Becomes
  <2>5. scan[t].state.pending => scan[t].state.low < H BY <1>1 DEF Known, ThreadInv
  <2>6. /\ "scan_state" \in ScanPcs \ {"scan_seen", "scan_announce"}
        /\ "scan_state" \notin AskPcs
    BY DEF ScanPcs, AskPcs
  <2>7. UNCHANGED peers BY <1>2, <2>1 DEF peers
  <2>8. QED BY <1>2, <2>3, <2>4, <2>5, <2>6, <2>7, ScanMoves
<1>5. QED BY <1>3, <1>4

LEMMA ScanReloadGood ==
  ASSUME Parts, NEW t \in Threads, UNCHANGED sent,
         NEW at \in ScanPcs, NEW next \in {"scan_id", "settle_id"}, ScanReload(t, at, next)
  PROVE  SharedInv' /\ EndsGrow /\ LocalGood(t)
<1> DEFINE x == deqState[scan[t].helpee]
           s == [scan[t] EXCEPT !.state = x]
<1>1. Known(t) BY LocalFacts
<1>2. /\ UNCHANGED <<T, H, cells, enqReqs, deqReqs, enqPeer, lastId>>
      /\ pc[t] \in ScanPcs
  BY DEF ScanReload
<1>3. CASE ~x.pending
  <2>1. ScanReturn(t) BY <1>3 DEF ScanReload
  <2>2. QED BY <1>2, <2>1, ScanReturns
<1>4. CASE x.pending
  <2>1. /\ scan' = [scan EXCEPT ![t] = s] /\ pc' = [pc EXCEPT ![t] = next]
        /\ UNCHANGED <<call, cid, own, deqPeer>>
    BY <1>4 DEF ScanReload, GoTo
  <2>2. scan[t].helpee \in Threads BY <1>1, <1>2 DEF Known, CallInv, Scanning
  <2>3. x \in DeqStates /\ (x.pending => x.low < H)
    BY <1>1, <2>2 DEF Known, SharedTyped, Parts, SharedInv
  <2>4. s \in ScanRecs /\ s.helpee = scan[t].helpee /\ s.state = x
    BY <1>1, <2>3 DEF Known, ScanRecs
  <2> HIDE DEF s
  <2>5. Becomes(t, next, call[t], cid[t], own[t], s) BY <2>1, Same DEF Becomes
  <2>6. next \in ScanPcs \ {"scan_seen", "scan_announce"} BY DEF ScanPcs, AskPcs
  <2>7. UNCHANGED peers BY <1>2, <2>1 DEF peers
  <2>8. QED BY <1>2, <1>4, <2>3, <2>4, <2>5, <2>6, <2>7, ScanMoves
<1>5. QED BY <1>3, <1>4

LEMMA ScanSameGood ==
  ASSUME Parts, NEW t \in Threads, UNCHANGED sent,
         NEW at \in ScanPcs, NEW next \in {"scan_cell", "settle_state", "settle_deq"},
         next = "settle_deq" => scan[t].state.pending, ScanSame(t, at, next)
  PROVE  SharedInv' /\ EndsGrow /\ LocalGood(t)
<1>1. Known(t) BY LocalFacts
<1>2. /\ UNCHANGED <<T, H, cells, enqReqs, deqReqs, enqPeer, lastId>>
      /\ pc[t] \in ScanPcs
  BY DEF ScanSame
<1>3. CASE deqId[scan[t].helpee] # scan[t].id
  <2>1. ScanReturn(t) BY <1>3 DEF ScanSame
  <2>2. QED BY <1>2, <2>1, ScanReturns
<1>4. CASE deqId[scan[t].helpee] = scan[t].id
  <2>1. pc' = [pc EXCEPT ![t] = next] /\ UNCHANGED <<call, cid, own, scan, deqPeer>>
    BY <1>4 DEF ScanSame, GoTo, locals
  <2>2. Becomes(t, next, call[t], cid[t], own[t], scan[t]) BY <2>1, Same DEF Becomes
  <2>3. /\ next \in ScanPcs \ {"scan_seen", "scan_announce"}
        /\ next \in AskPcs => next = "settle_deq"
    BY DEF ScanPcs, AskPcs
  <2>4. scan[t] \in ScanRecs /\ (scan[t].state.pending => scan[t].state.low < H)
    BY <1>1 DEF Known, ThreadInv
  <2>5. UNCHANGED peers BY <1>2, <2>1 DEF peers
  <2>6. QED BY <1>2, <2>2, <2>3, <2>4, <2>5, ScanMoves
<1>5. QED BY <1>3, <1>4

LEMMA ScanCellGood ==
  ASSUME Parts, NEW t \in Threads, ScanCell(t), UNCHANGED sent
  PROVE  SharedInv' /\ EndsGrow /\ LocalGood(t)
<1> DEFINE p == IF scan[t].i + 1 \in Cells THEN "help_top" ELSE "settle_state"
           s == [scan[t] EXCEPT !.i = IF @ \in Cells THEN @ + 1 ELSE @]
<1>1. Known(t) BY LocalFacts
<1>2. EndsGrow /\ UNCHANGED <<cells, enqReqs, deqReqs, enqPeer, deqPeer>>
  BY <1>1, Basics DEF ScanCell, Known, SharedTyped, EndsGrow, peers, Larger
<1>3. deqPeer' \in [Threads -> Threads] BY <1>1, <1>2 DEF Known, SharedTyped
<1>4. SharedInv' /\ EndsGrow BY <1>2, <1>3, EndsShared
<1>5. Becomes(t, p, call[t], cid[t], own[t], s)
  BY Same DEF ScanCell, GoTo, Becomes
<1>6. p \in Pcs BY DEF Pcs, HelpPcs, ReqPcs, ScanPcs, AskPcs, EnqPcs, DeqPcs
<1>7. /\ s \in ScanRecs
      /\ s.helpee = scan[t].helpee /\ s.state = scan[t].state
      /\ scan[t].i + 1 \in Cells => s.i = scan[t].i + 1
  BY <1>1, Basics, CellsAssumption DEF ScanCell, Known, ScanRecs, Cells
<1>8. /\ pc[t] = "scan_cell"
      /\ p = (IF scan[t].i + 1 \in Cells THEN "help_top" ELSE "settle_state")
      /\ scan[t].i + 1 \in Cells => H' >= scan[t].i + 2
  BY <1>1, Basics DEF ScanCell, GoTo, Known, SharedTyped, Larger
<1> HIDE DEF p, s
<1>9. /\ LocalsTyped' /\ Others(t)
      /\ pc'[t] = p /\ call'[t] = call[t] /\ cid'[t] = cid[t] /\ own'[t] = own[t]
      /\ scan'[t] = s
  BY <1>1, <1>5, <1>6, <1>7, BecomesFacts DEF Known
<1>10. ThreadInv(t)'
  <2>1. Ground(t) BY <1>4, GroundFacts
  <2>2. CallInv(t)'
    BY <1>9, <1>8, <1>6, <1>7, <2>1
       DEF Ground, CallInv, Scanning, HelpPcs, ReqPcs, ScanPcs, AskPcs, EnqPcs, DeqPcs
  <2>3. CellInv(t)'
    BY <1>9, <1>8, <1>6, <1>7, <2>1
       DEF Ground, CellInv, CallInv, At, Scanning, HelpPcs, ReqPcs, ScanPcs, AskPcs,
           EnqPcs, DeqPcs
  <2>4. QED BY <1>9, <1>8, <1>6, <1>7, <2>1, <2>2, <2>3 DEF Ground, ThreadInv, CallInv
<1>11. QED BY <1>4, <1>9, <1>10 DEF LocalGood

LEMMA ScanSeenGood ==
  ASSUME Parts, NEW t \in Threads, ScanSeen(t), UNCHANGED sent
  PROVE  SharedInv' /\ EndsGrow /\ LocalGood(t)
<1> DEFINE p == IF cellDeq[scan[t].i] = Null THEN "scan_announce" ELSE "scan_state"
<1>1. Known(t) BY LocalFacts
<1>2. SharedInv' /\ EndsGrow
  BY <1>1, QuietShared DEF ScanSeen, Known, SharedTyped, peers
<1>3. Becomes(t, p, call[t], cid[t], own[t], scan[t])
  BY Same DEF ScanSeen, GoTo, Becomes, locals
<1>4. p \in Pcs BY DEF Pcs, HelpPcs, ReqPcs, ScanPcs, AskPcs, EnqPcs, DeqPcs
<1> HIDE DEF p
<1>5. /\ LocalsTyped' /\ Others(t)
      /\ pc'[t] = p /\ call'[t] = call[t] /\ cid'[t] = cid[t] /\ own'[t] = own[t]
      /\ scan'[t] = scan[t]
  BY <1>1, <1>3, <1>4, BecomesFacts DEF Known
<1>6. ThreadInv(t)'
  BY <1>2, <1>4, <1>5, GroundFacts
     DEF ScanSeen, p, Ground, ThreadInv, CallInv, CellInv, At, Scanning, HelpPcs, ReqPcs,
         ScanPcs, AskPcs, EnqPcs, DeqPcs
<1>7. QED BY <1>2, <1>5, <1>6 DEF LocalGood

LEMMA ScanAnnounceGood ==
  ASSUME Parts, NEW t \in Threads, ScanAnnounce(t), UNCHANGED sent
  PROVE  SharedInv' /\ EndsGrow /\ LocalGood(t)
<1> DEFINE p == "settle_state"
<1>1. Known(t) BY LocalFacts
<1>2. scan[t].helpee \in Threads /\ scan[t].i \in Cells /\ scan[t].i < H
  BY <1>1 DEF ScanAnnounce, Known, CallInv, CellInv, At, Scanning, ScanPcs
<1>3. State(TRUE, scan[t].i) \in DeqStates /\ State(TRUE, scan[t].i).low = scan[t].i
  BY <1>1, <1>2, StateFacts DEF Known
<1>4. /\ UNCHANGED <<T, H, cells, enqReqs, deqId, enqPeer>>
      /\ deqPeer' \in [Threads -> Threads]
      /\ \/ deqState' = [deqState EXCEPT ![scan[t].helpee] = State(TRUE, scan[t].i)]
         \/ deqState' = deqState
  BY <1>1 DEF ScanAnnounce, Known, SharedTyped, peers
<1>5. SharedInv' /\ EndsGrow BY <1>2, <1>3, <1>4, DeqReqShared
<1>6. Becomes(t, p, call[t], cid[t], own[t], scan[t])
  BY Same DEF ScanAnnounce, GoTo, Becomes, locals
<1>7. p \in Pcs BY DEF Pcs, HelpPcs, ReqPcs, ScanPcs, AskPcs, EnqPcs, DeqPcs
<1> HIDE DEF p
<1>8. /\ LocalsTyped' /\ Others(t)
      /\ pc'[t] = p /\ call'[t] = call[t] /\ cid'[t] = cid[t] /\ own'[t] = own[t]
      /\ scan'[t] = scan[t]
  BY <1>1, <1>6, <1>7, BecomesFacts DEF Known
<1>9. ThreadInv(t)'
  BY <1>5, <1>7, <1>8, GroundFacts
     DEF ScanAnnounce, p, Ground, ThreadInv, CallInv, CellInv, At, Scanning, HelpPcs,
         ReqPcs, ScanPcs, AskPcs, EnqPcs, DeqPcs
<1>10. QED BY <1>5, <1>8, <1>9 DEF LocalGood

LEMMA SettleDeqGood ==
  ASSUME Parts, NEW t \in Threads, SettleDeq(t), UNCHANGED sent
  PROVE  SharedInv' /\ EndsGrow /\ LocalGood(t)
<1> DEFINE p == "settle_val"
           s == [scan[t] EXCEPT !.deq = cellDeq[Announced(t)]]
<1>1. Known(t) BY LocalFacts
<1>2. SharedInv' /\ EndsGrow
  BY <1>1, QuietShared DEF SettleDeq, Known, SharedTyped, peers
<1>3. Becomes(t, p, call[t], cid[t], own[t], s)
  BY Same DEF SettleDeq, GoTo, Becomes
<1>4. p \in Pcs BY DEF Pcs, HelpPcs, ReqPcs, ScanPcs, AskPcs, EnqPcs, DeqPcs
<1>5. /\ s \in ScanRecs
      /\ s.helpee = scan[t].helpee /\ s.state = scan[t].state /\ s.i = scan[t].i
  BY <1>1, Basics DEF SettleDeq, Known, ScanRecs, Announced, SharedTyped
<1> HIDE DEF p, s
<1>6. /\ LocalsTyped' /\ Others(t)
      /\ pc'[t] = p /\ call'[t] = call[t] /\ cid'[t] = cid[t] /\ own'[t] = own[t]
      /\ scan'[t] = s
  BY <1>1, <1>3, <1>4, <1>5, BecomesFacts DEF Known
<1>7. ThreadInv(t)'
  BY <1>2, <1>4, <1>5, <1>6, GroundFacts
     DEF SettleDeq, p, Ground, ThreadInv, CallInv, CellInv, At, Scanning, HelpPcs, ReqPcs,
         ScanPcs, AskPcs, EnqPcs, DeqPcs
<1>8. QED BY <1>2, <1>6, <1>7 DEF LocalGood

LEMMA SettleValGood ==
  ASSUME Parts, NEW t \in Threads, SettleVal(t), UNCHANGED sent
  PROVE  SharedInv' /\ EndsGrow /\ LocalGood(t)
<1> DEFINE p == IF cellVal[Announced(t)] = Top THEN "settle_close" ELSE "settle_take"
<1>1. Known(t) BY LocalFacts
<1>2. SharedInv' /\ EndsGrow
  BY <1>1, QuietShared DEF SettleVal, Known, SharedTyped, peers
<1>3. Becomes(t, p, call[t], cid[t], own[t], scan[t])
  BY Same DEF SettleVal, GoTo, Becomes, locals
<1>4. p \in Pcs BY DEF Pcs, HelpPcs, ReqPcs, ScanPcs, AskPcs, EnqPcs, DeqPcs
<1> HIDE DEF p
<1>5. /\ LocalsTyped' /\ Others(t)
      /\ pc'[t] = p /\ call'[t] = call[t] /\ cid'[t] = cid[t] /\ own'[t] = own[t]
      /\ scan'[t] = scan[t]
  BY <1>1, <1>3, <1>4, BecomesFacts DEF Known
<1>6. ThreadInv(t)'
  BY <1>2, <1>4, <1>5, GroundFacts
     DEF SettleVal, p, Ground, ThreadInv, CallInv, CellInv, At, Scanning, HelpPcs, ReqPcs,
         ScanPcs, AskPcs, EnqPcs, DeqPcs
<1>7. QED BY <1>2, <1>5, <1>6 DEF LocalGood

LEMMA SettleTakeGood ==
  ASSUME Parts, NEW t \in Threads, SettleTake(t), UNCHANGED sent
  PROVE  SharedInv' /\ EndsGrow /\ LocalGood(t)
<1> DEFINE p == IF cellDeq[Announced(t)] = Null \/ scan[t].deq = scan[t].helpee
                THEN "settle_close" ELSE "scan_state"
           s == IF cellDeq[Announced(t)] = Null \/ scan[t].deq = scan[t].helpee THEN scan[t]
                ELSE [scan[t] EXCEPT !.prior = Announced(t), !.i = Larger(@, Announced(t))]
<1>1. Known(t) BY LocalFacts
<1>2. /\ Announced(t) \in Cells /\ Announced(t) < H /\ Announced(t) \in Nat
      /\ scan[t].helpee \in Threads
  BY <1>1, Basics
     DEF SettleTake, Known, CallInv, CellInv, Scanning, ScanPcs, AskPcs, Announced,
         ThreadInv
<1>3. Larger(scan[t].i, Announced(t)) \in Nat BY <1>1, <1>2 DEF Known, Larger
<1>4. SharedInv' /\ EndsGrow
  <2>1. CASE cellDeq[Announced(t)] = Null
    <3>1. /\ deqPeer' \in [Threads -> Threads]
          /\ scan[t].helpee \in Threads \cup {Null, Topp}
          /\ cellDeq' = [cellDeq EXCEPT ![Announced(t)] = scan[t].helpee]
          /\ UNCHANGED <<T, H, cellVal, cellEnq, enqReqs, deqReqs, enqPeer>>
      BY <1>1, <1>2, <2>1 DEF SettleTake, Known, SharedTyped, peers
    <3>2. QED BY <1>2, <3>1, DeqShared
  <2>2. CASE cellDeq[Announced(t)] # Null
    <3>1. cellDeq' = cellDeq
      BY <1>1, <1>2, <2>2 DEF SettleTake, Known, SharedTyped
    <3>2. QED BY <1>1, <3>1, QuietShared DEF SettleTake, Known, SharedTyped, peers, cells
  <2>3. QED BY <2>1, <2>2
<1>5. Becomes(t, p, call[t], cid[t], own[t], s)
  BY Same DEF SettleTake, GoTo, Becomes
<1>6. p \in Pcs BY DEF Pcs, HelpPcs, ReqPcs, ScanPcs, AskPcs, EnqPcs, DeqPcs
<1>7. /\ s \in ScanRecs
      /\ s.helpee = scan[t].helpee /\ s.state = scan[t].state
  BY <1>1, Basics, <1>2, <1>3 DEF SettleTake, Known, ScanRecs
<1> HIDE DEF p, s
<1>8. /\ LocalsTyped' /\ Others(t)
      /\ pc'[t] = p /\ call'[t] = call[t] /\ cid'[t] = cid[t] /\ own'[t] = own[t]
      /\ scan'[t] = s
  BY <1>1, <1>5, <1>6, <1>7, BecomesFacts DEF Known
<1>9. ThreadInv(t)'
  BY <1>4, <1>6, <1>7, <1>8, GroundFacts
     DEF SettleTake, p, Ground, ThreadInv, CallInv, CellInv, At, Scanning, HelpPcs,
         ReqPcs, ScanPcs, AskPcs, EnqPcs, DeqPcs
<1>10. QED BY <1>4, <1>8, <1>9 DEF LocalGood

LEMMA SettleCloseGood ==
  ASSUME Parts, NEW t \in Threads, SettleClose(t), UNCHANGED sent
  PROVE  SharedInv' /\ EndsGrow /\ LocalGood(t)
<1> DEFINE r == scan[t].helpee
           s == State(FALSE, Announced(t))
<1>1. Known(t) BY LocalFacts
<1>2. pc[t] \in ScanPcs /\ r \in Threads
  BY <1>1 DEF SettleClose, Known, CallInv, Scanning, ScanPcs, AskPcs
<1>3. s \in DeqStates /\ ~s.pending BY <1>1, Basics, StateFacts DEF Known, Announced
<1>4. EndsGrow BY <1>1 DEF SettleClose, Known, SharedTyped, EndsGrow
<1>5. ScanReturn(t) BY DEF SettleClose
<1>6. LocalGood(t) /\ deqPeer' \in [Threads -> Threads] BY <1>2, <1>4, <1>5, ScanReturnGood
<1>7. /\ deqState' = [deqState EXCEPT ![r] = s] \/ deqState' = deqState
      /\ UNCHANGED <<T, H, cells, enqReqs, deqId, enqPeer>>
  BY DEF SettleClose
<1> HIDE DEF s, r
<1>8. SharedInv' BY <1>2, <1>3, <1>6, <1>7, DeqReqShared
<1>9. QED BY <1>4, <1>6, <1>8

-----------------------------------------------------------------------------
(***************************************************************************)
(* The invariance                                                          *)
(***************************************************************************)

LEMMA InitIInv == Init => IInv
<1> SUFFICES ASSUME Init PROVE Parts BY IInvParts
<1>1. /\ T = Passed /\ H = Passed /\ Passed \in Nat /\ sent = Passed
      /\ \A c \in Cells : /\ cellVal[c] = IF c < Passed THEN c + 1 ELSE Bottom
                          /\ cellDeq[c] = IF c < Passed THEN Topp ELSE Null
  BY UseAssumption DEF Init, WfInit
<1>2. \A t \in Threads :
        (IF t = 0 THEN (Passed + 1) % NumThreads ELSE NextOf(t)) \in Threads
  <2>1. (Passed + 1) % NumThreads \in 0 .. NumThreads - 1
    BY <1>1, ThreadsAssumption, DivMod
  <2>2. QED BY <2>1, Basics DEF Threads
<1>3. SharedTyped
  <2>1. cellVal \in [Cells -> Words]
    <3>1. \A c \in Cells : (IF c < Passed THEN c + 1 ELSE Bottom) \in Words
      BY UseAssumption DEF Cells, Words, Values
    <3>2. QED BY <3>1 DEF Init, WfInit
  <2>2. State(FALSE, 0) \in States /\ State(FALSE, 0) \in DeqStates BY Basics, StateFacts
  <2>3. QED BY <1>1, <1>2, <2>1, <2>2, Basics DEF Init, WfInit, SharedTyped
<1>4. PublishedCovered /\ SpoiledCovered
  BY <1>1, Basics DEF PublishedCovered, SpoiledCovered, IsValue, Bottom, Top
<1>5. \A r \in Threads : ~deqState[r].pending BY DEF Init, WfInit, State
<1>6. LocalsTyped
  BY UseAssumption, CallFacts, OwnFacts, ScanFacts DEF Init, WfInit, LocalsTyped, Pcs
<1>7. ASSUME NEW t \in Threads PROVE ThreadInv(t)
  <2>1. pc[t] = "idle" /\ call[t].kind = "none" /\ scan[t] = NoScan
    BY DEF Init, WfInit, NoCall
  <2>2. NoScan.helpee = Null /\ ~NoScan.state.pending BY DEF NoScan, State
  <2>3. QED
    BY <2>1, <2>2 DEF ThreadInv, CallInv, CellInv, Scanning, EnqPcs, DeqPcs, HelpPcs,
                      ReqPcs, ScanPcs, AskPcs
<1>8. QED BY <1>3, <1>4, <1>5, <1>6, <1>7 DEF Parts, SharedInv

\* A call begins.
LEMMA CallGood ==
  ASSUME Parts, NEW t \in Threads, CallEnq(t) \/ CallDeq(t)
  PROVE  Parts'
<1>1. Known(t) BY LocalFacts
<1>2. /\ UNCHANGED <<T, H, cells, enqReqs, deqReqs, peers, cid, own, scan>>
      /\ pc[t] = "idle" /\ sent \in 0 .. MaxEnqs /\ sent' \in 0 .. MaxEnqs
  BY UseAssumption DEF CallEnq, CallDeq, EnqStart, DeqStart, Parts, LocalsTyped
<1>3. SharedInv' /\ EndsGrow BY <1>1, <1>2, QuietShared DEF Known, SharedTyped, peers
<1>4. PICK p \in {"enq_faa", "deq_faa"}, c \in CallRecs :
        /\ pc' = [pc EXCEPT ![t] = p] /\ call' = [call EXCEPT ![t] = c]
        /\ p = "enq_faa" => c.kind = "enq" /\ c.val \in Values
        /\ p = "deq_faa" => c.kind \in {"deq", "deq_bfs"}
  <2>1. CASE CallEnq(t)
    <3> DEFINE c == [kind |-> "enq", val |-> sent + 1, tries |-> Patience]
    <3>1. sent + 1 \in Values BY <1>2, <2>1, UseAssumption DEF CallEnq, Values
    <3>2. c \in CallRecs BY <3>1, PatienceAssumption DEF Values, CallRecs
    <3>3. QED BY <2>1, <3>1, <3>2 DEF CallEnq, EnqStart, GoTo
  <2>2. CASE CallDeq(t)
    <3>1. PICK kind \in Kinds : DeqStart(t, kind) BY <2>2 DEF CallDeq
    <3> DEFINE c == [kind |-> kind, val |-> Bottom, tries |-> Patience]
    <3>2. kind \in {"deq", "deq_bfs"} BY UseAssumption
    <3>3. c \in CallRecs BY <3>2, PatienceAssumption DEF CallRecs, Bottom
    <3>4. QED BY <3>1, <3>2, <3>3 DEF DeqStart, GoTo
  <2>3. QED BY <2>1, <2>2
<1>5. LocalsTyped'
  <2>1. p \in Pcs BY DEF Pcs, EnqPcs, DeqPcs
  <2>2. QED BY <1>2, <1>4, <2>1 DEF Parts, LocalsTyped
<1>6. Others(t) BY <1>2, <1>4 DEF Parts, LocalsTyped, Others
<1>7. pc'[t] = p /\ call'[t] = c /\ scan'[t] = scan[t]
  BY <1>2, <1>4 DEF Parts, LocalsTyped
<1>8. ThreadInv(t)'
  BY <1>2, <1>3, <1>4, <1>7, GroundFacts
     DEF Ground, ThreadInv, CallInv, CellInv, At, Scanning, EnqPcs, DeqPcs, HelpPcs,
         ReqPcs, ScanPcs, AskPcs
<1>9. QED BY <1>3, <1>5, <1>6, <1>8, StepGood DEF LocalGood

\* A step inside a call.
LEMMA InsideKeeps ==
  ASSUME Parts, NEW t \in Threads, Inside(t)
  PROVE  SharedInv' /\ EndsGrow /\ LocalGood(t)
<1>1. WfStep(t) /\ UNCHANGED sent BY DEF Inside
<1>3. CASE EnqTicket(t) \/ EnqPut(t) BY <1>1, <1>3, EnqTicketGood, EnqPutGood
<1>4. CASE EnqSlowStep(t)
  BY <1>1, <1>4, EnqPublishValGood, EnqPublishStateGood, EnqSlowTicketGood, EnqBindGood,
     EnqPeekGood, EnqClaimGood, EnqPendingGood, EnqFinalGood, EnqDestGood, EnqCoverGood,
     EnqStoreGood DEF EnqSlowStep
<1>5. CASE HelpEnqStep(t)
  BY <1>1, <1>5, HelpTopGood, HelpEnqGood, HelpPeerGood, HelpBindGood, HelpToppGood,
     HelpEndGood, HelpStateGood, HelpValGood, HelpClaimGood, HelpReloadGood, HelpCheckGood,
     HelpCoverGood, HelpStoreGood, HelpReadGood DEF HelpEnqStep
<1>6. CASE DeqStep(t)
  <2>1. CASE ScanState(t) \/ SettleState(t)
    <3>1. \E at \in ScanPcs, next \in {"scan_id", "settle_id"} : ScanReload(t, at, next)
      BY <2>1 DEF ScanState, SettleState, ScanPcs, AskPcs
    <3>2. QED BY <1>1, <3>1, ScanReloadGood
  <2>2. CASE ScanId(t)
    <3>1. \E next \in {"scan_cell", "settle_state"} : ScanSame(t, "scan_id", next)
      BY <2>2 DEF ScanId
    <3>2. "scan_id" \in ScanPcs BY DEF ScanPcs
    <3>3. QED BY <1>1, <3>1, <3>2, ScanSameGood
  <2>3. CASE SettleId(t)
    <3>1. ScanSame(t, "settle_id", "settle_deq") /\ pc[t] = "settle_id"
      BY <2>3 DEF SettleId, ScanSame
    <3>2. "settle_id" \in ScanPcs BY DEF ScanPcs, AskPcs
    <3>3. scan[t].state.pending BY <3>1, LocalFacts DEF Known, CellInv, AskPcs
    <3>4. QED BY <1>1, <3>1, <3>2, <3>3, ScanSameGood
  <2>4. QED
    BY <1>1, <1>6, <2>1, <2>2, <2>3, DeqTicketGood, DeqTakeGood, BfsLoadTGood,
       BfsLoadHGood, SlowPublishIdGood, SlowPublishStateGood, SlowResultGood, SlowValGood,
       SlowCoverGood, ScanStartGood, ScanFirstIdGood, ScanCellGood, ScanSeenGood,
       ScanAnnounceGood, SettleDeqGood, SettleValGood, SettleTakeGood, SettleCloseGood
       DEF DeqStep
<1>7. QED BY <1>1, <1>3, <1>4, <1>5, <1>6 DEF WfStep

LEMMA InsideGood == ASSUME Parts, NEW t \in Threads, Inside(t) PROVE Parts'
BY InsideKeeps, StepGood

LEMMA NextIInv == IInv /\ [Next]_vars => IInv'
<1>1. Parts' => IInv' BY IInvParts, PTL
<1>2. ASSUME Parts, [Next]_vars PROVE Parts'
  <2>1. CASE Next BY <1>2, <2>1, CallGood, InsideGood DEF Next
  <2>2. CASE UNCHANGED vars
    BY <1>2, <2>2
       DEF vars, wfVars, cells, enqReqs, deqReqs, peers, locals, useVars, Parts,
           SharedInv,
           SharedTyped, PublishedCovered, SpoiledCovered, LocalsTyped, ThreadInv, CallInv,
           CellInv, At, Scanning
  <2>3. QED BY <1>2, <2>1, <2>2
<1>3. QED BY <1>1, <1>2, IInvParts

\* The invariant holds in every state, whatever the patience, the number of threads and
\* of cells, and whether requests are reused or not.
THEOREM Invariance == Spec => []IInv
<1>1. QED BY InitIInv, NextIInv, PTL DEF Spec

\* The words of cells and requests keep their kinds, requests of dequeuers point into
\* the pool, and no dequeue returns WF_TOP or WF_BOTTOM as a value.
THEOREM TypesHold == Spec => []TypeOK
<1>1. IInv => TypeOK BY DEF IInv
<1>2. QED BY Invariance, <1>1, PTL

\* Whoever writes a value to a cell, an enqueuer on the fast path, one that commits its
\* own request or a helper (enq_commit), T has passed that cell before: no dequeuer
\* that compares T with its cell calls the queue empty with the value in it.
THEOREM PublishedAreCovered == Spec => []PublishedCovered
<1>1. IInv => PublishedCovered BY DEF IInv
<1>2. QED BY Invariance, <1>1, PTL

\* Every cell that a dequeuer spoiled or took is behind H, also when a scan of help_deq
\* got there without a ticket: no dequeuer gets a ticket of it afterwards.
THEOREM SpoiledAreCovered == Spec => []SpoiledCovered
<1>1. IInv => SpoiledCovered BY DEF IInv
<1>2. QED BY Invariance, <1>1, PTL

-----------------------------------------------------------------------------
(***************************************************************************)
(* Values and their places (WfQueueOrder)                                  *)
(*                                                                         *)
(* A step of t is shown to do no more to cells, requests and other threads *)
(* than Keeps(t) allows, and whatever keeps that much keeps what the other *)
(* threads know (OthersKeep).  What is left for each step is Store of the  *)
(* cells and requests, and what t itself knows afterwards.  The requests   *)
(* of dequeuers (AskedInv) and the values they have taken (TakenInv) come  *)
(* on top of that, in the same way.                                        *)
(***************************************************************************)

-----------------------------------------------------------------------------
(***************************************************************************)
(* What a step of one thread leaves alone                                  *)
(***************************************************************************)

\* A cell changes in three ways: it is spoiled, gets the value of the enqueuer that has
\* its ticket, or that of the request settled on it.
CellKept(t, c) ==
  \/ cellVal'[c] = cellVal[c]
  \/ cellVal[c] = Bottom /\ cellVal'[c] = Top
  \/ /\ cellVal[c] = Bottom /\ cellVal'[c] = call[t].val
     /\ pc[t] = "enq_put" /\ cid[t] = c /\ pc'[t] = "idle"
  \/ /\ cellVal[c] = Top /\ cellEnq[c] \in Threads /\ Settled(cellEnq[c], c)
     /\ cellVal'[c] = reqVal[cellEnq[c]]

\* A cell is bound once, by the enqueuer that has its ticket or after it was spoiled.
BindKept(t, c) ==
  \/ cellEnq'[c] = cellEnq[c]
  \/ cellEnq[c] = Null /\ pc[t] = "enq_bind" /\ cid[t] = c
  \/ cellEnq[c] = Null /\ cellVal[c] # Bottom

\* A request is published by its own thread, and settled once.
RequestKept(t, r) ==
  /\ \/ reqVal'[r] = reqVal[r]
     \/ /\ r = t /\ reqVal[r] = Bottom /\ reqVal'[r] = call[t].val
        /\ pc[t] = "enq_val" /\ pc'[t] = "enq_state"
  /\ \/ reqState'[r] = reqState[r]
     \/ Published(r) /\ reqState[r].pending /\ ~reqState'[r].pending
     \/ r = t /\ ~Published(r)
  /\ Published(r) => Published(r)'

\* The values that t has fresh and the ticket it holds are its own.
OwnKept(t) ==
  /\ pc'[t] \in FreshPcs =>
       IF pc[t] \in FreshPcs THEN call'[t].val = call[t].val ELSE call'[t].val > sent
  /\ pc'[t] \in TicketPcs =>
       \/ cid'[t] = T
       \/ pc[t] \in TicketPcs /\ cid'[t] = cid[t]

\* What any step of t leaves to the others.
Keeps(t) ==
  /\ EndsGrow /\ Others(t) /\ sent' >= sent /\ OwnKept(t)
  /\ \A c \in Cells : CellKept(t, c) /\ BindKept(t, c)
  /\ \A r \in Threads : RequestKept(t, r)
  /\ \A u \in Threads \ {t} : enqPeer'[u] = enqPeer[u]
  /\ \A v \in Values : v <= sent => older'[v] = older[v]

LEMMA StoreBasics ==
  /\ Bottom = 0 /\ Top = -1 /\ Null = -1 /\ Topp = -2
  /\ \A v \in Values : v \in Nat /\ v > 0 /\ IsValue(v)
  /\ \A b \in BOOLEAN, n \in Nat : State(b, n).pending = b /\ State(b, n).low = n
  /\ \A v \in Words : IsValue(v) => v \in Values
  /\ FreshPcs \subseteq EnqPcs /\ TicketPcs \subseteq EnqPcs /\ SettledPcs \subseteq EnqPcs
BY DEF Bottom, Top, Null, Topp, Values, IsValue, State, Words, FreshPcs, TicketPcs,
       SettledPcs, EnqPcs

\* A value keeps its place, what is behind stays so, and a dead cell stays dead.
LEMMA HoldsStays ==
  ASSUME Parts, NEW t \in Threads, Keeps(t), NEW c \in Cells, NEW v \in Values, Holds(c, v)
  PROVE  Holds(c, v)'
<1>1. CASE cellVal[c] = v
  <2>1. CellKept(t, c) BY DEF Keeps
  <2>2. cellVal'[c] = v BY <1>1, <2>1, StoreBasics DEF CellKept
  <2>3. QED BY <2>2 DEF Holds
<1>2. CASE cellEnq[c] \in Threads /\ Settled(cellEnq[c], c) /\ reqVal[cellEnq[c]] = v
  <2>1. BindKept(t, c) /\ RequestKept(t, cellEnq[c]) BY <1>2 DEF Keeps
  <2>2. cellEnq'[c] = cellEnq[c] BY <1>2, <2>1, Basics DEF BindKept
  <2>3. ~reqState[cellEnq[c]].pending BY <1>2 DEF Settled, State
  <2>4. /\ Published(cellEnq[c])' /\ reqVal'[cellEnq[c]] = v
        /\ reqState'[cellEnq[c]] = reqState[cellEnq[c]]
    BY <1>2, <2>1, <2>3, StoreBasics DEF RequestKept, Settled, Published
  <2>5. QED BY <1>2, <2>2, <2>4 DEF Holds, Settled
<1>3. QED BY <1>1, <1>2 DEF Holds

\* Behind in the next state.
BehindNext(v, n) == \A w \in older'[v] : \E c \in Cells : c < n /\ Holds(c, w)'

LEMMA BehindStays ==
  ASSUME Parts, Store, NEW t \in Threads, Keeps(t), NEW v \in Values, v <= sent,
         NEW n \in Nat, NEW m \in Nat, n <= m, Behind(v, n)
  PROVE  BehindNext(v, m)
<1>1. older'[v] = older[v] BY DEF Keeps
<1>2. \A w \in older[v] : w \in Values BY DEF Store, DoneInv
<1>3. \A w \in older[v] : \E c \in Cells : c < n /\ Holds(c, w)' 
  BY <1>2, HoldsStays DEF Behind
<1>4. \A c \in Cells : c < n => c < m BY Basics
<1>5. QED BY <1>1, <1>3, <1>4 DEF BehindNext

LEMMA DeadStays ==
  ASSUME Parts, Store, NEW t \in Threads, Keeps(t), NEW c \in Cells, Dead(c)
  PROVE  Dead(c)'
<1>1. cellVal[c] = Top /\ cellEnq[c] # Null BY DEF Dead
<1>2. CellKept(t, c) /\ BindKept(t, c) BY DEF Keeps
<1>3. cellEnq'[c] = cellEnq[c] BY <1>1, <1>2 DEF BindKept
<1>4. CASE cellEnq[c] \in Threads
  <2>1. ~reqState[cellEnq[c]].pending /\ reqState[cellEnq[c]].low # c BY <1>4 DEF Dead
  <2>2. ~Settled(cellEnq[c], c) BY <2>1, Basics DEF Settled, State
  <2>3. cellVal'[c] = Top BY <1>1, <1>2, <2>2, StoreBasics DEF CellKept
  <2>4. Published(cellEnq[c]) BY <1>4 DEF Store, CellsInv
  <2>5. reqState'[cellEnq[c]] = reqState[cellEnq[c]]
    BY <1>4, <2>1, <2>4 DEF Keeps, RequestKept
  <2>6. QED BY <1>1, <1>3, <2>1, <2>3, <2>5 DEF Dead
<1>5. CASE cellEnq[c] \notin Threads
  <2>1. cellVal'[c] = Top BY <1>1, <1>2, <1>5, StoreBasics DEF CellKept
  <2>2. QED BY <1>1, <1>3, <1>5, <2>1 DEF Dead
<1>6. QED BY <1>4, <1>5

\* The threads that do not take the step keep what they know.
LEMMA OthersKeep ==
  ASSUME Parts, Parts', Store, NEW t \in Threads, Keeps(t), NEW u \in Threads \ {t}
  PROVE  StoreThread(u)'
<1>1. /\ pc'[u] = pc[u] /\ call'[u] = call[u] /\ cid'[u] = cid[u]
      /\ own'[u] = own[u] /\ scan'[u] = scan[u]
  BY DEF Keeps, Others
<1>2. StoreThread(u) /\ StoreThread(t) /\ Known(u) /\ Known(t)
  BY LocalFacts DEF Store
<1>3. FreshInv(u)'
  <2>1. SUFFICES ASSUME pc[u] \in FreshPcs PROVE FreshInv(u)' BY <1>1 DEF FreshInv
  <2> DEFINE v == call[u].val
  <2>2. v \in Values /\ v <= sent /\ v \in Nat /\ v # Top
    BY <1>2, <2>1, StoreBasics
       DEF Known, CallInv, StoreThread, EnqOrderInv, FreshPcs, EnqPcs
  <2>3. ASSUME NEW c \in Cells PROVE cellVal'[c] # v
    <3>1. cellVal[c] # v BY <1>2, <2>1 DEF StoreThread, FreshInv
    <3>2. pc[t] = "enq_put" => call[t].val # v
      BY <1>2, <2>1 DEF StoreThread, FreshInv, FreshPcs
    <3>3. cellEnq[c] \in Threads => reqVal[cellEnq[c]] # v
      BY <1>2, <2>1 DEF StoreThread, FreshInv
    <3>4. CellKept(t, c) BY DEF Keeps
    <3>5. QED BY <2>2, <3>1, <3>2, <3>3, <3>4 DEF CellKept
  <2>4. ASSUME NEW r \in Threads PROVE reqVal'[r] # v
    <3>1. reqVal[r] # v BY <1>2, <2>1 DEF StoreThread, FreshInv
    <3>2. pc[t] = "enq_val" => call[t].val # v
      BY <1>2, <2>1 DEF StoreThread, FreshInv, FreshPcs
    <3>3. QED BY <3>1, <3>2 DEF Keeps, RequestKept
  <2>5. ASSUME NEW x \in Threads \ {u}, pc'[x] \in FreshPcs PROVE call'[x].val # v
    <3>1. CASE x # t
      <4>1. pc'[x] = pc[x] /\ call'[x] = call[x] BY <3>1 DEF Keeps, Others
      <4>2. QED BY <1>2, <2>1, <2>5, <4>1 DEF StoreThread, FreshInv
    <3>2. CASE x = t
      <4>1. CASE pc[t] \in FreshPcs
        <5>1. call'[t].val = call[t].val BY <2>5, <3>2, <4>1 DEF Keeps, OwnKept
        <5>2. QED BY <1>2, <2>1, <3>2, <4>1, <5>1 DEF StoreThread, FreshInv
      <4>2. CASE pc[t] \notin FreshPcs
        <5>1. call'[t].val > sent BY <2>5, <3>2, <4>2 DEF Keeps, OwnKept
        <5>2. sent \in Nat BY DEF Parts, LocalsTyped
        <5>3. QED BY <2>2, <3>2, <5>1, <5>2
      <4>3. QED BY <4>1, <4>2
    <3>3. QED BY <3>1, <3>2
  <2>6. QED BY <1>1, <2>3, <2>4, <2>5 DEF FreshInv
<1>4. TicketInv(u)'
  <2>1. SUFFICES ASSUME pc[u] \in TicketPcs PROVE TicketInv(u)' BY <1>1 DEF TicketInv
  <2> DEFINE c == cid[u]
  <2>2. TicketInv(u) /\ TicketInv(t) BY <1>2 DEF StoreThread
  <2>3. c \in Cells /\ c < T /\ T \in Nat /\ T' \in Nat /\ T' >= T /\ c \in Nat
    <3>1. c \in Cells /\ pc[u] \in LoopPcs /\ pc[u] \in EnqPcs
      BY <1>2, <2>1 DEF Known, CellInv, TicketPcs, LoopPcs, EnqPcs, SettledPcs
    <3>2. c < T BY <1>2, <3>1 DEF StoreThread, EnqOrderInv
    <3>3. QED BY <1>2, <3>1, <3>2, Basics DEF Known, SharedTyped, Keeps, EndsGrow
  <2>4. ASSUME NEW x \in Threads \ {u}, pc'[x] \in TicketPcs PROVE cid'[x] # c
    <3>1. CASE x # t
      <4>1. pc'[x] = pc[x] /\ cid'[x] = cid[x] BY <3>1 DEF Keeps, Others
      <4>2. QED BY <2>1, <2>2, <2>4, <4>1 DEF TicketInv
    <3>2. CASE x = t /\ cid'[t] = T BY <2>3, <3>2
    <3>3. CASE x = t /\ cid'[t] # T
      <4>1. pc[t] \in TicketPcs /\ cid'[t] = cid[t] BY <2>4, <3>3 DEF Keeps, OwnKept
      <4>2. QED BY <2>1, <2>2, <3>3, <4>1 DEF TicketInv
    <3>4. QED BY <3>1, <3>2, <3>3
  <2>5. CellKept(t, c) /\ BindKept(t, c) BY <2>3 DEF Keeps
  <2>6. pc[t] \in TicketPcs => cid[t] # c BY <2>1, <2>2 DEF TicketInv
  <2>7. ASSUME pc[u] \in {"enq_put", "enq_bind"}, cellEnq'[c] = Null
        PROVE  ~IsValue(cellVal'[c])
    <3>1. cellEnq[c] = Null BY <2>5, <2>7 DEF BindKept
    <3>2. ~IsValue(cellVal[c]) BY <2>1, <2>2, <2>7, <3>1 DEF TicketInv
    <3>3. QED
      BY <2>5, <2>6, <3>1, <3>2, Basics DEF CellKept, IsValue, Top, TicketPcs
  <2>8. ASSUME pc[u] \in {"enq_put", "enq_bind"}, cellVal'[c] = Bottom
        PROVE  cellEnq'[c] = Null
    <3>1. cellVal[c] = Bottom
      <4>1. pc[t] = "enq_put" => call[t].val # Bottom
        BY <1>2, StoreBasics DEF Known, CallInv, EnqPcs
      <4>2. cellEnq[c] \in Threads /\ Settled(cellEnq[c], c) => reqVal[cellEnq[c]] # Bottom
        BY DEF Settled, Published
      <4>3. QED BY <2>5, <2>8, <4>1, <4>2, StoreBasics DEF CellKept
    <3>2. cellEnq[c] = Null BY <2>1, <2>2, <2>8, <3>1 DEF TicketInv
    <3>3. QED BY <2>5, <2>6, <3>1, <3>2 DEF BindKept, TicketPcs
  <2>9. pc[u] \in {"enq_peek", "enq_claim"} => cellEnq'[c] = u
    BY <2>1, <2>2, <2>5, Basics DEF TicketInv, BindKept
  <2>10. QED BY <1>1, <2>4, <2>7, <2>8, <2>9 DEF TicketInv
<1>5. SlowInv(u)'
  <2>1. SUFFICES ASSUME pc[u] \in EnqPcs \ FreshPcs PROVE SlowInv(u)' BY <1>1 DEF SlowInv
  <2>2. SlowInv(u) BY <1>2 DEF StoreThread
  <2>3. reqVal[u] = call[u].val /\ call[u].val \in Values /\ call[u].val # Bottom
    BY <1>2, <2>1, <2>2, StoreBasics DEF SlowInv, Known, CallInv
  <2>4. reqVal'[u] = reqVal[u] BY <2>3 DEF Keeps, RequestKept
  <2>5. \/ reqState'[u] = reqState[u]
        \/ reqState[u].pending /\ ~reqState'[u].pending
    BY DEF Keeps, RequestKept
  <2>6. ASSUME pc[u] \in {"enq_cover", "enq_store"}
        PROVE  cellVal'[cid[u]] \in {Top, call[u].val}
    <3>1. cid[u] \in Cells /\ cellVal[cid[u]] \in {Top, call[u].val}
      BY <1>2, <2>1, <2>2, <2>6 DEF SlowInv, Known, CellInv
    <3>2. /\ ~reqState[u].pending /\ reqState[u].low = cid[u] /\ Published(u)
      BY <2>1, <2>2, <2>3, <2>6 DEF SlowInv, SettledPcs, Published
    <3>3. cellEnq[cid[u]] = u BY <3>2 DEF Store, RequestsInv
    <3>4. CellKept(t, cid[u]) BY <3>1 DEF Keeps
    <3>5. QED BY <2>3, <3>1, <3>3, <3>4, StoreBasics DEF CellKept
  <2>7. pc[u] \in SettledPcs => reqState'[u] = reqState[u]
    BY <2>1, <2>2, <2>5 DEF SlowInv
  <2>8. QED BY <1>1, <2>1, <2>2, <2>4, <2>5, <2>6, <2>7 DEF SlowInv
<1>6. EnqOrderInv(u)'
  <2>1. SUFFICES ASSUME pc[u] \in EnqPcs PROVE EnqOrderInv(u)' BY <1>1 DEF EnqOrderInv
  <2>2. EnqOrderInv(u) /\ call[u].val \in Values
    BY <1>2, <2>1 DEF StoreThread, Known, CallInv
  <2>3. /\ T \in Nat /\ T' \in Nat /\ T <= T' /\ cid[u] \in Nat /\ sent \in Nat
        /\ sent' \in Nat /\ sent <= sent' /\ call[u].val \in Nat
    BY <1>2 DEF Known, SharedTyped, Keeps, EndsGrow, Parts, LocalsTyped
  <2>4. BehindNext(call[u].val, T') BY <2>1, <2>2, <2>3, BehindStays DEF EnqOrderInv
  <2>5. pc[u] \in LoopPcs => cid[u] < T' /\ BehindNext(call[u].val, cid[u])
    BY <2>1, <2>2, <2>3, BehindStays DEF EnqOrderInv
  <2>6. QED
    BY <1>1, <2>2, <2>3, <2>4, <2>5, StoreBasics DEF EnqOrderInv, Behind, BehindNext
<1>7. HelpInv(u)'
  <2>1. SUFFICES ASSUME pc[u] \in HelpPcs PROVE HelpInv(u)'
    BY <1>1 DEF HelpInv, HelpPcs, ReqPcs
  <2>2. HelpInv(u) BY <1>2 DEF StoreThread
  <2> DEFINE c == At(u)
             r == own[u].req
  <2>3. At(u)' = At(u) /\ c \in Cells BY <1>1, <1>2, <2>1 DEF At, Scanning, Known, CellInv
  <2>4. CellKept(t, c) /\ BindKept(t, c) BY <2>3 DEF Keeps
  <2>5. cellVal[c] # Bottom => cellVal'[c] # Bottom
    <3>1. cellEnq[c] \in Threads /\ Settled(cellEnq[c], c) => reqVal[cellEnq[c]] # Bottom
      BY DEF Settled, Published
    <3>2. QED BY <2>4, <3>1, StoreBasics DEF CellKept
  <2>6. cellEnq[c] # Null => cellEnq'[c] = cellEnq[c] BY <2>4 DEF BindKept
  <2>7. cellVal[c] # Bottom /\ cellEnq'[c] = Null /\ cellVal[c] = Top => cellVal'[c] = Top
    BY <2>4, Basics, StoreBasics DEF CellKept, BindKept
  <2>8. ASSUME pc[u] = "help_bind"
        PROVE  LET p == enqPeer[u]
               IN /\ Published(p)'
                  /\ reqState'[p].pending => reqState'[p].low <= c
    <3>1. enqPeer[u] \in Threads BY <1>2 DEF Known, SharedTyped
    <3>2. Published(enqPeer[u]) /\ RequestKept(t, enqPeer[u]) /\ enqPeer'[u] = enqPeer[u]
      BY <2>2, <2>8, <3>1 DEF HelpInv, Keeps
    <3>3. QED BY <2>2, <2>8, <3>2 DEF HelpInv, RequestKept
  <2>9. ASSUME pc[u] \in ReqPcs
        PROVE  /\ r \in Threads /\ cellEnq[c] = r /\ Published(r) /\ Published(r)'
               /\ reqVal'[r] = reqVal[r]
               /\ \/ reqState'[r] = reqState[r]
                  \/ reqState[r].pending /\ ~reqState'[r].pending
    <3>1. r \in Threads /\ cellEnq[c] = r BY <1>2, <2>2, <2>9 DEF HelpInv, Known, CellInv
    <3>2. Published(r) BY <2>3, <3>1 DEF Store, CellsInv
    <3>3. RequestKept(t, r) /\ own'[u].req = r BY <1>1, <3>1 DEF Keeps
    <3>4. QED BY <3>1, <3>2, <3>3 DEF RequestKept, Published
  <2>10. pc[u] \in HelpPcs \ {"help_top"} => cellVal'[c] # Bottom
    BY <2>2, <2>5 DEF HelpInv
  <2>11. pc[u] \in {"help_enq", "help_peer", "help_bind", "help_topp"} /\ cellEnq'[c] = Null =>
           cellVal'[c] = Top
    <3>1. {"help_enq", "help_peer", "help_bind", "help_topp"} \subseteq HelpPcs \ {"help_top"}
      BY DEF HelpPcs
    <3>2. QED BY <2>2, <2>4, <2>6, <2>7, <3>1 DEF HelpInv, BindKept
  <2>12. pc[u] = "help_val" =>
           \/ reqState'[r] = own[u].state
           \/ own[u].state.pending /\ ~reqState'[r].pending
    BY <2>2, <2>9 DEF HelpInv, ReqPcs
  <2>13. /\ pc[u] = "help_claim" /\ reqState'[r].pending => reqState'[r] = own[u].state
         /\ pc[u] = "help_reload" => ~reqState'[r].pending
    BY <2>2, <2>9 DEF HelpInv, ReqPcs
  <2>14. pc[u] \in {"help_check", "help_cover", "help_store"} =>
           reqState'[r] = State(FALSE, c)
    BY <2>2, <2>3, <2>9, StoreBasics, Basics DEF HelpInv, ReqPcs
  <2>15. pc[u] = "help_end" => Dead(c)' BY <2>2, <2>3, DeadStays DEF HelpInv
  <2>16. pc[u] = "help_read" => IsValue(cellVal'[c]) \/ Dead(c)'
    <3>1. IsValue(cellVal[c]) => cellVal'[c] = cellVal[c]
      BY <2>4, StoreBasics DEF CellKept, IsValue
    <3>2. QED BY <2>2, <2>3, <3>1, DeadStays DEF HelpInv
  <2>17. pc[u] = "help_val" /\ own[u].state.pending => own[u].state.low <= c
    BY <2>2 DEF HelpInv
  <2>18. pc[u] \in {"help_claim", "help_reload", "help_check", "help_cover", "help_store"} =>
           own[u].val = reqVal'[r]
    BY <2>2, <2>9 DEF HelpInv, ReqPcs
  <2>19. pc[u] \in ReqPcs => cellEnq'[c] = r BY <2>6, <2>9, Basics
  <2>20. /\ pc'[u] = pc[u] /\ own'[u] = own[u] /\ At(u)' = c BY <1>1, <2>3
  <2> HIDE DEF r
  <2>21. own[u].req = r BY DEF r
  <2>22. /\ pc'[u] \in HelpPcs \ {"help_top"} => cellVal'[At(u)'] # Bottom
         /\ pc'[u] \in {"help_enq", "help_peer", "help_bind", "help_topp"}
              /\ cellEnq'[At(u)'] = Null => cellVal'[At(u)'] = Top
    BY <2>10, <2>11, <2>20
  <2>23. pc'[u] = "help_bind" =>
           /\ Published(enqPeer[u])'
           /\ reqState'[enqPeer'[u]].pending => reqState'[enqPeer'[u]].low <= At(u)'
    <3>1. enqPeer'[u] = enqPeer[u] BY DEF Keeps
    <3>2. QED BY <2>8, <2>20, <3>1
  <2>24. pc'[u] \in ReqPcs => cellEnq'[At(u)'] = own'[u].req BY <2>19, <2>20, <2>21
  <2>25. /\ pc'[u] = "help_val" =>
              \/ reqState'[own'[u].req] = own'[u].state
              \/ own'[u].state.pending /\ ~reqState'[own'[u].req].pending
         /\ pc'[u] = "help_val" /\ own'[u].state.pending => own'[u].state.low <= At(u)'
    BY <2>12, <2>17, <2>20, <2>21
  <2>26. /\ pc'[u] \in {"help_claim", "help_reload", "help_check", "help_cover", "help_store"} =>
              own'[u].val = reqVal'[own'[u].req]
         /\ pc'[u] = "help_claim" /\ reqState'[own'[u].req].pending =>
              reqState'[own'[u].req] = own'[u].state
         /\ pc'[u] = "help_reload" => ~reqState'[own'[u].req].pending
         /\ pc'[u] \in {"help_check", "help_cover", "help_store"} =>
              reqState'[own'[u].req] = State(FALSE, At(u)')
    BY <2>13, <2>14, <2>18, <2>20, <2>21
  <2>27. /\ pc'[u] = "help_end" => Dead(At(u))'
         /\ pc'[u] = "help_read" => IsValue(cellVal'[At(u)']) \/ Dead(At(u))'
    BY <2>15, <2>16, <2>20
  <2>28. QED BY <2>22, <2>23, <2>24, <2>25, <2>26, <2>27 DEF HelpInv, IsValue, State
<1>8. QED BY <1>3, <1>4, <1>5, <1>6, <1>7 DEF StoreThread

LEMMA StoreFacts ==
  ASSUME Parts, Store
  PROVE  /\ T \in Nat /\ H \in Nat /\ sent \in Nat
         /\ \A r \in Threads : /\ reqVal[r] \in Values \cup {Bottom} /\ reqVal[r] <= sent
                               /\ reqState[r] \in States /\ reqState[r].low \in Nat
                               /\ reqState[r].pending \in BOOLEAN
                               /\ Published(r) => reqVal[r] \in Values
         /\ \A c \in Cells : c \in Nat /\ cellVal[c] \in Words /\ cellVal[c] <= sent
         /\ \A c \in Cells, v \in Values : Holds(c, v) => v <= sent
<1>1. /\ T \in Nat /\ H \in Nat /\ sent \in Nat
      /\ \A r \in Threads : /\ reqVal[r] \in Values \cup {Bottom}
                            /\ reqState[r] \in States
      /\ \A c \in Cells : cellVal[c] \in Words
  BY DEF Parts, SharedInv, SharedTyped, LocalsTyped
<1>2. \A s \in States : s.low \in Nat /\ s.pending \in BOOLEAN BY DEF States
<1>3. \A r \in Threads : reqVal[r] <= sent BY DEF Store, RequestsInv
<1>4. \A c \in Cells : cellVal[c] <= sent BY DEF Store, CellsInv
<1>5. \A c \in Cells, v \in Values : Holds(c, v) => v <= sent BY <1>3, <1>4 DEF Holds
<1>6. QED BY <1>1, <1>2, <1>3, <1>4, <1>5, Basics DEF Published

\* The values that were done stay done and in their places.
LEMMA DoneKept ==
  ASSUME Parts, Parts', Store, NEW t \in Threads, Keeps(t),
         older' \in [Values -> SUBSET done'],
         \/ done' = done
         \/ \E v \in Values : done' = done \cup {v} /\ \E c \in Cells : c < T' /\ Holds(c, v)'
  PROVE  DoneInv'
<1>1. ASSUME NEW v \in done PROVE v \in Values /\ \E c \in Cells : c < T' /\ Holds(c, v)'
  <2>1. v \in Values BY DEF Store, DoneInv
  <2>2. PICK c \in Cells : c < T /\ Holds(c, v) BY DEF Store, DoneInv
  <2>3. Holds(c, v)' BY <2>1, <2>2, HoldsStays
  <2>4. T \in Nat /\ T' \in Nat /\ T <= T' /\ c \in Nat
    BY StoreFacts, Basics DEF Keeps, EndsGrow
  <2>5. QED BY <2>1, <2>2, <2>3, <2>4
<1>2. ASSUME NEW v \in done' PROVE v \in Values /\ \E c \in Cells : c < T' /\ Holds(c, v)'
  BY <1>1, <1>2
<1>3. QED BY <1>2 DEF DoneInv

\* What CellsInv says of one cell.
CellGood(c) ==
  /\ cellVal[c] <= sent
  /\ cellEnq[c] \in Threads =>
       /\ Published(cellEnq[c])
       /\ reqState[cellEnq[c]].pending => reqState[cellEnq[c]].low <= c
       /\ cellVal[c] \in {Bottom, Top, reqVal[cellEnq[c]]}
  /\ cellEnq[c] = Topp => cellVal[c] = Top
  /\ cellVal[c] = Bottom /\ cellEnq[c] # Null => c < T
  /\ \A r \in Threads : IsValue(cellVal[c]) /\ cellVal[c] = reqVal[r] => Settled(r, c)
  /\ \A v \in Values : Holds(c, v) => Behind(v, c)

\* No request is published or settled.
RequestsStay ==
  /\ UNCHANGED <<reqVal, reqState>>
  /\ \A r \in Threads : Published(r)' <=> Published(r)

LEMMA SentGrows ==
  ASSUME Parts, Parts', Store, NEW t \in Threads, Keeps(t)
  PROVE  /\ sent \in Nat /\ sent' \in Nat /\ sent <= sent'
         /\ T \in Nat /\ T' \in Nat /\ T <= T'
         /\ \A n \in Nat, v \in Values : v <= sent /\ Behind(v, n) => BehindNext(v, n)
BY BehindStays, StoreFacts DEF Keeps, EndsGrow, Parts, LocalsTyped

LEMMA RequestsKept ==
  ASSUME Parts, Parts', Store, NEW t \in Threads, Keeps(t), RequestsStay
  PROVE  RequestsInv'
<1>1. ASSUME NEW r \in Threads
      PROVE  /\ reqVal[r] <= sent'
             /\ reqState[r].pending => Published(r)' /\ BehindNext(reqVal[r], reqState[r].low)
             /\ Published(r)' /\ ~reqState[r].pending =>
                  reqState[r].low \in Cells /\ cellEnq'[reqState[r].low] = r
             /\ \A s \in Threads : reqVal[r] # Bottom /\ reqVal[r] = reqVal[s] => r = s
  <2>1. /\ reqVal[r] <= sent
        /\ reqState[r].pending => Published(r) /\ Behind(reqVal[r], reqState[r].low)
        /\ Published(r) /\ ~reqState[r].pending =>
             reqState[r].low \in Cells /\ cellEnq[reqState[r].low] = r
        /\ \A s \in Threads : reqVal[r] # Bottom /\ reqVal[r] = reqVal[s] => r = s
    BY DEF Store, RequestsInv
  <2>2. /\ reqVal[r] \in Values \cup {Bottom} /\ reqState[r].low \in Nat
        /\ Published(r) => reqVal[r] \in Values
    BY StoreFacts
  <2>3. Published(r)' <=> Published(r) BY DEF RequestsStay
  <2>4. reqVal[r] <= sent' BY <2>1, <2>2, SentGrows, StoreBasics
  <2>5. reqState[r].pending => BehindNext(reqVal[r], reqState[r].low)
    BY <2>1, <2>2, SentGrows
  <2>6. ASSUME Published(r), ~reqState[r].pending PROVE cellEnq'[reqState[r].low] = r
    <3>1. reqState[r].low \in Cells /\ cellEnq[reqState[r].low] = r BY <2>1, <2>6
    <3>2. QED BY <3>1, Basics DEF Keeps, BindKept
  <2>7. QED BY <2>1, <2>3, <2>4, <2>5, <2>6
<1>2. QED BY <1>1 DEF RequestsStay, RequestsInv, Behind, BehindNext

\* A cell that the step leaves alone.
LEMMA CellStays ==
  ASSUME Parts, Parts', Store, NEW t \in Threads, Keeps(t), RequestsStay, NEW c \in Cells,
         cellVal'[c] = cellVal[c], cellEnq'[c] = cellEnq[c]
  PROVE  CellGood(c)'
<1>1. CellGood(c) BY DEF Store, CellsInv, CellGood
<1>2. c \in Nat /\ cellVal[c] \in Int BY StoreFacts, StoreBasics DEF Words
<1>3. \A r \in Threads : Settled(r, c)' <=> Settled(r, c) BY DEF RequestsStay, Settled, State
<1>4. \A v \in Values : Holds(c, v)' => Holds(c, v) BY <1>3 DEF RequestsStay, Holds
<1>5. \A v \in Values : Holds(c, v)' => BehindNext(v, c)
  BY <1>1, <1>2, <1>4, StoreFacts, SentGrows DEF CellGood
<1>6. cellVal'[c] <= sent' BY <1>1, <1>2, SentGrows DEF CellGood
<1>7. cellVal'[c] = Bottom /\ cellEnq'[c] # Null => c < T' BY <1>1, <1>2, SentGrows DEF CellGood
<1>8. cellEnq'[c] \in Threads =>
       /\ Published(cellEnq[c])'
       /\ reqState'[cellEnq'[c]].pending => reqState'[cellEnq'[c]].low <= c
       /\ cellVal'[c] \in {Bottom, Top, reqVal'[cellEnq'[c]]}
  BY <1>1 DEF CellGood, RequestsStay, Published
<1>9. cellEnq'[c] = Topp => cellVal'[c] = Top BY <1>1 DEF CellGood
<1>10. \A r \in Threads : IsValue(cellVal'[c]) /\ cellVal'[c] = reqVal'[r] => Settled(r, c)'
  BY <1>1, <1>3 DEF CellGood, RequestsStay
<1>11. QED BY <1>5, <1>6, <1>7, <1>8, <1>9, <1>10 DEF CellGood, Behind, BehindNext, IsValue

SharedStore == RequestsInv /\ CellsInv /\ OneEach

LEMMA UntouchedStore ==
  ASSUME Parts, Parts', Store, NEW t \in Threads, Keeps(t), RequestsStay,
         UNCHANGED <<cellVal, cellEnq>>
  PROVE  SharedStore'
<1>1. RequestsInv' BY RequestsKept
<1>2. \A c \in Cells : CellGood(c)' BY CellStays
<1>3. CellsInv' BY <1>2 DEF CellsInv, CellGood
<1>4. OneEach' BY DEF Store, OneEach, IsValue
<1>5. QED BY <1>1, <1>3, <1>4 DEF SharedStore

\* A dequeuer spoils the cell.
LEMMA SpoiledStore ==
  ASSUME Parts, Parts', Store, NEW t \in Threads, Keeps(t), RequestsStay, UNCHANGED cellEnq,
         NEW c \in Cells, ~IsValue(cellVal[c]), cellVal' = [cellVal EXCEPT ![c] = Top]
  PROVE  SharedStore'
<1>1. RequestsInv' BY RequestsKept
<1>2. cellVal'[c] = Top /\ \A d \in Cells \ {c} : cellVal'[d] = cellVal[d]
  BY DEF Parts, SharedInv, SharedTyped
<1>3. CellGood(c)'
  <2>1. CellGood(c) BY DEF Store, CellsInv, CellGood
  <2>2. c \in Nat /\ sent' \in Nat /\ Top = -1 /\ ~IsValue(Top) /\ Top # Bottom
    BY SentGrows, Basics, StoreBasics DEF IsValue
  <2>3. \A r \in Threads : Settled(r, c)' <=> Settled(r, c) BY DEF RequestsStay, Settled, State
  <2>4. \A v \in Values : v # Top BY StoreBasics
  <2>5. \A v \in Values : Holds(c, v)' => Holds(c, v)
    BY <1>2, <2>3, <2>4 DEF RequestsStay, Holds
  <2>6. \A v \in Values : Holds(c, v)' => BehindNext(v, c)
    BY <2>1, <2>2, <2>5, StoreFacts, SentGrows DEF CellGood
  <2>7. cellVal'[c] <= sent' BY <1>2, <2>2
  <2>8. cellEnq'[c] \in Threads =>
         /\ Published(cellEnq[c])'
         /\ reqState'[cellEnq'[c]].pending => reqState'[cellEnq'[c]].low <= c
    BY <2>1 DEF CellGood, RequestsStay, Published
  <2>9. QED BY <1>2, <2>2, <2>6, <2>7, <2>8 DEF CellGood, Behind, BehindNext, IsValue
<1>4. \A d \in Cells \ {c} : CellGood(d)' BY <1>2, CellStays
<1>5. CellsInv' BY <1>3, <1>4 DEF CellsInv, CellGood
<1>6. OneEach' BY <1>2, StoreBasics DEF Store, OneEach, IsValue
<1>7. QED BY <1>1, <1>5, <1>6 DEF SharedStore

\* An enqueuer puts a value that is nowhere yet into a cell that is not bound.
LEMMA PutStore ==
  ASSUME Parts, Parts', Store, NEW t \in Threads, Keeps(t), RequestsStay, UNCHANGED cellEnq,
         NEW c \in Cells, cellEnq[c] = Null,
         NEW x \in Values, x <= sent, Behind(x, c),
         \A d \in Cells : cellVal[d] # x, \A r \in Threads : reqVal[r] # x,
         cellVal' = [cellVal EXCEPT ![c] = x]
  PROVE  SharedStore'
<1>1. RequestsInv' BY RequestsKept
<1>2. cellVal'[c] = x /\ \A d \in Cells \ {c} : cellVal'[d] = cellVal[d]
  BY DEF Parts, SharedInv, SharedTyped
<1>3. CellGood(c)'
  <2>1. c \in Nat /\ x \in Nat /\ x # Bottom /\ cellEnq'[c] = Null
    BY Basics, StoreBasics
  <2>2. \A v \in Values : Holds(c, v)' => v = x BY <1>2, <2>1, Basics DEF Holds
  <2>3. BehindNext(x, c) BY <2>1, SentGrows
  <2>4. x <= sent' BY <2>1, SentGrows
  <2>5. QED
    BY <1>2, <2>1, <2>2, <2>3, <2>4, Basics
       DEF RequestsStay, CellGood, Behind, BehindNext, IsValue
<1>4. \A d \in Cells \ {c} : CellGood(d)' BY <1>2, CellStays
<1>5. CellsInv' BY <1>3, <1>4 DEF CellsInv, CellGood
<1>6. OneEach' BY <1>2 DEF Store, OneEach, IsValue
<1>7. QED BY <1>1, <1>5, <1>6 DEF SharedStore

\* An owner or a helper commits a settled request to its cell.
LEMMA CommitStore ==
  ASSUME Parts, Parts', Store, NEW t \in Threads, Keeps(t), RequestsStay, UNCHANGED cellEnq,
         NEW c \in Cells, NEW r \in Threads, cellEnq[c] = r, Settled(r, c),
         cellVal' = [cellVal EXCEPT ![c] = reqVal[r]]
  PROVE  SharedStore'
<1> DEFINE x == reqVal[r]
<1>1. RequestsInv' BY RequestsKept
<1>2. cellVal'[c] = x /\ \A d \in Cells \ {c} : cellVal'[d] = cellVal[d]
  BY DEF Parts, SharedInv, SharedTyped
<1>3. x \in Values /\ x <= sent /\ x \in Nat /\ x # Bottom /\ IsValue(x)
  BY StoreFacts, StoreBasics DEF Settled
<1>4. \A d \in Cells : cellVal[d] = x => d = c
  <2>1. \A d \in Cells : cellVal[d] = x => Settled(r, d) BY <1>3 DEF Store, CellsInv
  <2>2. \A d \in Cells : Settled(r, d) => d = c BY DEF Settled, State
  <2>3. QED BY <2>1, <2>2
<1>5. CellGood(c)'
  <2>1. CellGood(c) BY DEF Store, CellsInv, CellGood
  <2>2. c \in Nat /\ Null # r /\ Topp # r BY Basics
  <2>3. \A s \in Threads : Settled(s, c)' <=> Settled(s, c) BY DEF RequestsStay, Settled, State
  <2>4. \A v \in Values : Holds(c, v)' => Holds(c, v)
    BY <1>2, <2>3 DEF RequestsStay, Holds
  <2>5. \A v \in Values : Holds(c, v)' => BehindNext(v, c)
    BY <2>1, <2>2, <2>4, StoreFacts, SentGrows DEF CellGood
  <2>6. cellVal'[c] <= sent' BY <1>2, <1>3, SentGrows
  <2>7. /\ Published(r)' /\ cellVal'[c] = reqVal'[r]
        /\ reqState'[r].pending => reqState'[r].low <= c
    BY <1>2, <2>1 DEF CellGood, RequestsStay
  <2>8. \A s \in Threads : cellVal'[c] = reqVal'[s] => Settled(s, c)'
    <3>1. \A s \in Threads : x = reqVal[s] => s = r BY <1>3 DEF Store, RequestsInv
    <3>2. QED BY <1>2, <2>3, <3>1 DEF RequestsStay
  <2>9. cellEnq'[c] \in Threads =>
         /\ Published(cellEnq[c])'
         /\ reqState'[cellEnq'[c]].pending => reqState'[cellEnq'[c]].low <= c
         /\ cellVal'[c] \in {Bottom, Top, reqVal'[cellEnq'[c]]}
    BY <2>7 DEF Published
  <2>10. cellEnq'[c] # Topp /\ cellVal'[c] # Bottom BY <1>2, <1>3, <2>2
  <2>11. QED BY <2>5, <2>6, <2>8, <2>9, <2>10 DEF CellGood, Behind, BehindNext
<1>6. \A d \in Cells \ {c} : CellGood(d)' BY <1>2, CellStays
<1>7. CellsInv' BY <1>5, <1>6 DEF CellsInv, CellGood
<1>8. OneEach' BY <1>2, <1>4 DEF Store, OneEach, IsValue
<1>9. QED BY <1>1, <1>7, <1>8 DEF SharedStore

\* A cell is bound to a request, or to none for good.
LEMMA BoundStore ==
  ASSUME Parts, Parts', Store, NEW t \in Threads, Keeps(t), RequestsStay, UNCHANGED cellVal,
         NEW c \in Cells, cellEnq[c] = Null, NEW b \in Threads \cup {Topp},
         b = Topp => cellVal[c] = Top,
         b \in Threads => /\ Published(b) /\ ~IsValue(cellVal[c])
                          /\ reqState[b].pending => reqState[b].low <= c,
         cellVal[c] = Bottom => c < T,
         cellEnq' = [cellEnq EXCEPT ![c] = b]
  PROVE  SharedStore'
<1>1. RequestsInv' BY RequestsKept
<1>2. cellEnq'[c] = b /\ \A d \in Cells \ {c} : cellEnq'[d] = cellEnq[d]
  BY DEF Parts, SharedInv, SharedTyped
<1>3. CellGood(c)'
  <2>1. CellGood(c) BY DEF Store, CellsInv, CellGood
  <2>2. c \in Nat /\ cellVal[c] \in Words /\ sent \in Nat /\ Topp \notin Threads
    BY StoreFacts, Basics
  <2>3. \A r \in Threads : Settled(r, c)' <=> Settled(r, c) BY DEF RequestsStay, Settled, State
  <2>4. ASSUME b \in Threads PROVE ~Settled(b, c)
    <3>1. Settled(b, c) => cellEnq[c] = b BY <2>4 DEF Settled, State, Store, RequestsInv
    <3>2. QED BY <2>4, <3>1, Basics
  <2>5. \A v \in Values : Holds(c, v)' => Holds(c, v)
    BY <1>2, <2>3, <2>4 DEF RequestsStay, Holds
  <2>6. \A v \in Values : Holds(c, v)' => BehindNext(v, c)
    BY <2>1, <2>2, <2>5, StoreFacts, SentGrows DEF CellGood
  <2>7. cellVal[c] <= sent' BY <2>1, <2>2, SentGrows, StoreBasics DEF CellGood, Words
  <2>8. b \in Threads =>
         /\ Published(b)'
         /\ reqState'[b].pending => reqState'[b].low <= c
         /\ cellVal[c] \in {Bottom, Top}
    BY <2>2 DEF RequestsStay, Words, IsValue, Values
  <2>9. cellVal[c] = Bottom => c < T' BY <2>2, SentGrows
  <2>10. \A r \in Threads : IsValue(cellVal[c]) /\ cellVal[c] = reqVal'[r] => Settled(r, c)'
    BY <2>1, <2>3 DEF CellGood, RequestsStay
  <2>11. QED
    BY <1>2, <2>2, <2>6, <2>7, <2>8, <2>9, <2>10
       DEF CellGood, Behind, BehindNext, IsValue, Published
<1>4. \A d \in Cells \ {c} : CellGood(d)' BY <1>2, CellStays
<1>5. CellsInv' BY <1>3, <1>4 DEF CellsInv, CellGood
<1>6. OneEach' BY DEF Store, OneEach, IsValue
<1>7. QED BY <1>1, <1>5, <1>6 DEF SharedStore

\* A step on one request keeps what is known of a cell that is not bound to it and
\* does not hold its value.
LEMMA CellApart ==
  ASSUME Parts, Parts', Store, NEW t \in Threads, Keeps(t), UNCHANGED <<cellVal, cellEnq>>,
         NEW r \in Threads, NEW c \in Cells, cellEnq[c] # r,
         \A s \in Threads \ {r} :
           /\ reqVal'[s] = reqVal[s] /\ reqState'[s] = reqState[s]
           /\ Published(s)' <=> Published(s),
         IsValue(cellVal[c]) => cellVal[c] # reqVal'[r]
  PROVE  CellGood(c)'
<1>1. CellGood(c) BY DEF Store, CellsInv, CellGood
<1>2. c \in Nat /\ cellVal[c] \in Int BY StoreFacts, StoreBasics DEF Words
<1>3. \A s \in Threads \ {r} : Settled(s, c)' <=> Settled(s, c) BY DEF Settled, State
<1>4. \A v \in Values : Holds(c, v)' => Holds(c, v) BY <1>3 DEF Holds
<1>5. \A v \in Values : Holds(c, v)' => BehindNext(v, c)
  BY <1>1, <1>2, <1>4, StoreFacts, SentGrows DEF CellGood
<1>6. cellVal'[c] <= sent' BY <1>1, <1>2, SentGrows DEF CellGood
<1>7. cellVal'[c] = Bottom /\ cellEnq'[c] # Null => c < T' BY <1>1, <1>2, SentGrows DEF CellGood
<1>8. cellEnq'[c] \in Threads =>
       /\ Published(cellEnq[c])'
       /\ reqState'[cellEnq'[c]].pending => reqState'[cellEnq'[c]].low <= c
       /\ cellVal'[c] \in {Bottom, Top, reqVal'[cellEnq'[c]]}
  BY <1>1 DEF CellGood, Published
<1>9. cellEnq'[c] = Topp => cellVal'[c] = Top BY <1>1 DEF CellGood
<1>10. \A s \in Threads : IsValue(cellVal'[c]) /\ cellVal'[c] = reqVal'[s] => Settled(s, c)'
  BY <1>1, <1>3 DEF CellGood
<1>11. QED BY <1>5, <1>6, <1>7, <1>8, <1>9, <1>10 DEF CellGood, Behind, BehindNext, IsValue

\* What RequestsInv says of a request that the step leaves alone.
LEMMA RequestApart ==
  ASSUME Parts, Parts', Store, NEW t \in Threads, Keeps(t), NEW s \in Threads,
         reqVal'[s] = reqVal[s], reqState'[s] = reqState[s], Published(s)' <=> Published(s)
  PROVE  /\ reqVal'[s] <= sent'
         /\ reqState'[s].pending => Published(s)' /\ BehindNext(reqVal'[s], reqState'[s].low)
         /\ Published(s)' /\ ~reqState'[s].pending =>
              reqState'[s].low \in Cells /\ cellEnq'[reqState'[s].low] = s
<1>1. /\ reqVal[s] <= sent
      /\ reqState[s].pending => Published(s) /\ Behind(reqVal[s], reqState[s].low)
      /\ Published(s) /\ ~reqState[s].pending =>
           reqState[s].low \in Cells /\ cellEnq[reqState[s].low] = s
  BY DEF Store, RequestsInv
<1>2. /\ reqVal[s] \in Values \cup {Bottom} /\ reqState[s].low \in Nat
      /\ Published(s) => reqVal[s] \in Values
  BY StoreFacts
<1>3. reqVal[s] <= sent' BY <1>1, <1>2, SentGrows, StoreBasics
<1>4. reqState[s].pending => BehindNext(reqVal[s], reqState[s].low)
  BY <1>1, <1>2, SentGrows
<1>5. ASSUME Published(s), ~reqState[s].pending PROVE cellEnq'[reqState[s].low] = s
  <2>1. reqState[s].low \in Cells /\ cellEnq[reqState[s].low] = s BY <1>1, <1>5
  <2>2. QED BY <2>1, Basics DEF Keeps, BindKept
<1>6. QED BY <1>1, <1>3, <1>4, <1>5

\* enq_slow stores the value of its request.
LEMMA ValueStore ==
  ASSUME Parts, Parts', Store, NEW t \in Threads, Keeps(t),
         UNCHANGED <<cellVal, cellEnq, reqState>>,
         ~Published(t), ~Published(t)',
         \A s \in Threads \ {t} : Published(s)' <=> Published(s),
         NEW x \in Values, x <= sent,
         \A c \in Cells : cellVal[c] # x, \A s \in Threads : reqVal[s] # x,
         reqVal' = [reqVal EXCEPT ![t] = x]
  PROVE  SharedStore'
<1>1. reqVal'[t] = x /\ \A s \in Threads \ {t} : reqVal'[s] = reqVal[s]
  BY DEF Parts, SharedInv, SharedTyped
<1>2. \A c \in Cells : cellEnq[c] # t BY DEF Store, CellsInv
<1>3. \A c \in Cells : CellGood(c)' BY <1>1, <1>2, CellApart
<1>4. CellsInv' BY <1>3 DEF CellsInv, CellGood
<1>5. ~reqState[t].pending BY DEF Store, RequestsInv
<1>6. x <= sent' BY SentGrows, StoreBasics
<1>7. \A r, s \in Threads : reqVal'[r] # Bottom /\ reqVal'[r] = reqVal'[s] => r = s
  <2>1. \A r, s \in Threads : reqVal[r] # Bottom /\ reqVal[r] = reqVal[s] => r = s
    BY DEF Store, RequestsInv
  <2>2. QED BY <1>1, <2>1
<1>8. ASSUME NEW s \in Threads
      PROVE  /\ reqVal'[s] <= sent'
             /\ reqState'[s].pending => Published(s)' /\ BehindNext(reqVal'[s], reqState'[s].low)
             /\ Published(s)' /\ ~reqState'[s].pending =>
                  reqState'[s].low \in Cells /\ cellEnq'[reqState'[s].low] = s
  <2>1. CASE s = t BY <1>1, <1>5, <1>6, <2>1
  <2>2. CASE s # t BY <1>1, <2>2, RequestApart
  <2>3. QED BY <2>1, <2>2
<1>9. RequestsInv' BY <1>7, <1>8 DEF RequestsInv, Behind, BehindNext
<1>10. OneEach' BY DEF Store, OneEach, IsValue
<1>11. QED BY <1>4, <1>9, <1>10 DEF SharedStore

\* enq_slow stores the state of its request, which is out from then on.
LEMMA OutStore ==
  ASSUME Parts, Parts', Store, NEW t \in Threads, Keeps(t),
         UNCHANGED <<cellVal, cellEnq, reqVal>>,
         ~Published(t), Published(t)',
         \A s \in Threads \ {t} : Published(s)' <=> Published(s),
         NEW n \in Nat, Behind(reqVal[t], n), reqVal[t] \in Values,
         reqState' = [reqState EXCEPT ![t] = State(TRUE, n)]
  PROVE  SharedStore'
<1>1. /\ reqState'[t].pending /\ reqState'[t].low = n
      /\ \A s \in Threads \ {t} : reqState'[s] = reqState[s]
  BY DEF Parts, SharedInv, SharedTyped, State
<1>2. \A c \in Cells : cellEnq[c] # t BY DEF Store, CellsInv
<1>3. \A c \in Cells : IsValue(cellVal[c]) => cellVal[c] # reqVal'[t]
  BY DEF Store, CellsInv, Settled
<1>4. \A c \in Cells : CellGood(c)' BY <1>1, <1>2, <1>3, CellApart
<1>5. CellsInv' BY <1>4 DEF CellsInv, CellGood
<1>6. reqVal[t] <= sent' /\ BehindNext(reqVal[t], n)
  BY StoreFacts, SentGrows, StoreBasics
<1>7. \A r, s \in Threads : reqVal'[r] # Bottom /\ reqVal'[r] = reqVal'[s] => r = s
  BY DEF Store, RequestsInv
<1>8. ASSUME NEW s \in Threads
      PROVE  /\ reqVal'[s] <= sent'
             /\ reqState'[s].pending => Published(s)' /\ BehindNext(reqVal'[s], reqState'[s].low)
             /\ Published(s)' /\ ~reqState'[s].pending =>
                  reqState'[s].low \in Cells /\ cellEnq'[reqState'[s].low] = s
  <2>1. CASE s = t BY <1>1, <1>6, <2>1
  <2>2. CASE s # t BY <1>1, <2>2, RequestApart
  <2>3. QED BY <2>1, <2>2
<1>9. RequestsInv' BY <1>7, <1>8 DEF RequestsInv, Behind, BehindNext
<1>10. OneEach' BY DEF Store, OneEach, IsValue
<1>11. QED BY <1>5, <1>9, <1>10 DEF SharedStore

\* A pending request is settled on a cell that is bound to it.
LEMMA ClaimStore ==
  ASSUME Parts, Parts', Store, NEW t \in Threads, Keeps(t),
         UNCHANGED <<cellVal, cellEnq, reqVal>>,
         \A s \in Threads : Published(s)' <=> Published(s),
         NEW c \in Cells, NEW r \in Threads, cellEnq[c] = r, reqState[r].pending,
         reqState' = [reqState EXCEPT ![r] = State(FALSE, c)]
  PROVE  SharedStore'
<1>1. /\ ~reqState'[r].pending /\ reqState'[r].low = c /\ reqState'[r] = State(FALSE, c)
      /\ \A s \in Threads \ {r} : reqState'[s] = reqState[s]
  BY DEF Parts, SharedInv, SharedTyped, State
<1>2. /\ Published(r) /\ Behind(reqVal[r], reqState[r].low) /\ reqVal[r] \in Values
      /\ reqVal[r] <= sent /\ reqState[r].low \in Nat
  BY StoreFacts DEF Store, RequestsInv
<1>3. \A d \in Cells : ~Settled(r, d) BY DEF Settled, State
<1>4. \A d \in Cells : IsValue(cellVal[d]) => cellVal[d] # reqVal[r]
  BY <1>3 DEF Store, CellsInv
<1>5. ASSUME NEW d \in Cells, cellEnq[d] # r PROVE CellGood(d)'
  BY <1>1, <1>4, <1>5, CellApart
<1>6. ASSUME NEW d \in Cells, cellEnq[d] = r PROVE CellGood(d)'
  <2>1. CellGood(d) BY DEF Store, CellsInv, CellGood
  <2>2. d \in Nat /\ c \in Nat /\ cellVal[d] \in Int /\ Topp \notin Threads
    BY StoreFacts, StoreBasics, Basics DEF Words
  <2>3. \A s \in Threads \ {r} : Settled(s, d)' <=> Settled(s, d) BY <1>1 DEF Settled, State
  <2>4. cellVal'[d] <= sent' BY <2>1, <2>2, SentGrows DEF CellGood
  <2>5. cellVal'[d] = Bottom => d < T' BY <1>6, <2>1, <2>2, SentGrows, Basics DEF CellGood
  <2>6. /\ Published(r)' /\ cellVal'[d] \in {Bottom, Top, reqVal'[r]}
    BY <1>2, <1>6, <2>1 DEF CellGood
  <2>7. \A s \in Threads : IsValue(cellVal'[d]) /\ cellVal'[d] = reqVal'[s] => Settled(s, d)'
    BY <1>4, <2>1, <2>3 DEF CellGood
  <2>8. ASSUME NEW v \in Values, Holds(d, v)' PROVE BehindNext(v, d)
    <3>1. CASE Holds(d, v) BY <2>1, <2>2, <3>1, StoreFacts, SentGrows DEF CellGood
    <3>2. CASE ~Holds(d, v)
      <4>1. Settled(r, d)' /\ v = reqVal[r] BY <1>6, <2>8, <3>2 DEF Holds
      <4>2. d = c BY <1>1, <4>1 DEF Settled, State
      <4>3. reqState[r].low <= d BY <1>6, <2>1 DEF CellGood
      <4>4. QED BY <1>2, <2>2, <4>1, <4>2, <4>3, BehindStays
    <3>3. QED BY <3>1, <3>2
  <2>9. QED
    BY <1>1, <1>6, <2>2, <2>4, <2>5, <2>6, <2>7, <2>8
       DEF CellGood, Behind, BehindNext, IsValue, Published
<1>7. CellsInv' BY <1>5, <1>6 DEF CellsInv, CellGood
<1>8. \A q, s \in Threads : reqVal'[q] # Bottom /\ reqVal'[q] = reqVal'[s] => q = s
  BY DEF Store, RequestsInv
<1>9. ASSUME NEW s \in Threads
      PROVE  /\ reqVal'[s] <= sent'
             /\ reqState'[s].pending => Published(s)' /\ BehindNext(reqVal'[s], reqState'[s].low)
             /\ Published(s)' /\ ~reqState'[s].pending =>
                  reqState'[s].low \in Cells /\ cellEnq'[reqState'[s].low] = s
  <2>1. CASE s = r
    <3>1. reqVal[r] <= sent' BY <1>2, SentGrows, StoreBasics
    <3>2. QED BY <1>1, <2>1, <3>1
  <2>2. CASE s # r BY <1>1, <2>2, RequestApart
  <2>3. QED BY <2>1, <2>2
<1>10. RequestsInv' BY <1>8, <1>9 DEF RequestsInv, Behind, BehindNext
<1>11. OneEach' BY DEF Store, OneEach, IsValue
<1>12. QED BY <1>7, <1>10, <1>11 DEF SharedStore

-----------------------------------------------------------------------------
(***************************************************************************)
(* The steps of enqueuers                                                  *)
(***************************************************************************)

\* What each of the lemmas below may use of a step of t.
Stepped(t) ==
  /\ Parts /\ Parts' /\ Store /\ EndsGrow /\ Others(t) /\ InPool'
  /\ UNCHANGED <<sent, older>>
  /\ done' = IF Ends(t, "put") THEN done \cup {call'[t].val} ELSE done

\* What they have to show.
Kept(t) == Keeps(t) /\ SharedStore' /\ DoneInv' /\ StoreThread(t)'

LEMMA KeptStore == ASSUME NEW t \in Threads, Stepped(t), Kept(t) PROVE Store'
<1>1. \A u \in Threads \ {t} : StoreThread(u)' BY OthersKeep DEF Stepped, Kept
<1>2. QED BY <1>1 DEF Kept, Store, SharedStore

\* A step that publishes and settles nothing.
LEMMA PlainKeeps ==
  ASSUME NEW t \in Threads, Stepped(t), OwnKept(t), UNCHANGED enqReqs,
         pc[t] # "enq_state", pc'[t] # "enq_state",
         \A u \in Threads \ {t} : enqPeer'[u] = enqPeer[u],
         \A c \in Cells : CellKept(t, c) /\ BindKept(t, c)
  PROVE  Keeps(t) /\ RequestsStay
<1>1. UNCHANGED <<reqVal, reqState>> BY DEF enqReqs
<1>2. \A r \in Threads : Published(r)' <=> Published(r)
  BY <1>1 DEF Stepped, Others, Published
<1>3. \A r \in Threads : RequestKept(t, r) BY <1>1, <1>2 DEF RequestKept
<1>4. sent' >= sent BY DEF Stepped, Parts, LocalsTyped
<1>5. QED BY <1>1, <1>2, <1>3, <1>4 DEF Stepped, Keeps, RequestsStay

\* When no call of enqueue ends, what was done stays done.
LEMMA SameDone ==
  ASSUME NEW t \in Threads, Stepped(t), Keeps(t), ~Ends(t, "put")
  PROVE  DoneInv'
<1>1. older' \in [Values -> SUBSET done'] BY DEF Stepped, Store, DoneInv
<1>2. QED BY <1>1, DoneKept DEF Stepped

LEMMA MoreDone ==
  ASSUME NEW t \in Threads, Stepped(t), Keeps(t), Ends(t, "put"), NEW x \in Values,
         call'[t].val = x, NEW c \in Cells, c < T', Holds(c, x)'
  PROVE  DoneInv'
<1>1. older' \in [Values -> SUBSET done'] BY DEF Stepped, Store, DoneInv
<1>2. QED BY <1>1, DoneKept DEF Stepped

\* A thread that is not in an enqueue and knows nothing of a cell yet.
LEMMA NothingKnown ==
  ASSUME NEW t \in Threads, pc'[t] \notin EnqPcs, pc'[t] \notin HelpPcs \ {"help_top"}
  PROVE  StoreThread(t)'
BY DEF StoreThread, FreshInv, TicketInv, SlowInv, EnqOrderInv, HelpInv, FreshPcs, TicketPcs,
       EnqPcs, HelpPcs, ReqPcs

\* A step that leaves the cells, the requests and the peers of enqueuers alone.
LEMMA OffStep ==
  ASSUME NEW t \in Threads, Stepped(t), UNCHANGED <<cellVal, cellEnq, enqReqs, enqPeer>>,
         ~Ends(t, "put"), pc[t] # "enq_state", pc'[t] \notin EnqPcs, pc'[t] \notin HelpPcs \ {"help_top"}
  PROVE  Kept(t)
<1>1. OwnKept(t) BY StoreBasics DEF OwnKept
<1>2. \A c \in Cells : CellKept(t, c) /\ BindKept(t, c) BY DEF CellKept, BindKept
<1>3. pc'[t] # "enq_state" BY DEF EnqPcs
<1>4. Keeps(t) /\ RequestsStay BY <1>1, <1>2, <1>3, PlainKeeps
<1>5. SharedStore' BY <1>4, UntouchedStore DEF Stepped
<1>6. DoneInv' BY <1>4, SameDone
<1>7. QED BY <1>4, <1>5, <1>6, NothingKnown DEF Kept

\* What is known of a thread that takes a step.
LEMMA MyFacts ==
  ASSUME NEW t \in Threads, Stepped(t)
  PROVE  /\ Known(t) /\ StoreThread(t) /\ T \in Nat /\ T' \in Nat /\ T <= T'
         /\ sent \in Nat /\ sent' = sent
         /\ pc[t] \in EnqPcs => call[t].val \in Values /\ call[t].val # Bottom
                                /\ call[t].val <= sent /\ Behind(call[t].val, T)
         /\ pc[t] \in LoopPcs => cid[t] < T /\ Behind(call[t].val, cid[t])
<1>1. Known(t) /\ StoreThread(t) BY LocalFacts DEF Stepped, Store
<1>2. LoopPcs \subseteq EnqPcs BY DEF LoopPcs
<1>3. pc[t] \in EnqPcs => call[t].val \in Values BY <1>1 DEF Known, CallInv
<1>4. EnqOrderInv(t) BY <1>1 DEF StoreThread
<1>5. QED
  BY <1>1, <1>2, <1>3, <1>4, StoreBasics
     DEF EnqOrderInv, Known, SharedTyped, Stepped, EndsGrow, Parts, LocalsTyped

\* What EnqOrderInv needs in the next state.
LEMMA OrderKept ==
  ASSUME NEW t \in Threads, Stepped(t), Keeps(t), pc[t] \in EnqPcs,
         call'[t].val = call[t].val,
         pc'[t] \in LoopPcs =>
           \/ cid'[t] = T /\ T < T'
           \/ pc[t] \in LoopPcs /\ cid'[t] = cid[t]
  PROVE  EnqOrderInv(t)'
<1>1. /\ call[t].val \in Values /\ call[t].val <= sent /\ Behind(call[t].val, T)
      /\ T \in Nat /\ T' \in Nat /\ T <= T' /\ sent' = sent /\ cid[t] \in Nat
      /\ pc[t] \in LoopPcs => cid[t] < T /\ Behind(call[t].val, cid[t])
  BY MyFacts DEF Known
<1>2. BehindNext(call[t].val, T') /\ BehindNext(call[t].val, T)
  BY <1>1, BehindStays DEF Stepped
<1>3. pc[t] \in LoopPcs => BehindNext(call[t].val, cid[t])
  BY <1>1, BehindStays DEF Stepped
<1>4. ASSUME pc'[t] \in LoopPcs PROVE cid'[t] < T' /\ BehindNext(call[t].val, cid'[t])
  <2>1. CASE cid'[t] = T /\ T < T' BY <1>2, <2>1
  <2>2. CASE pc[t] \in LoopPcs /\ cid'[t] = cid[t] BY <1>1, <1>3, <2>2
  <2>3. QED BY <1>4, <2>1, <2>2
<1>5. QED BY <1>1, <1>2, <1>4 DEF EnqOrderInv, Behind, BehindNext

\* An enqueuer does nothing for others.
LEMMA NoHelp ==
  ASSUME NEW t \in Threads, pc'[t] \in EnqPcs
  PROVE  HelpInv(t)'
BY DEF HelpInv, HelpPcs, ReqPcs, EnqPcs

LEMMA CallEnqKept ==
  ASSUME Parts, Parts', Store, NEW t \in Threads, CallEnq(t)
  PROVE  Keeps(t) /\ Store'
<1>1. /\ UNCHANGED <<T, H, cells, enqReqs, deqReqs, peers, cid, own, scan, done>>
      /\ pc[t] = "idle" /\ sent < MaxEnqs /\ sent' = sent + 1
      /\ older' = [older EXCEPT ![sent + 1] = {v \in done : got[v] = 0}]
      /\ pc' = [pc EXCEPT ![t] = "enq_faa"]
      /\ call' = [call EXCEPT ![t] = [kind |-> "enq", val |-> sent + 1, tries |-> Patience]]
  BY DEF CallEnq, EnqStart, GoTo
<1>2. /\ pc'[t] = "enq_faa" /\ call'[t].val = sent + 1
      /\ \A u \in Threads \ {t} : pc'[u] = pc[u] /\ call'[u] = call[u]
  BY <1>1 DEF Parts, LocalsTyped
<1>3. sent \in Nat /\ T \in Nat /\ H \in Nat BY StoreFacts
<1>4. Keeps(t)
  <2>1. EndsGrow BY <1>1, <1>3 DEF EndsGrow
  <2>2. Others(t) BY <1>1, <1>2 DEF Others
  <2>3. OwnKept(t) BY <1>1, <1>2, <1>3 DEF OwnKept, FreshPcs, TicketPcs
  <2>4. \A c \in Cells : CellKept(t, c) /\ BindKept(t, c)
    BY <1>1 DEF cells, CellKept, BindKept
  <2>5. \A r \in Threads : RequestKept(t, r)
    BY <1>1, <1>2 DEF enqReqs, RequestKept, Published
  <2>6. \A v \in Values : v <= sent => older'[v] = older[v]
    <3>1. \A v \in Values : v <= sent => v # sent + 1 BY <1>3, StoreBasics
    <3>2. QED BY <1>1, <3>1
  <2>7. QED BY <1>1, <1>3, <2>1, <2>2, <2>3, <2>4, <2>5, <2>6 DEF peers, Keeps
<1>5. RequestsStay BY <1>1, <1>2 DEF enqReqs, RequestsStay, Published
<1>6. SharedStore' BY <1>1, <1>4, <1>5, UntouchedStore DEF cells
<1>7. older'[sent + 1] \subseteq done
  <2>1. sent + 1 \in Values BY <1>1, <1>3, UseAssumption DEF Values
  <2>2. QED BY <1>1, <2>1 DEF Store, DoneInv
<1>8. DoneInv'
  <2>1. older' \in [Values -> SUBSET done'] BY <1>1 DEF Store, DoneInv
  <2>2. QED BY <1>1, <1>4, <2>1, DoneKept
<1>9. FreshInv(t)'
  <2>1. \A c \in Cells : cellVal[c] # sent + 1 
    BY <1>3, StoreFacts, StoreBasics DEF Words
  <2>2. \A r \in Threads : reqVal[r] # sent + 1 BY <1>3, StoreFacts, StoreBasics
  <2>3. ASSUME NEW u \in Threads \ {t}, pc[u] \in FreshPcs PROVE call[u].val # sent + 1
    <3>1. call[u].val <= sent /\ call[u].val \in Nat
      BY <2>3, StoreBasics, LocalFacts DEF Store, StoreThread, EnqOrderInv, Known
    <3>2. QED BY <1>3, <3>1
  <2>4. QED BY <1>1, <1>2, <2>1, <2>2, <2>3 DEF FreshInv, cells, enqReqs
<1>10. EnqOrderInv(t)'
  <2>1. ASSUME NEW w \in older'[sent + 1] PROVE \E c \in Cells : c < T /\ Holds(c, w)'
    <3>1. w \in Values /\ \E c \in Cells : c < T /\ Holds(c, w)
      BY <1>7, <2>1 DEF Store, DoneInv
    <3>2. QED BY <1>4, <3>1, HoldsStays
  <2>2. BehindNext(sent + 1, T') BY <1>1, <2>1 DEF BehindNext
  <2>3. QED BY <1>1, <1>2, <1>3, <2>2 DEF EnqOrderInv, Behind, BehindNext, LoopPcs
<1>11. TicketInv(t)' /\ SlowInv(t)' /\ HelpInv(t)'
  BY <1>2 DEF TicketInv, SlowInv, HelpInv, TicketPcs, FreshPcs, HelpPcs, ReqPcs
<1>12. \A u \in Threads \ {t} : StoreThread(u)' BY <1>4, OthersKeep
<1>13. StoreThread(t)' BY <1>9, <1>10, <1>11 DEF StoreThread
<1>14. QED BY <1>4, <1>6, <1>8, <1>12, <1>13 DEF Store, SharedStore

LEMMA CallDeqKept ==
  ASSUME Parts, Parts', Store, InPool', NEW t \in Threads, CallDeq(t)
  PROVE  Keeps(t) /\ Store'
<1>1. /\ UNCHANGED <<T, H, cells, enqReqs, deqReqs, peers, cid, own, scan, done, sent, older>>
      /\ pc[t] = "idle" /\ pc' = [pc EXCEPT ![t] = "deq_faa"]
      /\ \A u \in Threads \ {t} : call'[u] = call[u]
  BY DEF CallDeq, DeqStart, GoTo, Parts, LocalsTyped
<1>2. pc'[t] = "deq_faa" /\ \A u \in Threads \ {t} : pc'[u] = pc[u]
  BY <1>1 DEF Parts, LocalsTyped
<1>3. Stepped(t) /\ ~Ends(t, "put")
  BY <1>1, <1>2, StoreFacts DEF Stepped, EndsGrow, Others, Ends
<1>4. Kept(t)
  BY <1>1, <1>2, <1>3, OffStep DEF cells, peers, EnqPcs, HelpPcs, ReqPcs
<1>5. QED BY <1>3, <1>4, KeptStore DEF Kept

LEMMA EnqTicketKept ==
  ASSUME NEW t \in Threads, Stepped(t), EnqTicket(t)
  PROVE  Kept(t)
<1>1. T \in Cells /\ T' = T + 1 /\ T \in Nat
  BY StoreFacts, CellsAssumption DEF Stepped, InPool, EnqTicket, Cells
<1>2. /\ pc[t] = "enq_faa" /\ UNCHANGED <<cells, enqReqs, peers, call>>
      /\ pc' = [pc EXCEPT ![t] = "enq_put"] /\ cid' = [cid EXCEPT ![t] = T]
  BY <1>1 DEF EnqTicket, GoTo
<1>3. pc'[t] = "enq_put" /\ cid'[t] = T BY <1>2 DEF Stepped, Parts, LocalsTyped
<1>4. UNCHANGED <<cellVal, cellEnq, reqVal, reqState, enqPeer>> BY <1>2 DEF cells, enqReqs, peers
<1>5. Keeps(t) /\ RequestsStay
  <2>1. OwnKept(t) BY <1>2, <1>3 DEF OwnKept, FreshPcs, TicketPcs
  <2>2. \A c \in Cells : CellKept(t, c) /\ BindKept(t, c) BY <1>4 DEF CellKept, BindKept
  <2>3. QED BY <1>2, <1>3, <1>4, <2>1, <2>2, PlainKeeps
<1>6. SharedStore' BY <1>4, <1>5, UntouchedStore DEF Stepped
<1>7. DoneInv' BY <1>3, <1>5, SameDone DEF Ends
<1>8. FreshInv(t)'
  BY <1>2, <1>4, MyFacts DEF StoreThread, FreshInv, Stepped, Others, FreshPcs
<1>9. TicketInv(t)'
  <2>1. ASSUME NEW u \in Threads \ {t}, pc[u] \in TicketPcs PROVE cid[u] # T
    <3>1. pc[u] \in LoopPcs /\ pc[u] \in EnqPcs
      BY <2>1 DEF TicketPcs, LoopPcs, EnqPcs, SettledPcs
    <3>2. cid[u] < T /\ cid[u] \in Nat
      BY <3>1, LocalFacts DEF Stepped, Store, StoreThread, EnqOrderInv, Known
    <3>3. QED BY <1>1, <3>2
  <2>2. ~IsValue(cellVal[T])
    BY <1>1 DEF Stepped, Parts, SharedInv, PublishedCovered
  <2>3. cellVal[T] = Bottom => cellEnq[T] = Null
    BY <1>1 DEF Stepped, Store, CellsInv
  <2>4. QED
    BY <1>2, <1>3, <1>4, <2>1, <2>2, <2>3 DEF TicketInv, Stepped, Others, IsValue
<1>10. EnqOrderInv(t)'
  BY <1>1, <1>2, <1>3, <1>5, OrderKept DEF EnqPcs
<1>11. SlowInv(t)' BY <1>3 DEF SlowInv, FreshPcs
<1>12. HelpInv(t)' BY <1>3, NoHelp DEF EnqPcs
<1>13. QED
  BY <1>5, <1>6, <1>7, <1>8, <1>9, <1>10, <1>11, <1>12 DEF Kept, StoreThread

\* A try has failed.
LEMMA EnqPutFails ==
  ASSUME NEW t \in Threads, Stepped(t), EnqPut(t), cellVal[cid[t]] # Bottom
  PROVE  Kept(t)
<1>1. /\ pc[t] = "enq_put" /\ UNCHANGED <<cellVal, cellEnq, cid, enqReqs, peers>> /\ EnqFails(t)
  BY DEF EnqPut
<1>2. pc'[t] \in {"enq_val", "enq_faa"} /\ call'[t].val = call[t].val
  <2> DEFINE c == [call[t] EXCEPT !.tries = @ - 1]
  <2>1. call[t] \in CallRecs /\ call \in [Threads -> CallRecs] /\ pc \in [Threads -> Pcs]
    BY DEF Stepped, Parts, LocalsTyped
  <2>2. c.val = call[t].val BY <2>1 DEF CallRecs
  <2>3. \/ pc' = [pc EXCEPT ![t] = "enq_val"] /\ call' = call
        \/ pc' = [pc EXCEPT ![t] = "enq_faa"] /\ call' = [call EXCEPT ![t] = c]
    BY <1>1 DEF EnqFails, GoTo
  <2> HIDE DEF c
  <2>4. QED BY <2>1, <2>2, <2>3
<1>3. Keeps(t) /\ RequestsStay
  <2>1. OwnKept(t) BY <1>1, <1>2 DEF OwnKept, FreshPcs, TicketPcs
  <2>2. \A c \in Cells : CellKept(t, c) /\ BindKept(t, c) BY <1>1 DEF CellKept, BindKept
  <2>3. QED BY <1>1, <1>2, <2>1, <2>2, PlainKeeps DEF peers
<1>4. SharedStore' BY <1>1, <1>3, UntouchedStore DEF Stepped
<1>5. DoneInv' BY <1>2, <1>3, SameDone DEF Ends
<1>6. FreshInv(t)'
  <2>1. FreshInv(t) BY MyFacts DEF StoreThread
  <2>2. \A u \in Threads \ {t} : pc'[u] = pc[u] /\ call'[u] = call[u] BY DEF Stepped, Others
  <2>3. QED BY <1>1, <1>2, <2>1, <2>2 DEF FreshInv, FreshPcs, enqReqs
<1>7. EnqOrderInv(t)'
  BY <1>1, <1>2, <1>3, OrderKept DEF EnqPcs, LoopPcs, SettledPcs
<1>8. TicketInv(t)' /\ SlowInv(t)' BY <1>2 DEF TicketInv, SlowInv, TicketPcs, FreshPcs
<1>9. HelpInv(t)' BY <1>2, NoHelp DEF EnqPcs
<1>10. QED BY <1>3, <1>4, <1>5, <1>6, <1>7, <1>8, <1>9 DEF Kept, StoreThread

LEMMA EnqPutKept ==
  ASSUME NEW t \in Threads, Stepped(t), EnqPut(t)
  PROVE  Kept(t)
<1> SUFFICES ASSUME cellVal[cid[t]] = Bottom PROVE Kept(t) BY EnqPutFails
<1>0. PICK c \in Cells, x \in Values : c = cid[t] /\ x = call[t].val
  <2>1. pc[t] = "enq_put" /\ Known(t) BY MyFacts DEF EnqPut
  <2>2. QED BY <2>1 DEF Known, CellInv, CallInv, EnqPcs
<1>1. /\ pc[t] = "enq_put" /\ UNCHANGED <<T, cellEnq, enqReqs, peers>>
      /\ cellVal' = [cellVal EXCEPT ![c] = x] /\ Return(t, "put", x)
  BY <1>0 DEF EnqPut
<1>2. pc'[t] = "idle" /\ call'[t].kind = "put" /\ call'[t].val = x
  BY <1>1 DEF Stepped, Parts, LocalsTyped, Return, GoTo
<1>3. /\ c \in Cells /\ c < T /\ x \in Values /\ x <= sent /\ Behind(x, c)
      /\ Known(t) /\ StoreThread(t) /\ sent' = sent
  BY <1>0, <1>1, MyFacts DEF EnqPcs, LoopPcs, SettledPcs
<1>4. cellEnq[c] = Null BY <1>0, <1>1, <1>3 DEF StoreThread, TicketInv, TicketPcs
<1>5. /\ \A d \in Cells : cellVal[d] # x
      /\ \A r \in Threads : reqVal[r] # x
  BY <1>0, <1>1, <1>3 DEF StoreThread, FreshInv, FreshPcs
<1>6. cellVal'[c] = x /\ \A d \in Cells \ {c} : cellVal'[d] = cellVal[d]
  BY <1>1, <1>3 DEF Stepped, Parts, SharedInv, SharedTyped
<1>7. Keeps(t) /\ RequestsStay
  <2>1. OwnKept(t) BY <1>2 DEF OwnKept, FreshPcs, TicketPcs
  <2>2. \A d \in Cells : CellKept(t, d) /\ BindKept(t, d)
    BY <1>0, <1>1, <1>2, <1>6 DEF CellKept, BindKept
  <2>3. QED BY <1>1, <1>2, <2>1, <2>2, PlainKeeps DEF peers
<1>8. SharedStore'
  BY <1>1, <1>3, <1>4, <1>5, <1>7, PutStore DEF Stepped
<1>9. DoneInv'
  <2>1. Holds(c, x)' BY <1>3, <1>6 DEF Holds
  <2>2. c < T' BY <1>1, <1>3
  <2>3. Ends(t, "put") BY <1>1, <1>2 DEF Ends
  <2>4. QED BY <1>2, <1>3, <1>7, <2>1, <2>2, <2>3, MoreDone
<1>10. StoreThread(t)' BY <1>2, NothingKnown DEF EnqPcs, HelpPcs, ReqPcs
<1>11. QED BY <1>7, <1>8, <1>9, <1>10 DEF Kept

\* A step that writes to no cell and no request.
LEMMA QuietKeeps ==
  ASSUME NEW t \in Threads, Stepped(t), OwnKept(t), UNCHANGED <<cellVal, cellEnq, enqReqs>>,
         \A u \in Threads \ {t} : enqPeer'[u] = enqPeer[u],
         pc[t] # "enq_state", pc'[t] # "enq_state", ~Ends(t, "put")
  PROVE  Keeps(t) /\ RequestsStay /\ SharedStore' /\ DoneInv'
<1>1. \A c \in Cells : CellKept(t, c) /\ BindKept(t, c) BY DEF CellKept, BindKept
<1>2. Keeps(t) /\ RequestsStay BY <1>1, PlainKeeps
<1>3. SharedStore' BY <1>2, UntouchedStore DEF Stepped
<1>4. DoneInv' BY <1>2, SameDone
<1>5. QED BY <1>2, <1>3, <1>4

\* What enq_slow knows of its request.
LEMMA SlowFacts ==
  ASSUME NEW t \in Threads, Stepped(t), pc[t] \in EnqPcs \ FreshPcs
  PROVE  /\ SlowInv(t) /\ TicketInv(t) /\ reqVal[t] = call[t].val /\ reqVal[t] \in Values
         /\ pc[t] # "enq_state" => Published(t)
         /\ reqState[t] \in States /\ own[t].state \in States
         /\ reqState[t].pending \in BOOLEAN /\ reqState[t].low \in Nat /\ cid[t] \in Nat
         /\ pc[t] \in SettledPcs => /\ ~reqState[t].pending /\ reqState[t].low \in Cells
                                    /\ cellEnq[reqState[t].low] = t
                                    /\ Settled(t, reqState[t].low)
<1>1. SlowInv(t) /\ TicketInv(t) /\ Known(t) /\ call[t].val \in Values /\ call[t].val # Bottom
  BY MyFacts DEF StoreThread
<1>2. reqVal[t] = call[t].val BY <1>1 DEF SlowInv
<1>3. pc[t] # "enq_state" => Published(t) BY <1>1, <1>2 DEF Published
<1>4. reqState[t] \in States /\ own[t].state \in States BY <1>1, OwnFacts DEF Known, SharedTyped
<1>5. reqState[t].pending \in BOOLEAN /\ reqState[t].low \in Nat BY <1>4 DEF States
<1>6. ASSUME pc[t] \in SettledPcs
      PROVE  /\ ~reqState[t].pending /\ reqState[t].low \in Cells
             /\ cellEnq[reqState[t].low] = t /\ Settled(t, reqState[t].low)
  <2>1. ~reqState[t].pending /\ Published(t)
    BY <1>1, <1>3, <1>6 DEF SlowInv, SettledPcs
  <2>2. reqState[t].low \in Cells /\ cellEnq[reqState[t].low] = t
    BY <2>1 DEF Stepped, Store, RequestsInv
  <2>3. reqState[t] = State(FALSE, reqState[t].low) BY <1>4, <1>5, <2>1 DEF State, States
  <2>4. QED BY <2>1, <2>2, <2>3 DEF Settled
<1>7. QED BY <1>1, <1>2, <1>3, <1>4, <1>5, <1>6 DEF Known

\* A step inside the loop of enq_slow, and from it.
LEMMA LoopKept ==
  ASSUME NEW t \in Threads, Stepped(t), UNCHANGED <<cellVal, cellEnq, enqReqs, peers, call, cid, own>>,
         pc[t] \in LoopPcs \ {"enq_state", "enq_put", "enq_val"},
         pc'[t] \in {"enq_slow_faa", "enq_claim", "enq_pending", "enq_final"},
         pc'[t] = "enq_claim" => pc[t] = "enq_peek",
         pc'[t] = "enq_final" => ~reqState[t].pending
  PROVE  Kept(t)
<1>1. pc[t] \in EnqPcs \ FreshPcs /\ pc[t] # "enq_state" BY DEF LoopPcs, FreshPcs
<1>2. OwnKept(t) BY DEF OwnKept, FreshPcs, TicketPcs
<1>3. Keeps(t) /\ RequestsStay /\ SharedStore' /\ DoneInv'
  BY <1>1, <1>2, QuietKeeps DEF Ends, peers
<1>4. FreshInv(t)' BY DEF FreshInv, FreshPcs
<1>5. \A u \in Threads \ {t} : pc'[u] = pc[u] /\ cid'[u] = cid[u] BY DEF Stepped, Others
<1>6. TicketInv(t)' BY <1>1, <1>5, SlowFacts DEF TicketInv, TicketPcs
<1>7. SlowInv(t)' BY <1>1, SlowFacts DEF SlowInv, SettledPcs, FreshPcs, enqReqs
<1>8. EnqOrderInv(t)' BY <1>1, <1>3, OrderKept
<1>9. HelpInv(t)' BY NoHelp DEF EnqPcs
<1>10. QED BY <1>3, <1>4, <1>6, <1>7, <1>8, <1>9 DEF Kept, StoreThread

LEMMA EnqPeekKept == ASSUME NEW t \in Threads, Stepped(t), EnqPeek(t) PROVE Kept(t)
<1>1. /\ pc[t] = "enq_peek" /\ UNCHANGED <<cellVal, cellEnq, enqReqs, peers, call, cid, own>>
      /\ pc' = [pc EXCEPT ![t] = IF IsValue(cellVal[cid[t]]) THEN "enq_pending" ELSE "enq_claim"]
  BY DEF EnqPeek, GoTo, cells, locals
<1>2. pc'[t] \in {"enq_pending", "enq_claim"} BY <1>1 DEF Stepped, Parts, LocalsTyped
<1>3. QED BY <1>1, <1>2, LoopKept DEF LoopPcs, EnqPcs, SettledPcs

LEMMA EnqPendingKept == ASSUME NEW t \in Threads, Stepped(t), EnqPending(t) PROVE Kept(t)
<1>1. /\ pc[t] = "enq_pending" /\ UNCHANGED <<cellVal, cellEnq, enqReqs, peers, call, cid, own>>
      /\ pc' = [pc EXCEPT ![t] = IF reqState[t].pending THEN "enq_slow_faa" ELSE "enq_final"]
  BY DEF EnqPending, GoTo, cells, locals
<1>2. pc'[t] = IF reqState[t].pending THEN "enq_slow_faa" ELSE "enq_final"
  BY <1>1 DEF Stepped, Parts, LocalsTyped
<1>3. QED BY <1>1, <1>2, LoopKept DEF LoopPcs, EnqPcs, SettledPcs

LEMMA EnqPublishValKept ==
  ASSUME NEW t \in Threads, Stepped(t), EnqPublishVal(t), reqVal[t] = Bottom
  PROVE  Kept(t)
<1>0. pc[t] = "enq_val" /\ call[t].val \in Values /\ call[t].val # Bottom /\ call[t].val <= sent
  BY MyFacts DEF EnqPublishVal, EnqPcs
<1>1. /\ UNCHANGED <<cellVal, cellEnq, reqState, peers, call, cid, own>>
      /\ pc' = [pc EXCEPT ![t] = "enq_state"] /\ reqVal' = [reqVal EXCEPT ![t] = call[t].val]
  BY DEF EnqPublishVal, GoTo, cells, locals
<1>2. /\ pc'[t] = "enq_state" /\ reqVal'[t] = call[t].val
      /\ \A u \in Threads \ {t} : reqVal'[u] = reqVal[u]
  BY <1>1 DEF Stepped, Parts, LocalsTyped, SharedInv, SharedTyped
<1>3. \A u \in Threads \ {t} : pc'[u] = pc[u] BY DEF Stepped, Others
<1>4. ~Published(t) /\ ~Published(t)' BY <1>2 DEF Published
<1>5. \A u \in Threads \ {t} : Published(u)' <=> Published(u) BY <1>2, <1>3 DEF Published
<1>6. Keeps(t)
  <2>1. OwnKept(t) BY <1>2 DEF OwnKept, FreshPcs, TicketPcs
  <2>2. \A c \in Cells : CellKept(t, c) /\ BindKept(t, c) BY <1>1 DEF CellKept, BindKept
  <2>3. \A r \in Threads : RequestKept(t, r)
    BY <1>0, <1>1, <1>2, <1>4, <1>5 DEF RequestKept
  <2>4. sent' >= sent BY DEF Stepped, Parts, LocalsTyped
  <2>5. QED BY <1>1, <2>1, <2>2, <2>3, <2>4 DEF peers, Keeps, Stepped
<1>7. FreshInv(t) BY MyFacts DEF StoreThread
<1>8. /\ \A c \in Cells : cellVal[c] # call[t].val
      /\ \A s \in Threads : reqVal[s] # call[t].val
  BY <1>0, <1>7 DEF FreshInv, FreshPcs
<1>9. PICK x \in Values : x = call[t].val BY <1>0
<1>10. SharedStore'
  BY <1>0, <1>1, <1>4, <1>5, <1>6, <1>8, <1>9, ValueStore DEF Stepped
<1>11. DoneInv' BY <1>2, <1>6, SameDone DEF Ends
<1>12. ~reqState[t].pending BY <1>4 DEF Stepped, Store, RequestsInv
<1>13. SlowInv(t)' BY <1>1, <1>2, <1>12 DEF SlowInv, SettledPcs
<1>14. EnqOrderInv(t)'
  BY <1>0, <1>1, <1>2, <1>6, OrderKept DEF EnqPcs, LoopPcs, SettledPcs
<1>15. FreshInv(t)' /\ TicketInv(t)' BY <1>2 DEF FreshInv, TicketInv, FreshPcs, TicketPcs
<1>16. HelpInv(t)' BY <1>2, NoHelp DEF EnqPcs
<1>17. QED BY <1>6, <1>10, <1>11, <1>13, <1>14, <1>15, <1>16 DEF Kept, StoreThread

LEMMA EnqPublishStateKept ==
  ASSUME NEW t \in Threads, Stepped(t), EnqPublishState(t)
  PROVE  Kept(t)
<1>0. pc[t] = "enq_state" /\ pc[t] \in EnqPcs \ FreshPcs /\ pc[t] \in LoopPcs
  BY DEF EnqPublishState, EnqPcs, FreshPcs, LoopPcs, SettledPcs
<1> DEFINE s == State(TRUE, cid[t])
<1>1. /\ UNCHANGED <<cellVal, cellEnq, reqVal, peers, call, cid>>
      /\ pc' = [pc EXCEPT ![t] = "enq_slow_faa"]
      /\ reqState' = [reqState EXCEPT ![t] = s]
      /\ own' = [own EXCEPT ![t].state = s]
  BY DEF EnqPublishState, GoTo, cells
<1>2. /\ reqVal[t] = call[t].val /\ reqVal[t] \in Values /\ reqVal[t] # Bottom
      /\ cid[t] \in Nat /\ Behind(call[t].val, cid[t])
  BY <1>0, SlowFacts, MyFacts, StoreBasics
<1>3. s.pending /\ s.low = cid[t] BY <1>2 DEF State
<1> HIDE DEF s
<1>4. /\ pc'[t] = "enq_slow_faa" /\ own'[t].state = s /\ reqState'[t] = s
      /\ \A u \in Threads \ {t} : reqState'[u] = reqState[u]
  BY <1>1 DEF Stepped, Parts, LocalsTyped, SharedInv, SharedTyped, OwnRecs
<1>5. \A u \in Threads \ {t} : pc'[u] = pc[u] BY DEF Stepped, Others
<1>6. ~Published(t) /\ Published(t)' BY <1>0, <1>1, <1>2, <1>4 DEF Published
<1>7. \A u \in Threads \ {t} : Published(u)' <=> Published(u) BY <1>1, <1>5 DEF Published
<1>8. Keeps(t)
  <2>1. OwnKept(t) BY <1>4 DEF OwnKept, FreshPcs, TicketPcs
  <2>2. \A c \in Cells : CellKept(t, c) /\ BindKept(t, c) BY <1>1 DEF CellKept, BindKept
  <2>3. \A r \in Threads : RequestKept(t, r)
    BY <1>1, <1>4, <1>6, <1>7 DEF RequestKept
  <2>4. sent' >= sent BY DEF Stepped, Parts, LocalsTyped
  <2>5. QED BY <1>1, <2>1, <2>2, <2>3, <2>4 DEF peers, Keeps, Stepped
<1>9. SharedStore'
  <2>1. reqState' = [reqState EXCEPT ![t] = State(TRUE, cid[t])] BY <1>1 DEF s
  <2>2. Behind(reqVal[t], cid[t]) BY <1>2
  <2>3. QED BY <1>1, <1>2, <1>6, <1>7, <1>8, <2>1, <2>2, OutStore DEF Stepped
<1>10. DoneInv' BY <1>4, <1>8, SameDone DEF Ends
<1>11. SlowInv(t)' BY <1>1, <1>2, <1>3, <1>4 DEF SlowInv, SettledPcs
<1>12. EnqOrderInv(t)' BY <1>0, <1>1, <1>4, <1>8, OrderKept
<1>13. FreshInv(t)' /\ TicketInv(t)' BY <1>4 DEF FreshInv, TicketInv, FreshPcs, TicketPcs
<1>14. HelpInv(t)' BY <1>4, NoHelp DEF EnqPcs
<1>15. QED BY <1>8, <1>9, <1>10, <1>11, <1>12, <1>13, <1>14 DEF Kept, StoreThread

LEMMA EnqSlowTicketKept ==
  ASSUME NEW t \in Threads, Stepped(t), EnqSlowTicket(t)
  PROVE  Kept(t)
<1>1. T \in Cells /\ T' = T + 1 /\ T \in Nat
  BY StoreFacts, CellsAssumption DEF Stepped, InPool, EnqSlowTicket, Cells
<1>2. /\ pc[t] = "enq_slow_faa" /\ UNCHANGED <<cellVal, cellEnq, enqReqs, peers, call, own>>
      /\ pc' = [pc EXCEPT ![t] = "enq_bind"] /\ cid' = [cid EXCEPT ![t] = T]
  BY <1>1 DEF EnqSlowTicket, GoTo, cells
<1>3. pc'[t] = "enq_bind" /\ cid'[t] = T BY <1>2 DEF Stepped, Parts, LocalsTyped
<1>4. pc[t] \in EnqPcs \ FreshPcs /\ pc[t] \in LoopPcs
  BY <1>2 DEF EnqPcs, FreshPcs, LoopPcs, SettledPcs
<1>5. OwnKept(t) BY <1>3 DEF OwnKept, FreshPcs
<1>6. Keeps(t) /\ RequestsStay /\ SharedStore' /\ DoneInv'
  BY <1>2, <1>3, <1>5, QuietKeeps DEF Ends, peers
<1>7. TicketInv(t)'
  <2>1. ASSUME NEW u \in Threads \ {t}, pc[u] \in TicketPcs PROVE cid[u] # T
    <3>1. pc[u] \in LoopPcs /\ pc[u] \in EnqPcs
      BY <2>1 DEF TicketPcs, LoopPcs, EnqPcs, SettledPcs
    <3>2. cid[u] < T /\ cid[u] \in Nat
      BY <3>1, LocalFacts DEF Stepped, Store, StoreThread, EnqOrderInv, Known
    <3>3. QED BY <1>1, <3>2
  <2>2. ~IsValue(cellVal[T])
    BY <1>1 DEF Stepped, Parts, SharedInv, PublishedCovered
  <2>3. cellVal[T] = Bottom => cellEnq[T] = Null
    BY <1>1 DEF Stepped, Store, CellsInv
  <2>4. \A u \in Threads \ {t} : pc'[u] = pc[u] /\ cid'[u] = cid[u] BY DEF Stepped, Others
  <2>5. QED BY <1>2, <1>3, <2>1, <2>2, <2>3, <2>4 DEF TicketInv, IsValue
<1>8. SlowInv(t)'
  <2>1. SlowInv(t) /\ cid[t] < T /\ cid[t] \in Nat BY <1>4, SlowFacts, MyFacts DEF Known
  <2>2. reqState[t].low \in Nat BY <1>4, SlowFacts
  <2>3. reqState[t].pending => reqState[t].low <= T BY <1>1, <1>4, <2>1, <2>2 DEF SlowInv
  <2>4. QED BY <1>2, <1>3, <1>4, <2>1, <2>3 DEF SlowInv, SettledPcs, enqReqs
<1>9. EnqOrderInv(t)' BY <1>1, <1>2, <1>3, <1>4, <1>6, OrderKept
<1>10. FreshInv(t)' BY <1>3 DEF FreshInv, FreshPcs
<1>11. HelpInv(t)' BY <1>3, NoHelp DEF EnqPcs
<1>12. QED BY <1>6, <1>7, <1>8, <1>9, <1>10, <1>11 DEF Kept, StoreThread

LEMMA EnqBindKept == ASSUME NEW t \in Threads, Stepped(t), EnqBind(t) PROVE Kept(t)
<1>0. /\ pc[t] = "enq_bind" /\ pc[t] \in EnqPcs \ FreshPcs /\ pc[t] \in LoopPcs
      /\ pc[t] \in TicketPcs
  BY DEF EnqBind, EnqPcs, FreshPcs, LoopPcs, SettledPcs, TicketPcs
<1>1. PICK c \in Cells : c = cid[t] /\ c < T
  BY <1>0, MyFacts DEF Known, CellInv
<1>2. UNCHANGED <<cellVal, enqReqs, peers, call, cid, own>>
  BY DEF EnqBind, cells, locals
<1>3. CASE cellEnq[c] # Null
  <2>1. UNCHANGED cellEnq /\ pc' = [pc EXCEPT ![t] = "enq_pending"]
    BY <1>1, <1>3 DEF EnqBind, GoTo
  <2>2. pc'[t] = "enq_pending" BY <2>1 DEF Stepped, Parts, LocalsTyped
  <2>3. QED BY <1>0, <1>2, <2>1, <2>2, LoopKept
<1>4. CASE cellEnq[c] = Null
  <2>1. cellEnq' = [cellEnq EXCEPT ![c] = t] /\ pc' = [pc EXCEPT ![t] = "enq_peek"]
    BY <1>1, <1>4 DEF EnqBind, GoTo
  <2>2. /\ pc'[t] = "enq_peek" /\ cellEnq'[c] = t
        /\ \A d \in Cells \ {c} : cellEnq'[d] = cellEnq[d]
    BY <2>1 DEF Stepped, Parts, LocalsTyped, SharedInv, SharedTyped
  <2>3. Keeps(t) /\ RequestsStay
    <3>1. OwnKept(t) BY <1>0, <1>2, <2>2 DEF OwnKept, FreshPcs
    <3>2. \A d \in Cells : CellKept(t, d) /\ BindKept(t, d)
      BY <1>0, <1>1, <1>2, <1>4, <2>2 DEF CellKept, BindKept
    <3>3. QED BY <1>0, <1>2, <2>2, <3>1, <3>2, PlainKeeps DEF peers
  <2>4. SharedStore'
    <3>1. Published(t) /\ ~IsValue(cellVal[c])
      BY <1>0, <1>1, <1>4, SlowFacts DEF TicketInv
    <3>2. reqState[t].pending => reqState[t].low <= c
      BY <1>0, <1>1, SlowFacts DEF SlowInv
    <3>3. t # Topp BY Basics
    <3>4. QED BY <1>1, <1>2, <1>4, <2>1, <2>3, <3>1, <3>2, <3>3, BoundStore DEF Stepped
  <2>5. DoneInv' BY <2>2, <2>3, SameDone DEF Ends
  <2>6. FreshInv(t)' BY <2>2 DEF FreshInv, FreshPcs
  <2>7. TicketInv(t)'
    <3>1. TicketInv(t) BY <1>0, SlowFacts
    <3>2. \A u \in Threads \ {t} : pc'[u] = pc[u] /\ cid'[u] = cid[u] BY DEF Stepped, Others
    <3>3. cellEnq'[cid'[t]] = t BY <1>1, <1>2, <2>2
    <3>4. QED BY <1>0, <1>2, <2>2, <3>1, <3>2, <3>3 DEF TicketInv
  <2>8. SlowInv(t)' BY <1>0, <1>2, <2>2, SlowFacts DEF SlowInv, SettledPcs, enqReqs
  <2>9. EnqOrderInv(t)' BY <1>0, <1>2, <2>3, OrderKept
  <2>10. HelpInv(t)' BY <2>2, NoHelp DEF EnqPcs
  <2>11. QED BY <2>3, <2>4, <2>5, <2>6, <2>7, <2>8, <2>9, <2>10 DEF Kept, StoreThread
<1>5. QED BY <1>3, <1>4

\* A request is settled for the cell of t, by its owner or a helper.
LEMMA ClaimKeeps ==
  ASSUME NEW t \in Threads, Stepped(t), OwnKept(t),
         UNCHANGED <<cellVal, cellEnq, reqVal, peers>>,
         pc[t] # "enq_state", pc'[t] # "enq_state", ~Ends(t, "put"),
         NEW r \in Threads, NEW n \in Nat, NEW c \in Cells, cellEnq[c] = r,
         ClaimFor(r, n, c)
  PROVE  /\ Keeps(t) /\ SharedStore' /\ DoneInv'
         /\ reqState'[r] = IF Claims(r, n) THEN State(FALSE, c) ELSE reqState[r]
<1>1. \A s \in Threads : Published(s)' <=> Published(s)
  BY DEF Stepped, Others, Published
<1>2. reqState'[r] = IF Claims(r, n) THEN State(FALSE, c) ELSE reqState[r]
  BY DEF ClaimFor, Stepped, Parts, SharedInv, SharedTyped
<1>3. CASE ~Claims(r, n)
  <2>1. UNCHANGED enqReqs BY <1>3 DEF ClaimFor, enqReqs
  <2>2. QED BY <1>2, <2>1, QuietKeeps DEF peers
<1>4. CASE Claims(r, n)
  <2>1. reqState' = [reqState EXCEPT ![r] = State(FALSE, c)] BY <1>4 DEF ClaimFor
  <2>2. reqState[r].pending BY <1>4 DEF Claims, State
  <2>3. ~reqState'[r].pending /\ \A s \in Threads \ {r} : reqState'[s] = reqState[s]
    BY <2>1 DEF State, Stepped, Parts, SharedInv, SharedTyped
  <2>4. Published(r) BY <2>2 DEF Stepped, Store, RequestsInv
  <2>5. Keeps(t)
    <3>1. \A d \in Cells : CellKept(t, d) /\ BindKept(t, d) BY DEF CellKept, BindKept
    <3>2. \A s \in Threads : RequestKept(t, s)
      BY <1>1, <2>2, <2>3, <2>4 DEF RequestKept
    <3>3. sent' >= sent BY DEF Stepped, Parts, LocalsTyped
    <3>4. QED BY <3>1, <3>2, <3>3 DEF peers, Keeps, Stepped
  <2>6. SharedStore' BY <1>1, <2>1, <2>2, <2>5, ClaimStore DEF Stepped
  <2>7. DoneInv' BY <2>5, SameDone
  <2>8. QED BY <1>2, <2>5, <2>6, <2>7
<1>5. QED BY <1>3, <1>4

LEMMA EnqClaimKept == ASSUME NEW t \in Threads, Stepped(t), EnqClaim(t) PROVE Kept(t)
<1>0. /\ pc[t] = "enq_claim" /\ pc[t] \in EnqPcs \ FreshPcs /\ pc[t] \in LoopPcs
      /\ pc[t] \in TicketPcs
  BY DEF EnqClaim, EnqPcs, FreshPcs, LoopPcs, SettledPcs, TicketPcs
<1>1. PICK c \in Cells : c = cid[t]
  BY <1>0, MyFacts DEF Known, CellInv
<1>2. PICK n \in Nat : n = own[t].state.low BY MyFacts DEF Known
<1>3. /\ UNCHANGED <<cellVal, cellEnq, reqVal, peers, call, cid, own>>
      /\ ClaimFor(t, n, c) /\ pc' = [pc EXCEPT ![t] = "enq_final"]
  BY <1>1, <1>2 DEF EnqClaim, GoTo, cells, locals
<1>4. pc'[t] = "enq_final" BY <1>3 DEF Stepped, Parts, LocalsTyped
<1>5. cellEnq[c] = t BY <1>0, <1>1, SlowFacts DEF TicketInv
<1>6. OwnKept(t) BY <1>4 DEF OwnKept, FreshPcs, TicketPcs
<1>7. /\ Keeps(t) /\ SharedStore' /\ DoneInv'
      /\ reqState'[t] = IF Claims(t, n) THEN State(FALSE, c) ELSE reqState[t]
  BY <1>0, <1>3, <1>4, <1>5, <1>6, ClaimKeeps DEF Ends
<1>8. ~reqState'[t].pending
  <2>1. CASE Claims(t, n) BY <1>7, <2>1 DEF State
  <2>2. CASE ~Claims(t, n)
    <3>1. ASSUME reqState[t].pending PROVE FALSE
      <4>1. reqState[t] = own[t].state BY <1>0, <3>1, SlowFacts DEF SlowInv
      <4>2. reqState[t] \in States BY <1>0, SlowFacts
      <4>3. reqState[t] = State(TRUE, n) BY <1>2, <3>1, <4>1, <4>2 DEF State, States
      <4>4. QED BY <2>2, <4>3 DEF Claims
    <3>2. QED BY <1>7, <2>2, <3>1
  <2>3. QED BY <2>1, <2>2
<1>9. SlowInv(t)' BY <1>0, <1>3, <1>4, <1>8, SlowFacts DEF SlowInv, SettledPcs
<1>10. EnqOrderInv(t)'
  BY <1>0, <1>3, <1>4, <1>7, OrderKept DEF LoopPcs, SettledPcs
<1>11. FreshInv(t)' /\ TicketInv(t)' BY <1>4 DEF FreshInv, TicketInv, FreshPcs, TicketPcs
<1>12. HelpInv(t)' BY <1>4, NoHelp DEF EnqPcs
<1>13. QED BY <1>7, <1>9, <1>10, <1>11, <1>12 DEF Kept, StoreThread

\* A thread whose request is settled goes on.
LEMMA SettledKept ==
  ASSUME NEW t \in Threads, Stepped(t),
         UNCHANGED <<cellVal, cellEnq, enqReqs, peers, call, own>>,
         pc[t] \in SettledPcs, pc'[t] \in {"enq_dest", "enq_cover", "enq_store"},
         cid'[t] = reqState[t].low,
         pc'[t] \in {"enq_cover", "enq_store"} => cellVal[cid'[t]] \in {Top, call[t].val}
  PROVE  Kept(t)
<1>1. pc[t] \in EnqPcs \ FreshPcs /\ pc[t] # "enq_state" BY DEF SettledPcs, EnqPcs, FreshPcs
<1>2. OwnKept(t) BY DEF OwnKept, FreshPcs, TicketPcs
<1>3. Keeps(t) /\ RequestsStay /\ SharedStore' /\ DoneInv'
  BY <1>1, <1>2, QuietKeeps DEF Ends, peers
<1>4. SlowInv(t)' BY <1>1, SlowFacts DEF SlowInv, SettledPcs, enqReqs
<1>5. EnqOrderInv(t)' BY <1>1, <1>3, OrderKept DEF LoopPcs, SettledPcs
<1>6. FreshInv(t)' /\ TicketInv(t)' BY DEF FreshInv, TicketInv, FreshPcs, TicketPcs
<1>7. HelpInv(t)' BY NoHelp DEF EnqPcs
<1>8. QED BY <1>3, <1>4, <1>5, <1>6, <1>7 DEF Kept, StoreThread

LEMMA EnqFinalKept == ASSUME NEW t \in Threads, Stepped(t), EnqFinal(t) PROVE Kept(t)
<1>1. pc[t] = "enq_final" /\ pc[t] \in EnqPcs \ FreshPcs /\ pc[t] \in SettledPcs
  BY DEF EnqFinal, EnqPcs, FreshPcs, SettledPcs
<1>2. reqState[t].low \in Cells BY <1>1, SlowFacts
<1>3. /\ UNCHANGED <<cellVal, cellEnq, enqReqs, peers, call, own>>
      /\ cid' = [cid EXCEPT ![t] = reqState[t].low] /\ pc' = [pc EXCEPT ![t] = "enq_dest"]
  BY <1>2 DEF EnqFinal, GoTo, cells
<1>4. cid'[t] = reqState[t].low /\ pc'[t] = "enq_dest"
  BY <1>3 DEF Stepped, Parts, LocalsTyped
<1>5. QED BY <1>1, <1>3, <1>4, SettledKept

LEMMA EnqCoverKept == ASSUME NEW t \in Threads, Stepped(t), EnqCover(t) PROVE Kept(t)
<1>1. pc[t] = "enq_cover" /\ pc[t] \in EnqPcs \ FreshPcs /\ pc[t] \in SettledPcs
  BY DEF EnqCover, EnqPcs, FreshPcs, SettledPcs
<1>2. /\ UNCHANGED <<cellVal, cellEnq, enqReqs, peers, call, cid, own>>
      /\ pc' = [pc EXCEPT ![t] = "enq_store"]
  BY DEF EnqCover, GoTo, cells, locals
<1>3. pc'[t] = "enq_store" BY <1>2 DEF Stepped, Parts, LocalsTyped
<1>4. reqState[t].low = cid[t] /\ cellVal[cid[t]] \in {Top, call[t].val}
  BY <1>1, SlowFacts DEF SlowInv
<1>5. QED BY <1>1, <1>2, <1>3, <1>4, SettledKept

LEMMA EnqDestKept == ASSUME NEW t \in Threads, Stepped(t), EnqDest(t) PROVE Kept(t)
<1>1. pc[t] = "enq_dest" /\ pc[t] \in EnqPcs \ FreshPcs /\ pc[t] \in SettledPcs /\ pc[t] \in EnqPcs
  BY DEF EnqDest, EnqPcs, FreshPcs, SettledPcs
<1>2. UNCHANGED <<T, cellVal, cellEnq, enqReqs, peers>> BY DEF EnqDest, cells
<1>3. /\ reqState[t].low = cid[t] /\ cid[t] \in Cells /\ cellEnq[cid[t]] = t
      /\ Settled(t, cid[t]) /\ Published(t) /\ reqVal[t] = call[t].val
      /\ call[t].val \in Values
  BY <1>1, SlowFacts, MyFacts DEF SlowInv
<1>4. CASE cellVal[cid[t]] = Top
  <2>1. UNCHANGED locals /\ pc' = [pc EXCEPT ![t] = "enq_cover"]
    BY <1>4 DEF EnqDest, GoTo
  <2>2. pc'[t] = "enq_cover" BY <2>1 DEF Stepped, Parts, LocalsTyped
  <2>3. QED BY <1>1, <1>2, <1>3, <1>4, <2>1, <2>2, SettledKept DEF locals
<1>5. CASE cellVal[cid[t]] # Top
  <2>1. Return(t, "put", call[t].val) BY <1>5 DEF EnqDest
  <2>2. pc'[t] = "idle" /\ call'[t].kind = "put" /\ call'[t].val = call[t].val
    BY <2>1 DEF Stepped, Parts, LocalsTyped, Return, GoTo
  <2>3. PICK c \in Cells, x \in Values : c = cid[t] /\ x = call[t].val BY <1>3
  <2>4. c < T' /\ Holds(c, x)
    <3>1. cellVal[c] = Bottom \/ IsValue(cellVal[c])
      BY <1>5, <2>3, StoreFacts, StoreBasics DEF Stepped, Words
    <3>2. cellVal[c] = Bottom => c < T
      BY <1>3, <2>3, Basics DEF Stepped, Store, CellsInv
    <3>3. IsValue(cellVal[c]) => c < T BY DEF Stepped, Parts, SharedInv, PublishedCovered
    <3>4. QED BY <1>2, <1>3, <2>3, <3>1, <3>2, <3>3 DEF Holds
  <2>5. Keeps(t) /\ RequestsStay
    <3>1. OwnKept(t) BY <2>2 DEF OwnKept, FreshPcs, TicketPcs
    <3>2. \A d \in Cells : CellKept(t, d) /\ BindKept(t, d) BY <1>2 DEF CellKept, BindKept
    <3>3. QED BY <1>1, <1>2, <2>2, <3>1, <3>2, PlainKeeps DEF peers
  <2>6. SharedStore' BY <1>2, <2>5, UntouchedStore DEF Stepped
  <2>7. DoneInv'
    <3>1. Holds(c, x)' BY <2>4, <2>5, HoldsStays DEF Stepped
    <3>2. Ends(t, "put") BY <1>1, <2>2 DEF Ends
    <3>3. QED BY <2>2, <2>3, <2>4, <2>5, <3>1, <3>2, MoreDone
  <2>8. StoreThread(t)' BY <2>2, NothingKnown DEF EnqPcs, HelpPcs, ReqPcs
  <2>9. QED BY <2>5, <2>6, <2>7, <2>8 DEF Kept
<1>6. QED BY <1>4, <1>5

\* The value of a settled request is committed to its cell.
LEMMA CommitKeeps ==
  ASSUME NEW t \in Threads, Stepped(t), OwnKept(t), UNCHANGED <<cellEnq, enqReqs, peers>>,
         pc[t] # "enq_state", pc'[t] # "enq_state",
         NEW r \in Threads, NEW c \in Cells, Settled(r, c), cellVal[c] # Bottom,
         cellVal' = [cellVal EXCEPT ![c] = reqVal[r]]
  PROVE  /\ Keeps(t) /\ SharedStore' /\ cellVal'[c] = reqVal[r] /\ reqVal[r] \in Values
         /\ Holds(c, reqVal[r])'
<1>1. /\ cellVal'[c] = reqVal[r] /\ \A d \in Cells \ {c} : cellVal'[d] = cellVal[d]
      /\ reqVal[r] \in Values
  BY StoreFacts DEF Stepped, Parts, SharedInv, SharedTyped, Settled
<1>2. cellEnq[c] = r
  BY DEF Stepped, Store, RequestsInv, Settled, State
<1>3. cellVal[c] \in {Top, reqVal[r]} BY <1>2 DEF Stepped, Store, CellsInv
<1>4. \A d \in Cells : CellKept(t, d) /\ BindKept(t, d)
  BY <1>1, <1>2, <1>3 DEF CellKept, BindKept
<1>5. Keeps(t) /\ RequestsStay BY <1>4, PlainKeeps DEF peers
<1>6. SharedStore' BY <1>2, <1>5, CommitStore DEF Stepped
<1>7. PICK x \in Values : x = reqVal[r] BY <1>1
<1>8. Holds(c, x)' BY <1>1, <1>7 DEF Holds
<1>9. reqVal'[r] = reqVal[r] BY DEF enqReqs
<1>10. QED BY <1>1, <1>5, <1>6, <1>7, <1>8, <1>9

LEMMA EnqStoreKept == ASSUME NEW t \in Threads, Stepped(t), EnqStore(t) PROVE Kept(t)
<1>1. pc[t] = "enq_store" /\ pc[t] \in EnqPcs \ FreshPcs /\ pc[t] \in SettledPcs /\ pc[t] \in EnqPcs
  BY DEF EnqStore, EnqPcs, FreshPcs, SettledPcs
<1>2. UNCHANGED <<T, cellEnq, enqReqs, peers>> BY DEF EnqStore
<1>3. /\ reqState[t].low = cid[t] /\ cid[t] \in Cells /\ cid[t] < T
      /\ Settled(t, cid[t]) /\ reqVal[t] = call[t].val
      /\ call[t].val \in Values /\ cellVal[cid[t]] \in {Top, call[t].val}
  BY <1>1, SlowFacts, MyFacts DEF SlowInv, Known, CellInv
<1>4. PICK c \in Cells, x \in Values : c = cid[t] /\ x = call[t].val BY <1>3
<1>5. cellVal' = [cellVal EXCEPT ![c] = reqVal[t]] /\ Return(t, "put", x)
  BY <1>3, <1>4 DEF EnqStore
<1>6. pc'[t] = "idle" /\ call'[t].kind = "put" /\ call'[t].val = x
  BY <1>5 DEF Stepped, Parts, LocalsTyped, Return, GoTo
<1>7. OwnKept(t) BY <1>6 DEF OwnKept, FreshPcs, TicketPcs
<1>8. cellVal[c] # Bottom BY <1>3, <1>4, StoreBasics
<1>9. /\ Keeps(t) /\ SharedStore' /\ cellVal'[c] = reqVal[t]
  BY <1>1, <1>2, <1>3, <1>4, <1>5, <1>6, <1>7, <1>8, CommitKeeps
<1>10. DoneInv'
  <2>1. Holds(c, x)' BY <1>3, <1>4, <1>9 DEF Holds
  <2>2. c < T' BY <1>2, <1>3, <1>4
  <2>3. Ends(t, "put") BY <1>1, <1>6 DEF Ends
  <2>4. QED BY <1>6, <1>9, <2>1, <2>2, <2>3, MoreDone
<1>11. StoreThread(t)' BY <1>6, NothingKnown DEF EnqPcs, HelpPcs, ReqPcs
<1>12. QED BY <1>9, <1>10, <1>11 DEF Kept

-----------------------------------------------------------------------------
(***************************************************************************)
(* The steps of help_enq                                                   *)
(***************************************************************************)

\* help_enq goes back to its caller.
LEMMA HelpedLeaves ==
  ASSUME Parts, NEW t \in Threads, pc[t] \in HelpPcs, NEW v, Helped(t, v)
  PROVE  /\ pc'[t] \notin EnqPcs /\ pc'[t] \notin HelpPcs /\ ~Ends(t, "put")
<1>1. pc \in [Threads -> Pcs] /\ call \in [Threads -> CallRecs] BY DEF Parts, LocalsTyped
<1>2. CASE Scanning(t)
  <2>1. pc'[t] \in {"scan_announce", "scan_seen", "scan_state"}
    BY <1>1, <1>2 DEF Helped, HelpedScan, GoTo
  <2>2. QED BY <2>1 DEF Ends, EnqPcs, HelpPcs, ReqPcs
<1>3. CASE ~Scanning(t)
  <2>1. HelpedFast(t, v) BY <1>3 DEF Helped
  <2>2. CASE v = Empty
    <3>1. Return(t, "empty", Bottom) BY <2>1, <2>2 DEF HelpedFast, Empty, IsValue
    <3>2. pc'[t] = "idle" /\ call'[t].kind = "empty" BY <1>1, <3>1 DEF Return, GoTo
    <3>3. QED BY <3>2 DEF Ends, EnqPcs, HelpPcs, ReqPcs
  <2>3. CASE v # Empty /\ IsValue(v)
    <3>1. pc'[t] = "deq_take" BY <1>1, <2>1, <2>3 DEF HelpedFast, GoTo
    <3>2. QED BY <3>1 DEF Ends, EnqPcs, HelpPcs, ReqPcs
  <2>4. CASE v # Empty /\ ~IsValue(v)
    <3>1. DeqFails(t) BY <2>1, <2>4 DEF HelpedFast
    <3>2. pc'[t] \in {"bfs_t", "slow_id", "deq_faa"} BY <1>1, <3>1 DEF DeqFails, GoTo
    <3>3. QED BY <3>2 DEF Ends, EnqPcs, HelpPcs, ReqPcs
  <2>5. QED BY <2>2, <2>3, <2>4
<1>4. QED BY <1>2, <1>3

LEMMA HelpedKept ==
  ASSUME NEW t \in Threads, Stepped(t), pc[t] \in HelpPcs, NEW v, Helped(t, v),
         UNCHANGED <<cellVal, cellEnq, enqReqs, peers>>
  PROVE  Kept(t)
<1>1. pc'[t] \notin EnqPcs /\ pc'[t] \notin HelpPcs /\ ~Ends(t, "put")
  BY HelpedLeaves DEF Stepped
<1>2. pc[t] # "enq_state" BY DEF HelpPcs, ReqPcs
<1>3. QED BY <1>1, <1>2, OffStep DEF peers

\* What help_enq knows of its cell and of the request bound to it.
LEMMA HelpFacts ==
  ASSUME NEW t \in Threads, Stepped(t), pc[t] \in HelpPcs
  PROVE  /\ HelpInv(t) /\ At(t) \in Cells /\ At(t) \in Nat /\ cellVal[At(t)] \in Words
         /\ pc[t] # "help_top" => cellVal[At(t)] # Bottom
         /\ cellEnq[At(t)] \in Threads \cup {Null, Topp}
         /\ pc \in [Threads -> Pcs] /\ own \in [Threads -> OwnRecs]
         /\ own[t] \in OwnRecs /\ own[t].state \in States
         /\ pc[t] \in ReqPcs =>
              /\ own[t].req \in Threads /\ cellEnq[At(t)] = own[t].req
              /\ Published(own[t].req) /\ reqVal[own[t].req] \in Values
              /\ reqState[own[t].req] \in States
              /\ reqState[own[t].req].pending => reqState[own[t].req].low <= At(t)
              /\ cellVal[At(t)] \in {Top, reqVal[own[t].req]}
              /\ cellVal[At(t)] = reqVal[own[t].req] => Settled(own[t].req, At(t))
<1>1. /\ HelpInv(t) /\ Known(t) /\ Parts /\ Store
  BY MyFacts DEF StoreThread, Stepped
<1>2. /\ At(t) \in Cells /\ At(t) \in Nat /\ cellVal[At(t)] \in Words
      /\ cellEnq[At(t)] \in Threads \cup {Null, Topp}
  BY <1>1, Basics DEF Known, CellInv, SharedTyped
<1>3. pc[t] # "help_top" => cellVal[At(t)] # Bottom BY <1>1 DEF HelpInv
<1>4. ASSUME pc[t] \in ReqPcs
      PROVE   /\ own[t].req \in Threads /\ cellEnq[At(t)] = own[t].req
              /\ Published(own[t].req) /\ reqVal[own[t].req] \in Values
              /\ reqState[own[t].req] \in States
              /\ reqState[own[t].req].pending => reqState[own[t].req].low <= At(t)
              /\ cellVal[At(t)] \in {Top, reqVal[own[t].req]}
              /\ cellVal[At(t)] = reqVal[own[t].req] => Settled(own[t].req, At(t))
  <2>1. own[t].req \in Threads /\ cellEnq[At(t)] = own[t].req /\ pc[t] # "help_top"
    BY <1>1, <1>4 DEF Known, CellInv, HelpInv, ReqPcs
  <2>2. /\ Published(own[t].req)
        /\ reqState[own[t].req].pending => reqState[own[t].req].low <= At(t)
        /\ cellVal[At(t)] \in {Bottom, Top, reqVal[own[t].req]}
    BY <1>1, <1>2, <2>1 DEF Store, CellsInv
  <2>3. reqVal[own[t].req] \in Values /\ reqState[own[t].req] \in States
    BY <1>1, <2>1, <2>2, StoreFacts
  <2>4. cellVal[At(t)] = reqVal[own[t].req] => Settled(own[t].req, At(t))
    BY <1>1, <1>2, <2>1, <2>3, StoreBasics DEF Store, CellsInv
  <2>5. QED BY <1>3, <2>1, <2>2, <2>3, <2>4
<1>5. pc \in [Threads -> Pcs] /\ own \in [Threads -> OwnRecs] /\ own[t].state \in States
  BY <1>1, OwnFacts DEF Parts, LocalsTyped, Known
<1>6. QED BY <1>1, <1>2, <1>3, <1>4, <1>5 DEF Known

\* A cell whose request is settled elsewhere gets nothing any more.
LEMMA DeadCell ==
  ASSUME NEW t \in Threads, Stepped(t), pc[t] \in ReqPcs,
         ~reqState[own[t].req].pending, reqState[own[t].req] # State(FALSE, At(t))
  PROVE  Dead(At(t))
<1>1. pc[t] \in HelpPcs BY DEF HelpPcs
<1>2. reqState[own[t].req].low # At(t)
  BY <1>1, HelpFacts DEF States, State
<1>3. ~Settled(own[t].req, At(t)) BY DEF Settled
<1>4. cellVal[At(t)] = Top BY <1>1, <1>3, HelpFacts
<1>5. QED BY <1>1, <1>2, <1>4, HelpFacts, Basics DEF Dead

\* A step of help_enq that writes nothing but what the thread itself keeps.
LEMMA HelpMove ==
  ASSUME NEW t \in Threads, Stepped(t), pc[t] \in HelpPcs, pc'[t] \in HelpPcs,
         UNCHANGED <<cellVal, cellEnq, enqReqs>>,
         \A u \in Threads \ {t} : enqPeer'[u] = enqPeer[u], HelpInv(t)'
  PROVE  Kept(t)
<1>1. pc[t] # "enq_state" /\ pc'[t] \notin EnqPcs /\ pc'[t] # "idle"
  BY DEF HelpPcs, ReqPcs, EnqPcs
<1>2. OwnKept(t) BY <1>1, StoreBasics DEF OwnKept
<1>3. Keeps(t) /\ RequestsStay /\ SharedStore' /\ DoneInv'
  BY <1>1, <1>2, QuietKeeps DEF Ends, EnqPcs
<1>4. FreshInv(t)' /\ TicketInv(t)' /\ SlowInv(t)' /\ EnqOrderInv(t)'
  BY <1>1 DEF FreshInv, TicketInv, SlowInv, EnqOrderInv, FreshPcs, TicketPcs, EnqPcs
<1>5. QED BY <1>3, <1>4 DEF Kept, StoreThread

LEMMA HelpTopKept == ASSUME NEW t \in Threads, Stepped(t), HelpTop(t) PROVE Kept(t)
<1>1. pc[t] = "help_top" /\ pc[t] \in HelpPcs /\ UNCHANGED <<cellEnq, enqReqs, peers>>
  BY DEF HelpTop, HelpPcs
<1>2. CASE IsValue(cellVal[At(t)])
  <2>1. Helped(t, cellVal[At(t)]) /\ UNCHANGED cellVal BY <1>2 DEF HelpTop
  <2>2. QED BY <1>1, <2>1, HelpedKept
<1>3. CASE ~IsValue(cellVal[At(t)])
  <2>1. PICK c \in Cells : c = At(t) BY <1>1, HelpFacts
  <2>2. /\ cellVal' = [cellVal EXCEPT ![c] = Top] /\ UNCHANGED locals
        /\ pc' = [pc EXCEPT ![t] = "help_enq"]
    BY <1>3, <2>1 DEF HelpTop, GoTo
  <2>3. /\ pc'[t] = "help_enq" /\ cellVal'[c] = Top
        /\ \A d \in Cells \ {c} : cellVal'[d] = cellVal[d]
    BY <2>2 DEF Stepped, Parts, LocalsTyped, SharedInv, SharedTyped
  <2>4. ~IsValue(cellVal[c]) /\ cellVal[c] \in {Bottom, Top}
    BY <1>1, <1>3, <2>1, HelpFacts, StoreBasics DEF Words
  <2>5. Keeps(t) /\ RequestsStay
    <3>1. OwnKept(t) BY <2>3 DEF OwnKept, FreshPcs, TicketPcs
    <3>2. \A d \in Cells : CellKept(t, d) /\ BindKept(t, d)
      BY <1>1, <2>3, <2>4 DEF CellKept, BindKept
    <3>3. QED BY <1>1, <2>3, <3>1, <3>2, PlainKeeps DEF peers
  <2>6. SharedStore' BY <1>1, <2>2, <2>4, <2>5, SpoiledStore DEF Stepped
  <2>7. DoneInv' BY <2>3, <2>5, SameDone DEF Ends
  <2>8. At(t)' = c BY <2>1, <2>2 DEF locals, At, Scanning
  <2>9. HelpInv(t)'
    BY <2>3, <2>8, StoreBasics DEF HelpInv, ReqPcs
  <2>10. FreshInv(t)' /\ TicketInv(t)' /\ SlowInv(t)' /\ EnqOrderInv(t)'
    BY <2>3 DEF FreshInv, TicketInv, SlowInv, EnqOrderInv, FreshPcs, TicketPcs, EnqPcs
  <2>11. QED BY <2>5, <2>6, <2>7, <2>9, <2>10 DEF Kept, StoreThread
<1>4. QED BY <1>2, <1>3

\* The request of the cell is known.
LEMMA WithKept ==
  ASSUME NEW t \in Threads, Stepped(t), pc[t] \in HelpPcs, pc[t] # "help_top",
         UNCHANGED <<cellVal, cellEnq, enqReqs, cid, scan>>,
         \A u \in Threads \ {t} : enqPeer'[u] = enqPeer[u],
         cellEnq[At(t)] # Null, HelpWith(t, cellEnq[At(t)])
  PROVE  Kept(t)
<1>1. PICK r \in Threads \cup {Topp} : r = cellEnq[At(t)] BY HelpFacts
<1>2. /\ pc'[t] = IF r = Topp THEN "help_end" ELSE "help_state"
      /\ own'[t].req = r /\ At(t)' = At(t)
  BY <1>1, HelpFacts DEF HelpWith, GoTo, At, Scanning, OwnRecs
<1>3. r = Topp => Dead(At(t))'
  <2>1. r = Topp => cellVal[At(t)] = Top BY <1>1, HelpFacts DEF Stepped, Store, CellsInv
  <2>2. QED BY <1>1, <1>2, <2>1, Basics DEF Dead
<1>4. cellVal'[At(t)] # Bottom BY HelpFacts
<1>5. HelpInv(t)' BY <1>1, <1>2, <1>3, <1>4 DEF HelpInv, ReqPcs
<1>6. pc'[t] \in HelpPcs BY <1>2 DEF HelpPcs, ReqPcs
<1>7. QED BY <1>5, <1>6, HelpMove

LEMMA HelpEnqKept == ASSUME NEW t \in Threads, Stepped(t), HelpEnq(t) PROVE Kept(t)
<1>1. /\ pc[t] = "help_enq" /\ pc[t] \in HelpPcs
      /\ UNCHANGED <<cellVal, cellEnq, enqReqs, peers, cid, scan>>
  BY DEF HelpEnq, HelpPcs, cells
<1>2. CASE cellEnq[At(t)] = Null
  <2>1. pc'[t] = "help_peer" /\ UNCHANGED own
    BY <1>1, <1>2, HelpFacts DEF HelpEnq, GoTo
  <2>2. At(t)' = At(t) BY <1>1 DEF At, Scanning
  <2>3. HelpInv(t)' BY <1>1, <1>2, <2>1, <2>2, HelpFacts DEF HelpInv, ReqPcs
  <2>4. pc'[t] \in HelpPcs BY <2>1 DEF HelpPcs
  <2>5. QED BY <1>1, <2>3, <2>4, HelpMove DEF peers
<1>3. CASE cellEnq[At(t)] # Null
  BY <1>1, <1>3, WithKept DEF HelpEnq, peers
<1>4. QED BY <1>2, <1>3

LEMMA HelpPeerKept == ASSUME NEW t \in Threads, Stepped(t), HelpPeer(t) PROVE Kept(t)
<1>1. /\ pc[t] = "help_peer" /\ pc[t] \in HelpPcs
      /\ UNCHANGED <<cellVal, cellEnq, enqReqs, cid, scan>>
  BY DEF HelpPeer, HelpPcs, cells
<1>2. PICK p \in Threads : p = enqPeer[t]
  BY DEF Stepped, Parts, SharedInv, SharedTyped
<1>3. \/ /\ pc' = pc
         /\ enqPeer' = [enqPeer EXCEPT ![t] = NextOf(p)]
      \/ /\ pc' = [pc EXCEPT ![t] = "help_bind"]
         /\ reqState[p].pending /\ reqState[p].low <= At(t)
         /\ enqPeer' = enqPeer
      \/ /\ pc' = [pc EXCEPT ![t] = "help_topp"]
         /\ enqPeer' = [enqPeer EXCEPT ![t] = NextOf(p)]
  BY <1>2 DEF HelpPeer, GoTo
<1>4. pc \in [Threads -> Pcs] /\ enqPeer \in [Threads -> Threads]
  BY DEF Stepped, Parts, LocalsTyped, SharedInv, SharedTyped
<1>5. /\ pc'[t] \in {"help_peer", "help_bind", "help_topp"}
      /\ pc'[t] = "help_bind" =>
           reqState[p].pending /\ reqState[p].low <= At(t) /\ enqPeer'[t] = p
      /\ \A u \in Threads \ {t} : enqPeer'[u] = enqPeer[u]
  BY <1>1, <1>2, <1>3, <1>4
<1>6. At(t)' = At(t) BY <1>1 DEF At, Scanning
<1>7. pc'[t] = "help_bind" =>
        /\ enqPeer'[t] = p /\ Published(p)'
        /\ reqState'[p].pending => reqState'[p].low <= At(t)'
  <2>1. reqState[p].pending => Published(p) BY DEF Stepped, Store, RequestsInv
  <2>2. ASSUME pc'[t] = "help_bind" PROVE Published(p)'
    <3>1. Published(p) /\ reqVal' = reqVal BY <1>1, <1>5, <2>1, <2>2 DEF enqReqs
    <3>2. pc'[p] # "enq_state"
      <4>1. CASE p = t BY <2>2, <4>1
      <4>2. CASE p # t BY <3>1, <4>2 DEF Stepped, Others, Published
      <4>3. QED BY <4>1, <4>2
    <3>3. QED BY <3>1, <3>2 DEF Published
  <2>3. reqState' = reqState BY <1>1 DEF enqReqs
  <2>4. QED BY <1>5, <1>6, <2>2, <2>3
<1>8. cellVal'[At(t)] # Bottom /\ (cellEnq'[At(t)] = Null => cellVal'[At(t)] = Top)
  BY <1>1, HelpFacts DEF HelpInv
<1>9. HelpInv(t)'
  <2>1. CASE pc'[t] = "help_bind"
    <3>1. Published(p)' /\ enqPeer'[t] = p BY <1>7, <2>1
    <3>2. QED BY <1>6, <1>7, <1>8, <2>1, <3>1 DEF HelpInv, ReqPcs
  <2>2. CASE pc'[t] # "help_bind" BY <1>5, <1>6, <1>8, <2>2 DEF HelpInv, ReqPcs
  <2>3. QED BY <2>1, <2>2
<1>10. pc'[t] \in HelpPcs BY <1>5 DEF HelpPcs
<1>11. QED BY <1>1, <1>5, <1>9, <1>10, HelpMove

\* A cell that was free is bound by t.
LEMMA BindKeeps ==
  ASSUME NEW t \in Threads, Stepped(t), pc[t] \in {"help_bind", "help_topp"},
         UNCHANGED <<cellVal, enqReqs, cid, scan>>,
         \A u \in Threads \ {t} : enqPeer'[u] = enqPeer[u],
         NEW b \in Threads \cup {Topp}, cellEnq[At(t)] = Null,
         b \in Threads => /\ Published(b)
                          /\ reqState[b].pending => reqState[b].low <= At(t),
         cellEnq' = [cellEnq EXCEPT ![At(t)] = b], HelpWith(t, b)
  PROVE  Kept(t)
<1>1. pc[t] \in HelpPcs BY DEF HelpPcs
<1>2. PICK c \in Cells : c = At(t) BY <1>1, HelpFacts
<1>3. /\ pc'[t] = IF b = Topp THEN "help_end" ELSE "help_state"
      /\ own'[t].req = b /\ At(t)' = c
  BY <1>1, <1>2, HelpFacts DEF HelpWith, GoTo, At, Scanning, OwnRecs
<1>4. cellVal[c] = Top /\ Top # Bottom /\ ~IsValue(Top)
  <2>1. HelpInv(t) BY <1>1, HelpFacts
  <2>2. cellVal[c] = Top BY <1>2, <2>1 DEF HelpInv
  <2>3. QED BY <2>2 DEF IsValue, Top, Bottom
<1>5. cellEnq'[c] = b /\ \A d \in Cells \ {c} : cellEnq'[d] = cellEnq[d]
  BY <1>2 DEF Stepped, Parts, SharedInv, SharedTyped
<1>6. Keeps(t) /\ RequestsStay
  <2>1. OwnKept(t) BY <1>3 DEF OwnKept, FreshPcs, TicketPcs
  <2>2. \A d \in Cells : CellKept(t, d) /\ BindKept(t, d)
    BY <1>2, <1>4, <1>5 DEF CellKept, BindKept
  <2>3. QED BY <1>3, <2>1, <2>2, PlainKeeps
<1>7. SharedStore'
  BY <1>2, <1>4, <1>6, BoundStore DEF Stepped
<1>8. DoneInv' BY <1>3, <1>6, SameDone DEF Ends
<1>9. b = Topp => Dead(c)' BY <1>4, <1>5, Basics DEF Dead
<1>10. HelpInv(t)' BY <1>3, <1>4, <1>5, <1>9 DEF HelpInv, ReqPcs
<1>11. FreshInv(t)' /\ TicketInv(t)' /\ SlowInv(t)' /\ EnqOrderInv(t)'
  BY <1>3 DEF FreshInv, TicketInv, SlowInv, EnqOrderInv, FreshPcs, TicketPcs, EnqPcs
<1>12. QED BY <1>6, <1>7, <1>8, <1>10, <1>11 DEF Kept, StoreThread

LEMMA HelpBindKept == ASSUME NEW t \in Threads, Stepped(t), HelpBind(t) PROVE Kept(t)
<1>1. /\ pc[t] = "help_bind" /\ pc[t] \in HelpPcs
      /\ UNCHANGED <<cellVal, enqReqs, cid, scan>>
  BY DEF HelpBind, HelpPcs, cells
<1> DEFINE p == enqPeer[t]
<1>2. p \in Threads /\ enqPeer \in [Threads -> Threads] /\ p # Topp /\ p # Null
  BY Basics DEF Stepped, Parts, SharedInv, SharedTyped
<1>3. Published(p) /\ (reqState[p].pending => reqState[p].low <= At(t))
  BY <1>1, HelpFacts DEF HelpInv
<1>4. \A u \in Threads \ {t} : enqPeer'[u] = enqPeer[u]
  BY <1>2 DEF HelpBind
<1>5. CASE cellEnq[At(t)] = Null
  <2>1. cellEnq' = [cellEnq EXCEPT ![At(t)] = p] /\ HelpWith(t, p)
    BY <1>5 DEF HelpBind
  <2>2. QED BY <1>1, <1>2, <1>3, <1>4, <1>5, <2>1, BindKeeps
<1>6. CASE cellEnq[At(t)] # Null
  <2>1. cellEnq' = cellEnq /\ HelpWith(t, cellEnq[At(t)])
    <3>1. cellEnq[At(t)] = p => [cellEnq EXCEPT ![At(t)] = p] = cellEnq
      BY <1>1, HelpFacts DEF Stepped, Parts, SharedInv, SharedTyped
    <3>2. QED BY <1>6, <3>1 DEF HelpBind
  <2>2. QED BY <1>1, <1>4, <1>6, <2>1, WithKept
<1>7. QED BY <1>5, <1>6

LEMMA HelpToppKept == ASSUME NEW t \in Threads, Stepped(t), HelpTopp(t) PROVE Kept(t)
<1>1. /\ pc[t] = "help_topp" /\ pc[t] \in HelpPcs
      /\ UNCHANGED <<cellVal, enqReqs, peers, cid, scan>>
  BY DEF HelpTopp, HelpPcs, cells
<1>2. CASE cellEnq[At(t)] = Null
  <2>1. cellEnq' = [cellEnq EXCEPT ![At(t)] = Topp] /\ HelpWith(t, Topp)
    BY <1>2 DEF HelpTopp
  <2>2. QED BY <1>1, <1>2, <2>1, Basics, BindKeeps DEF peers
<1>3. CASE cellEnq[At(t)] # Null
  BY <1>1, <1>3, WithKept DEF HelpTopp, peers
<1>4. QED BY <1>2, <1>3

LEMMA HelpEndKept ==
  ASSUME NEW t \in Threads, Stepped(t), HelpEnd(t) \/ HelpRead(t) PROVE Kept(t)
<1>1. PICK v : Helped(t, v) BY DEF HelpEnd, HelpRead
<1>2. pc[t] \in HelpPcs /\ UNCHANGED <<cellVal, cellEnq, enqReqs, peers>>
  BY DEF HelpEnd, HelpRead, HelpPcs, cells
<1>3. QED BY <1>1, <1>2, HelpedKept

LEMMA HelpStateKept == ASSUME NEW t \in Threads, Stepped(t), HelpState(t) PROVE Kept(t)
<1>1. /\ pc[t] = "help_state" /\ pc[t] \in HelpPcs /\ pc[t] \in ReqPcs
      /\ UNCHANGED <<cellVal, cellEnq, enqReqs, peers, cid, scan>>
      /\ pc' = [pc EXCEPT ![t] = "help_val"]
      /\ own' = [own EXCEPT ![t].state = reqState[own[t].req]]
  BY DEF HelpState, HelpPcs, ReqPcs, cells, GoTo
<1>2. /\ pc'[t] = "help_val" /\ own'[t].state = reqState[own[t].req]
      /\ own'[t].req = own[t].req /\ At(t)' = At(t)
  BY <1>1, HelpFacts DEF At, Scanning, OwnRecs
<1>3. /\ cellVal[At(t)] # Bottom /\ cellEnq[At(t)] = own[t].req
      /\ reqState[own[t].req].pending => reqState[own[t].req].low <= At(t)
  BY <1>1, HelpFacts
<1>4. HelpInv(t)' BY <1>1, <1>2, <1>3 DEF HelpInv, ReqPcs, enqReqs
<1>5. pc'[t] \in HelpPcs BY <1>2 DEF HelpPcs, ReqPcs
<1>6. QED BY <1>1, <1>4, <1>5, HelpMove DEF peers

LEMMA HelpValKept == ASSUME NEW t \in Threads, Stepped(t), HelpVal(t) PROVE Kept(t)
<1>1. /\ pc[t] = "help_val" /\ pc[t] \in HelpPcs /\ pc[t] \in ReqPcs
      /\ UNCHANGED <<cellVal, cellEnq, enqReqs, peers, cid, scan>>
      /\ own' = [own EXCEPT ![t].val = reqVal[own[t].req]]
  BY DEF HelpVal, HelpPcs, ReqPcs, cells
<1>2. PICK s \in States, r \in Threads : s = own[t].state /\ r = own[t].req
  BY <1>1, HelpFacts
<1>3. /\ pc'[t] = CASE s.pending /\ s.low <= At(t) -> "help_claim"
                    [] ~s.pending /\ s.low = At(t) -> "help_check"
                    [] OTHER -> "help_end"
      /\ own'[t].val = reqVal[r] /\ own'[t].req = r /\ own'[t].state = s
      /\ At(t)' = At(t)
  BY <1>1, <1>2, HelpFacts DEF HelpVal, GoTo, At, Scanning, OwnRecs
<1>4. /\ cellVal[At(t)] # Bottom /\ cellEnq[At(t)] = r /\ At(t) \in Nat
      /\ HelpInv(t)
  BY <1>1, <1>2, HelpFacts
<1>5. /\ reqState[r] = s \/ (s.pending /\ ~reqState[r].pending)
      /\ s.pending => s.low <= At(t)
  BY <1>1, <1>2, <1>4 DEF HelpInv
<1>6. CASE s.pending /\ s.low <= At(t)
  <2>1. pc'[t] = "help_claim" BY <1>3, <1>6
  <2>2. HelpInv(t)' BY <1>1, <1>3, <1>4, <1>5, <2>1 DEF HelpInv, ReqPcs, enqReqs
  <2>3. pc'[t] \in HelpPcs BY <2>1 DEF HelpPcs, ReqPcs
  <2>4. QED BY <1>1, <2>2, <2>3, HelpMove DEF peers
<1>7. CASE ~s.pending /\ s.low = At(t)
  <2>1. pc'[t] = "help_check" BY <1>3, <1>7
  <2>2. reqState[r] = State(FALSE, At(t)) BY <1>2, <1>5, <1>7 DEF State, States
  <2>3. reqState'[r] = State(FALSE, At(t))' BY <1>1, <1>3, <2>2 DEF State, enqReqs
  <2>4. HelpInv(t)' BY <1>1, <1>3, <1>4, <2>1, <2>3 DEF HelpInv, ReqPcs, enqReqs
  <2>5. pc'[t] \in HelpPcs BY <2>1 DEF HelpPcs, ReqPcs
  <2>6. QED BY <1>1, <2>4, <2>5, HelpMove DEF peers
<1>8. CASE ~s.pending /\ s.low # At(t)
  <2>1. pc'[t] = "help_end" BY <1>3, <1>8
  <2>2. Dead(At(t))
    <3>1. reqState[r] # State(FALSE, At(t)) BY <1>4, <1>5, <1>8 DEF State
    <3>2. QED BY <1>1, <1>2, <1>5, <1>8, <3>1, DeadCell
  <2>3. Dead(At(t))' BY <1>1, <1>3, <2>2 DEF Dead, enqReqs
  <2>4. HelpInv(t)' BY <1>1, <1>3, <1>4, <2>1, <2>3 DEF HelpInv, ReqPcs
  <2>5. pc'[t] \in HelpPcs BY <2>1 DEF HelpPcs
  <2>6. QED BY <1>1, <2>4, <2>5, HelpMove DEF peers
<1>9. QED BY <1>5, <1>6, <1>7, <1>8

LEMMA HelpClaimKept == ASSUME NEW t \in Threads, Stepped(t), HelpClaim(t) PROVE Kept(t)
<1>1. /\ pc[t] = "help_claim" /\ pc[t] \in HelpPcs /\ pc[t] \in ReqPcs
      /\ UNCHANGED <<cellVal, cellEnq, reqVal, peers, locals>>
      /\ ClaimFor(own[t].req, own[t].state.low, At(t))
      /\ pc' = [pc EXCEPT ![t] = IF Claims(own[t].req, own[t].state.low)
                                 THEN "help_check" ELSE "help_reload"]
  BY DEF HelpClaim, HelpPcs, ReqPcs, cells, GoTo
<1>2. PICK s \in States, r \in Threads, c \in Cells :
        s = own[t].state /\ r = own[t].req /\ c = At(t)
  BY <1>1, HelpFacts
<1>3. /\ pc'[t] = IF Claims(r, s.low) THEN "help_check" ELSE "help_reload"
      /\ own' = own /\ At(t)' = c
  BY <1>1, <1>2, HelpFacts DEF locals, At, Scanning
<1>4. /\ cellVal[c] # Bottom /\ cellEnq[c] = r /\ HelpInv(t) /\ reqState[r] \in States
  BY <1>1, <1>2, HelpFacts
<1>5. /\ own[t].val = reqVal[r]
      /\ reqState[r].pending => reqState[r] = s
  BY <1>1, <1>2, <1>4 DEF HelpInv
<1>6. /\ Keeps(t) /\ SharedStore' /\ DoneInv'
      /\ reqState'[r] = IF Claims(r, s.low) THEN State(FALSE, c) ELSE reqState[r]
  <2>1. OwnKept(t) BY <1>3 DEF OwnKept, FreshPcs, TicketPcs
  <2>2. s.low \in Nat /\ ClaimFor(r, s.low, c) BY <1>1, <1>2 DEF States
  <2>3. pc[t] # "enq_state" /\ pc'[t] # "enq_state" /\ pc'[t] # "idle" BY <1>1, <1>3
  <2>4. ~Ends(t, "put") BY <2>3 DEF Ends
  <2>5. QED BY <1>1, <1>4, <2>1, <2>2, <2>3, <2>4, ClaimKeeps
<1>7. ~Claims(r, s.low) => ~reqState[r].pending
  BY <1>2, <1>4, <1>5 DEF Claims, State, States
<1>8. reqState'[r] = State(FALSE, c) \/ ~Claims(r, s.low) BY <1>6
<1>9. HelpInv(t)'
  <2>1. /\ own'[t].val = reqVal'[own'[t].req] /\ own'[t].req = r
        /\ cellVal'[c] # Bottom /\ cellEnq'[c] = r
    BY <1>1, <1>2, <1>3, <1>4, <1>5
  <2>2. CASE Claims(r, s.low)
    <3>1. reqState'[r] = State(FALSE, At(t))' BY <1>3, <1>6, <2>2 DEF State
    <3>2. QED BY <1>3, <2>1, <2>2, <3>1 DEF HelpInv, ReqPcs
  <2>3. CASE ~Claims(r, s.low)
    <3>1. pc'[t] = "help_reload" /\ ~reqState'[own'[t].req].pending
      BY <1>3, <1>6, <1>7, <2>1, <2>3
    <3>2. QED BY <1>3, <2>1, <3>1 DEF HelpInv, ReqPcs
  <2>4. QED BY <2>2, <2>3
<1>10. pc'[t] \notin EnqPcs BY <1>3 DEF EnqPcs
<1>11. FreshInv(t)' /\ TicketInv(t)' /\ SlowInv(t)' /\ EnqOrderInv(t)'
  BY <1>10 DEF FreshInv, TicketInv, SlowInv, EnqOrderInv, FreshPcs, TicketPcs, EnqPcs
<1>12. QED BY <1>6, <1>9, <1>11 DEF Kept, StoreThread

LEMMA HelpReloadKept == ASSUME NEW t \in Threads, Stepped(t), HelpReload(t) PROVE Kept(t)
<1>1. /\ pc[t] = "help_reload" /\ pc[t] \in HelpPcs /\ pc[t] \in ReqPcs
      /\ UNCHANGED <<cellVal, cellEnq, enqReqs, peers, cid, scan, own>>
      /\ pc' = [pc EXCEPT ![t] = IF reqState[own[t].req] = State(FALSE, At(t))
                                 THEN "help_check" ELSE "help_read"]
  BY DEF HelpReload, HelpPcs, ReqPcs, cells, GoTo, locals
<1>2. PICK r \in Threads : r = own[t].req BY <1>1, HelpFacts
<1>3. /\ pc'[t] = IF reqState[r] = State(FALSE, At(t)) THEN "help_check" ELSE "help_read"
      /\ At(t)' = At(t)
  BY <1>1, <1>2, HelpFacts DEF At, Scanning
<1>4. cellVal[At(t)] # Bottom /\ cellEnq[At(t)] = r /\ HelpInv(t) BY <1>1, <1>2, HelpFacts
<1>5. own[t].val = reqVal[r] /\ ~reqState[r].pending BY <1>1, <1>2, <1>4 DEF HelpInv
<1>6. HelpInv(t)'
  <2>1. CASE reqState[r] = State(FALSE, At(t))
    <3>1. reqState'[r] = State(FALSE, At(t))' BY <1>1, <1>3, <2>1 DEF State, enqReqs
    <3>2. /\ pc'[t] = "help_check" /\ own'[t].req = r /\ own'[t].val = reqVal'[r]
          /\ cellEnq'[At(t)] = r /\ cellVal'[At(t)] # Bottom
      BY <1>1, <1>2, <1>3, <1>4, <1>5, <2>1 DEF enqReqs
    <3>3. QED BY <1>3, <3>1, <3>2 DEF HelpInv, ReqPcs
  <2>2. CASE reqState[r] # State(FALSE, At(t))
    <3>1. Dead(At(t)) BY <1>1, <1>2, <1>5, <2>2, DeadCell
    <3>2. Dead(At(t))' BY <1>1, <1>3, <3>1 DEF Dead, enqReqs
    <3>3. pc'[t] = "help_read" /\ cellVal'[At(t)] # Bottom BY <1>1, <1>3, <1>4, <2>2
    <3>4. QED BY <1>3, <3>2, <3>3 DEF HelpInv, ReqPcs
  <2>3. QED BY <2>1, <2>2
<1>7. pc'[t] \in HelpPcs BY <1>3 DEF HelpPcs, ReqPcs
<1>8. QED BY <1>1, <1>6, <1>7, HelpMove DEF peers

LEMMA HelpCheckKept == ASSUME NEW t \in Threads, Stepped(t), HelpCheck(t) PROVE Kept(t)
<1>1. /\ pc[t] = "help_check" /\ pc[t] \in HelpPcs /\ pc[t] \in ReqPcs
      /\ UNCHANGED <<cellVal, cellEnq, enqReqs, peers, cid, scan, own>>
      /\ pc' = [pc EXCEPT ![t] = IF cellVal[At(t)] = Top THEN "help_cover" ELSE "help_read"]
  BY DEF HelpCheck, HelpPcs, ReqPcs, cells, GoTo, locals
<1>2. PICK r \in Threads : r = own[t].req BY <1>1, HelpFacts
<1>3. /\ pc'[t] = IF cellVal[At(t)] = Top THEN "help_cover" ELSE "help_read"
      /\ At(t)' = At(t)
  BY <1>1, HelpFacts DEF At, Scanning
<1>4. /\ cellVal[At(t)] # Bottom /\ cellEnq[At(t)] = r /\ HelpInv(t)
      /\ cellVal[At(t)] \in {Top, reqVal[r]} /\ reqVal[r] \in Values
  BY <1>1, <1>2, HelpFacts
<1>5. own[t].val = reqVal[r] /\ reqState[r] = State(FALSE, At(t))
  BY <1>1, <1>2, <1>4 DEF HelpInv
<1>6. HelpInv(t)'
  <2>1. reqState'[r] = State(FALSE, At(t))' BY <1>1, <1>3, <1>5 DEF State, enqReqs
  <2>2. cellVal[At(t)] # Top => IsValue(cellVal'[At(t)]) BY <1>1, <1>4, StoreBasics
  <2>3. /\ pc'[t] \in {"help_cover", "help_read"} /\ own'[t].req = r
        /\ own'[t].val = reqVal'[r] /\ cellEnq'[At(t)] = r /\ cellVal'[At(t)] # Bottom
        /\ pc'[t] = "help_read" => IsValue(cellVal'[At(t)])
    BY <1>1, <1>2, <1>3, <1>4, <1>5, <2>2 DEF enqReqs
  <2>4. QED BY <1>3, <2>1, <2>3 DEF HelpInv, ReqPcs, IsValue
<1>7. pc'[t] \in HelpPcs BY <1>3 DEF HelpPcs, ReqPcs
<1>8. QED BY <1>1, <1>6, <1>7, HelpMove DEF peers

LEMMA HelpCoverKept == ASSUME NEW t \in Threads, Stepped(t), HelpCover(t) PROVE Kept(t)
<1>1. /\ pc[t] = "help_cover" /\ pc[t] \in HelpPcs /\ pc[t] \in ReqPcs
      /\ UNCHANGED <<cellVal, cellEnq, enqReqs, peers, cid, scan, own>>
      /\ pc' = [pc EXCEPT ![t] = "help_store"]
  BY DEF HelpCover, HelpPcs, ReqPcs, cells, GoTo, locals
<1>2. PICK r \in Threads : r = own[t].req BY <1>1, HelpFacts
<1>3. pc'[t] = "help_store" /\ At(t)' = At(t) BY <1>1, HelpFacts DEF At, Scanning
<1>4. cellVal[At(t)] # Bottom /\ cellEnq[At(t)] = r /\ HelpInv(t) BY <1>1, <1>2, HelpFacts
<1>5. own[t].val = reqVal[r] /\ reqState[r] = State(FALSE, At(t))
  BY <1>1, <1>2, <1>4 DEF HelpInv
<1>6. HelpInv(t)'
  <2>1. reqState'[r] = State(FALSE, At(t))' BY <1>1, <1>3, <1>5 DEF State, enqReqs
  <2>2. QED BY <1>1, <1>2, <1>3, <1>4, <1>5, <2>1 DEF HelpInv, ReqPcs, enqReqs
<1>7. pc'[t] \in HelpPcs BY <1>3 DEF HelpPcs, ReqPcs
<1>8. QED BY <1>1, <1>6, <1>7, HelpMove DEF peers

LEMMA HelpStoreKept == ASSUME NEW t \in Threads, Stepped(t), HelpStore(t) PROVE Kept(t)
<1>1. /\ pc[t] = "help_store" /\ pc[t] \in HelpPcs /\ pc[t] \in ReqPcs
      /\ UNCHANGED <<cellEnq, enqReqs, peers, cid, scan, own>>
      /\ pc' = [pc EXCEPT ![t] = "help_read"]
      /\ cellVal' = [cellVal EXCEPT ![At(t)] = own[t].val]
  BY DEF HelpStore, HelpPcs, ReqPcs, GoTo, locals
<1>2. PICK r \in Threads, c \in Cells : r = own[t].req /\ c = At(t) BY <1>1, HelpFacts
<1>3. pc'[t] = "help_read" /\ At(t)' = c BY <1>1, <1>2, HelpFacts DEF At, Scanning
<1>4. cellVal[c] # Bottom /\ HelpInv(t) /\ Published(r) BY <1>1, <1>2, HelpFacts
<1>5. own[t].val = reqVal[r] /\ reqState[r] = State(FALSE, c)
  BY <1>1, <1>2, <1>4 DEF HelpInv
<1>6. Settled(r, c) BY <1>4, <1>5 DEF Settled
<1>7. OwnKept(t) BY <1>3 DEF OwnKept, FreshPcs, TicketPcs
<1>8. Keeps(t) /\ SharedStore' /\ cellVal'[c] = reqVal[r] /\ reqVal[r] \in Values
  BY <1>1, <1>2, <1>3, <1>4, <1>5, <1>6, <1>7, CommitKeeps
<1>9. DoneInv' BY <1>3, <1>8, SameDone DEF Ends
<1>10. HelpInv(t)'
  <2>1. IsValue(cellVal'[c]) /\ cellVal'[c] # Bottom BY <1>8, StoreBasics
  <2>2. QED BY <1>3, <2>1 DEF HelpInv, ReqPcs, IsValue
<1>11. pc'[t] \notin EnqPcs BY <1>3 DEF EnqPcs
<1>12. FreshInv(t)' /\ TicketInv(t)' /\ SlowInv(t)' /\ EnqOrderInv(t)'
  BY <1>11 DEF FreshInv, TicketInv, SlowInv, EnqOrderInv, FreshPcs, TicketPcs, EnqPcs
<1>13. QED BY <1>8, <1>9, <1>10, <1>12 DEF Kept, StoreThread

LEMMA HelpEnqStepKept == ASSUME NEW t \in Threads, Stepped(t), HelpEnqStep(t) PROVE Kept(t)
BY HelpTopKept, HelpEnqKept, HelpPeerKept, HelpBindKept, HelpToppKept, HelpEndKept,
   HelpStateKept, HelpValKept, HelpClaimKept, HelpReloadKept, HelpCheckKept, HelpCoverKept,
   HelpStoreKept
   DEF HelpEnqStep

-----------------------------------------------------------------------------
(***************************************************************************)
(* The steps of dequeuers, and every step                                  *)
(***************************************************************************)

\* What a step of a dequeuer, outside help_enq, leaves alone, and where it leads.
DeqOff(t) ==
  /\ UNCHANGED <<cellVal, cellEnq, enqReqs, enqPeer, lastId>>
  /\ pc[t] \in DeqPcs \cup ScanPcs
  /\ pc'[t] \in {"idle", "help_top"} \cup DeqPcs \cup ScanPcs
  /\ pc'[t] = "idle" => call'[t].kind \in {"got", "empty"}

LEMMA ReturnPc ==
  ASSUME Parts, NEW t \in Threads, NEW kind, NEW v, Return(t, kind, v)
  PROVE  pc'[t] = "idle" /\ call'[t].kind = kind /\ call'[t].val = v
BY DEF Parts, LocalsTyped, Return, GoTo

LEMMA GoToPc ==
  ASSUME Parts, NEW t \in Threads, NEW p, GoTo(t, p)
  PROVE  pc'[t] = p
BY DEF Parts, LocalsTyped, GoTo

LEMMA DeqFailsPc ==
  ASSUME Parts, NEW t \in Threads, DeqFails(t)
  PROVE  pc'[t] \in {"bfs_t", "slow_id", "deq_faa"}
BY GoToPc DEF DeqFails

LEMMA DeqGotPc ==
  ASSUME Parts, NEW t \in Threads, NEW v, DeqGot(t, v)
  PROVE  /\ pc'[t] \in {"idle", "scan_start"}
         /\ pc'[t] = "idle" => call'[t].kind = "got"
BY GoToPc, ReturnPc DEF DeqGot

LEMMA ScanReturnPc ==
  ASSUME Parts, NEW t \in Threads, ScanReturn(t)
  PROVE  /\ pc'[t] \in {"idle", "slow_result"}
         /\ pc'[t] = "idle" => call'[t].kind = "got"
BY GoToPc, ReturnPc DEF ScanReturn

LEMMA DeqStepOff == ASSUME Parts, NEW t \in Threads, DeqStep(t) PROVE DeqOff(t)
<1> USE DEF DeqOff, DeqPcs, ScanPcs, AskPcs
<1>1. CASE DeqTicket(t) BY <1>1, GoToPc, ReturnPc DEF DeqTicket, cells, peers
<1>2. CASE DeqTake(t) BY <1>2, DeqGotPc, DeqFailsPc DEF DeqTake, peers
<1>3. CASE BfsLoadT(t) BY <1>3, GoToPc DEF BfsLoadT, cells, peers
<1>4. CASE BfsLoadH(t) BY <1>4, GoToPc, ReturnPc DEF BfsLoadH, cells, peers
<1>5. CASE SlowPublishId(t) BY <1>5, GoToPc DEF SlowPublishId, cells, peers
<1>6. CASE SlowPublishState(t) BY <1>6, GoToPc DEF SlowPublishState, cells, peers
<1>7. CASE SlowResult(t) BY <1>7, GoToPc DEF SlowResult, cells, peers
<1>8. CASE SlowVal(t) BY <1>8, GoToPc DEF SlowVal, cells, peers
<1>9. CASE SlowCover(t) BY <1>9, DeqGotPc, ReturnPc DEF SlowCover, cells, peers
<1>10. CASE ScanStart(t) BY <1>10, GoToPc DEF ScanStart, cells, peers
<1>11. CASE ScanFirstId(t) BY <1>11, GoToPc, ScanReturnPc DEF ScanFirstId, cells
<1>12. CASE ScanState(t) BY <1>12, GoToPc, ScanReturnPc DEF ScanState, ScanReload, cells
<1>13. CASE ScanId(t) BY <1>13, GoToPc, ScanReturnPc DEF ScanId, ScanSame, cells
<1>14. CASE ScanCell(t) BY <1>14, GoToPc DEF ScanCell, cells, peers
<1>15. CASE ScanSeen(t) BY <1>15, GoToPc DEF ScanSeen, cells, peers
<1>16. CASE ScanAnnounce(t) BY <1>16, GoToPc DEF ScanAnnounce, cells, peers
<1>17. CASE SettleState(t) BY <1>17, GoToPc, ScanReturnPc DEF SettleState, ScanReload, cells
<1>18. CASE SettleId(t) BY <1>18, GoToPc, ScanReturnPc DEF SettleId, ScanSame, cells
<1>19. CASE SettleDeq(t) BY <1>19, GoToPc DEF SettleDeq, cells, peers
<1>20. CASE SettleVal(t) BY <1>20, GoToPc DEF SettleVal, cells, peers
<1>21. CASE SettleTake(t) BY <1>21, GoToPc DEF SettleTake, peers
<1>22. CASE SettleClose(t) BY <1>22, ScanReturnPc DEF SettleClose, cells
<1>23. QED
  BY <1>1, <1>2, <1>3, <1>4, <1>5, <1>6, <1>7, <1>8, <1>9, <1>10, <1>11, <1>12, <1>13,
     <1>14, <1>15, <1>16, <1>17, <1>18, <1>19, <1>20, <1>21, <1>22
     DEF DeqStep

LEMMA DeqStepKept == ASSUME NEW t \in Threads, Stepped(t), DeqStep(t) PROVE Kept(t)
<1>1. DeqOff(t) BY DeqStepOff DEF Stepped
<1>2. UNCHANGED <<cellVal, cellEnq, enqReqs, enqPeer>> BY <1>1 DEF DeqOff
<1>3. pc[t] # "enq_state" /\ pc'[t] \notin EnqPcs /\ pc'[t] \notin HelpPcs \ {"help_top"}
  BY <1>1 DEF DeqOff, DeqPcs, ScanPcs, AskPcs, EnqPcs, HelpPcs, ReqPcs
<1>4. ~Ends(t, "put") BY <1>1 DEF DeqOff, Ends
<1>5. QED BY <1>2, <1>3, <1>4, OffStep

LEMMA InsideKept ==
  ASSUME NEW t \in Threads, Stepped(t), WfStep(t), pc[t] = "enq_val" => reqVal[t] = Bottom
  PROVE  Kept(t)
<1>1. CASE EnqSlowStep(t)
  <2>1. EnqPublishVal(t) => reqVal[t] = Bottom BY DEF EnqPublishVal
  <2>2. QED
    BY <1>1, <2>1, EnqPublishValKept, EnqPublishStateKept, EnqSlowTicketKept, EnqBindKept,
       EnqPeekKept, EnqClaimKept, EnqPendingKept, EnqFinalKept, EnqDestKept, EnqCoverKept,
       EnqStoreKept
       DEF EnqSlowStep
<1>2. QED BY <1>1, EnqTicketKept, EnqPutKept, HelpEnqStepKept, DeqStepKept DEF WfStep

\* Every step keeps Store as long as T has not left the pool.
LEMMA StoreStep ==
  ASSUME ~ReuseRequests, Parts, Parts', StoreInv, NEW t \in Threads,
         CallEnq(t) \/ CallDeq(t) \/ Inside(t)
  PROVE  StoreInv'
<1> SUFFICES ASSUME InPool' PROVE Store' BY DEF StoreInv
<1>0. T \in Nat /\ H \in Nat /\ T' \in Nat BY DEF Parts, SharedInv, SharedTyped
<1>1. CASE CallEnq(t)
  <2>1. Store BY <1>1 DEF StoreInv, InPool, CallEnq, EnqStart
  <2>2. QED BY <1>1, <2>1, CallEnqKept
<1>2. CASE CallDeq(t)
  <2>1. Store BY <1>2 DEF StoreInv, InPool, CallDeq, DeqStart
  <2>2. QED BY <1>2, <2>1, CallDeqKept
<1>3. CASE Inside(t)
  <2>1. EndsGrow /\ LocalGood(t) BY <1>3, InsideKeeps
  <2>2. Store BY <1>0, <2>1, CellsAssumption DEF StoreInv, InPool, EndsGrow
  <2>3. Stepped(t) BY <1>3, <2>1, <2>2 DEF Stepped, LocalGood, Inside
  <2>4. WfStep(t) /\ (pc[t] = "enq_val" => reqVal[t] = Bottom)
    BY <1>3 DEF Inside, MayStep
  <2>5. QED BY <2>3, <2>4, InsideKept, KeptStore
<1>4. QED BY <1>1, <1>2, <1>3

LEMMA StoreInit == ASSUME Init PROVE Store
<1>0. Passed \in Nat /\ Passed <= MaxEnqs /\ Passed <= NumCells /\ MaxEnqs \in Nat
  BY UseAssumption
<1>1. /\ T = Passed /\ sent = Passed /\ done = 1 .. Passed
      /\ cellVal = [c \in Cells |-> IF c < Passed THEN c + 1 ELSE Bottom]
      /\ cellEnq = [c \in Cells |-> Null]
      /\ reqVal = [t \in Threads |-> Bottom]
      /\ reqState = [t \in Threads |-> State(FALSE, 0)]
      /\ pc = [t \in Threads |-> "idle"]
      /\ older = [v \in Values |-> {}]
  BY DEF Init, WfInit
<1>2. \A v \in Values, n \in Nat : Behind(v, n) BY <1>1 DEF Behind
<1>3. \A c \in Cells : cellEnq[c] \notin Threads /\ cellEnq[c] # Topp /\ cellEnq[c] = Null
  BY <1>1, Basics
<1>4. \A r \in Threads : reqVal[r] = Bottom /\ ~reqState[r].pending /\ ~Published(r)
  BY <1>1 DEF State, Published
<1>5. RequestsInv
  <2>1. \A r \in Threads : reqVal[r] <= sent BY <1>0, <1>1, <1>4 DEF Bottom
  <2>2. QED BY <1>4, <2>1 DEF RequestsInv
<1>6. \A c \in Cells : c \in Nat /\ cellVal[c] <= sent
  BY <1>0, <1>1, Basics DEF Bottom
<1>7. \A c \in Cells, r \in Threads : IsValue(cellVal[c]) => cellVal[c] # reqVal[r]
  BY <1>4 DEF IsValue, Bottom
<1>8. CellsInv BY <1>2, <1>3, <1>6, <1>7 DEF CellsInv
<1>9. OneEach BY <1>0, <1>1, Basics DEF OneEach, IsValue, Bottom
<1>10. DoneInv
  <2>1. ASSUME NEW v \in 1 .. Passed PROVE v \in Values /\ \E c \in Cells : c < T /\ Holds(c, v)
    <3>1. v - 1 \in Cells /\ v - 1 < Passed /\ v \in Values
      BY <1>0, <2>1, CellsAssumption DEF Cells, Values
    <3>2. cellVal[v - 1] = v BY <1>1, <3>1
    <3>3. QED BY <1>1, <3>1, <3>2 DEF Holds
  <2>2. QED BY <1>1, <2>1 DEF DoneInv
<1>11. \A t \in Threads : StoreThread(t)
  BY <1>1 DEF StoreThread, FreshInv, TicketInv, SlowInv, EnqOrderInv, HelpInv, FreshPcs,
     TicketPcs, EnqPcs, HelpPcs, ReqPcs
<1>12. QED BY <1>5, <1>8, <1>9, <1>10, <1>11 DEF Store

-----------------------------------------------------------------------------
(***************************************************************************)
(* Where steps lead                                                        *)
(***************************************************************************)

\* A step of an enqueuer.
EnqOff(t) ==
  /\ UNCHANGED <<H, cellDeq, deqReqs, deqPeer>> /\ pc[t] \in EnqPcs
  /\ \/ pc'[t] \in EnqPcs /\ UNCHANGED scan
     \/ \E kind \in {"put", "dropped"} : Return(t, kind, call[t].val)

LEMMA EnqFailsPc ==
  ASSUME Parts, NEW t \in Threads, EnqFails(t)
  PROVE  pc'[t] \in {"enq_val", "enq_faa"}
BY GoToPc DEF EnqFails

LEMMA EnqStepOff ==
  ASSUME Parts, NEW t \in Threads, EnqTicket(t) \/ EnqPut(t) \/ EnqSlowStep(t)
  PROVE  EnqOff(t)
<1> USE DEF EnqOff, EnqPcs
<1>1. CASE EnqTicket(t) BY <1>1, GoToPc, EnqFailsPc DEF EnqTicket, cells, peers
<1>2. CASE EnqPut(t) BY <1>2, EnqFailsPc DEF EnqPut, peers
<1>3. CASE EnqPublishVal(t) BY <1>3, GoToPc DEF EnqPublishVal, cells, peers, locals
<1>4. CASE EnqPublishState(t) BY <1>4, GoToPc DEF EnqPublishState, cells, peers
<1>5. CASE EnqSlowTicket(t) BY <1>5, GoToPc DEF EnqSlowTicket, cells, peers
<1>6. CASE EnqBind(t) BY <1>6, GoToPc DEF EnqBind, peers, locals
<1>7. CASE EnqPeek(t) BY <1>7, GoToPc DEF EnqPeek, cells, peers, locals
<1>8. CASE EnqClaim(t) BY <1>8, GoToPc DEF EnqClaim, cells, peers, locals
<1>9. CASE EnqPending(t) BY <1>9, GoToPc DEF EnqPending, cells, peers, locals
<1>10. CASE EnqFinal(t) BY <1>10, GoToPc DEF EnqFinal, cells, peers
<1>11. CASE EnqDest(t) BY <1>11, GoToPc DEF EnqDest, cells, peers, locals
<1>12. CASE EnqCover(t) BY <1>12, GoToPc DEF EnqCover, cells, peers, locals
<1>13. CASE EnqStore(t) BY <1>13 DEF EnqStore, peers
<1>14. QED
  BY <1>1, <1>2, <1>3, <1>4, <1>5, <1>6, <1>7, <1>8, <1>9, <1>10, <1>11, <1>12, <1>13
     DEF EnqSlowStep

\* A step of help_enq: it goes on, or returns v.
HelpGives(t, v) ==
  \/ pc[t] = "help_end" /\ v \in {Empty, Retry}
  \/ v = cellVal[At(t)] /\ (pc[t] = "help_read" \/ IsValue(v))

HelpOff(t) ==
  /\ UNCHANGED <<H, cellDeq, deqReqs, deqPeer>> /\ pc[t] \in HelpPcs
  /\ \/ pc'[t] \in HelpPcs /\ UNCHANGED <<call, cid, scan>>
     \/ \E v : Helped(t, v) /\ HelpGives(t, v)

LEMMA HelpWithPc ==
  ASSUME Parts, NEW t \in Threads, NEW r, HelpWith(t, r)
  PROVE  pc'[t] \in {"help_end", "help_state"}
BY GoToPc DEF HelpWith

LEMMA HelpEnqStepOff == ASSUME Parts, NEW t \in Threads, HelpEnqStep(t) PROVE HelpOff(t)
<1> USE DEF HelpOff, HelpPcs, ReqPcs
<1>1. CASE HelpTop(t) BY <1>1, GoToPc DEF HelpTop, peers, locals, HelpGives
<1>2. CASE HelpEnq(t) BY <1>2, GoToPc, HelpWithPc DEF HelpEnq, cells, peers
<1>3. CASE HelpPeer(t) BY <1>3, GoToPc DEF HelpPeer, cells
<1>4. CASE HelpBind(t) BY <1>4, HelpWithPc DEF HelpBind
<1>5. CASE HelpTopp(t) BY <1>5, HelpWithPc DEF HelpTopp, peers
<1>6. CASE HelpEnd(t) BY <1>6 DEF HelpEnd, cells, peers, HelpGives
<1>7. CASE HelpState(t) BY <1>7, GoToPc DEF HelpState, cells, peers
<1>8. CASE HelpVal(t)
  <2>1. \E p \in {"help_claim", "help_check", "help_end"} : GoTo(t, p)
    BY <1>8 DEF HelpVal
  <2>2. QED BY <1>8, <2>1, GoToPc DEF HelpVal, cells, peers
<1>9. CASE HelpClaim(t) BY <1>9, GoToPc DEF HelpClaim, cells, peers, locals
<1>10. CASE HelpReload(t) BY <1>10, GoToPc DEF HelpReload, cells, peers, locals
<1>11. CASE HelpCheck(t) BY <1>11, GoToPc DEF HelpCheck, cells, peers, locals
<1>12. CASE HelpCover(t) BY <1>12, GoToPc DEF HelpCover, cells, peers, locals
<1>13. CASE HelpStore(t) BY <1>13, GoToPc DEF HelpStore, peers, locals
<1>14. CASE HelpRead(t) BY <1>14 DEF HelpRead, cells, peers, HelpGives
<1>15. QED
  BY <1>1, <1>2, <1>3, <1>4, <1>5, <1>6, <1>7, <1>8, <1>9, <1>10, <1>11, <1>12, <1>13,
     <1>14
     DEF HelpEnqStep

-----------------------------------------------------------------------------
(***************************************************************************)
(* Requests of dequeuers                                                   *)
(***************************************************************************)

\* What the lemmas below may use of a step of t.
Asks(t) == Parts /\ Parts' /\ AskedInv /\ EndsGrow /\ Others(t)

\* A step that writes no request.
LEMMA AskedFrame ==
  ASSUME NEW t \in Threads, Asks(t), UNCHANGED deqReqs, pc[t] # "slow_state", AskedThread(t)'
  PROVE  AskedInv'
<1>1. H' >= Passed
  BY UseAssumption DEF Asks, AskedInv, EndsGrow, Parts, SharedInv, SharedTyped
<1>2. UNCHANGED <<deqId, deqState>> BY DEF deqReqs
<1>3. ASSUME NEW r \in Threads
      PROVE  /\ deqId'[r] = 0 => deqState'[r] = State(FALSE, 0)
             /\ deqState'[r].pending => deqState'[r].low > 0
             /\ deqId'[r] # 0 /\ deqState'[r] = State(FALSE, 0) => pc'[r] = "slow_state"
  BY <1>2 DEF Asks, AskedInv, Others
<1>4. ASSUME NEW u \in Threads \ {t} PROVE AskedThread(u)'
  <2>1. AskedThread(u) BY DEF Asks, AskedInv
  <2>2. pc'[u] = pc[u] /\ call'[u] = call[u] /\ cid'[u] = cid[u] /\ scan'[u] = scan[u]
    BY DEF Asks, Others
  <2>3. QED BY <1>2, <2>1, <2>2 DEF AskedThread, Scanning
<1>5. QED BY <1>1, <1>3, <1>4 DEF AskedInv

LEMMA ReturnThread ==
  ASSUME NEW t \in Threads, Asks(t),
         NEW kind \in {"put", "dropped", "empty", "got"}, NEW v, Return(t, kind, v)
  PROVE  AskedThread(t)'
<1>1. pc'[t] = "idle" /\ call'[t].kind = kind BY ReturnPc DEF Asks
<1>2. scan'[t] = NoScan BY DEF Return, Asks, Parts, LocalsTyped
<1>3. ~Scanning(t)' /\ ~scan'[t].state.pending BY <1>2, ScanFacts DEF Scanning
<1>4. QED BY <1>1, <1>3 DEF AskedThread, HelpPcs, ReqPcs

LEMMA ReturnAsked ==
  ASSUME NEW t \in Threads, Asks(t), UNCHANGED deqReqs, pc[t] # "slow_state",
         NEW kind \in {"put", "dropped", "empty", "got"}, NEW v, Return(t, kind, v)
  PROVE  AskedInv'
BY ReturnThread, AskedFrame

LEMMA EnqAsked ==
  ASSUME NEW t \in Threads, Asks(t), EnqOff(t)
  PROVE  AskedInv'
<1>1. pc[t] # "slow_state" BY DEF EnqOff, EnqPcs
<1>2. CASE pc'[t] \in EnqPcs /\ UNCHANGED scan
  <2>1. CallInv(t)' BY DEF Asks, Parts, ThreadInv
  <2>2. call'[t].kind = "enq" /\ ~Scanning(t)' BY <1>2, <2>1 DEF CallInv
  <2>3. AskedThread(t) BY DEF Asks, AskedInv
  <2>4. AskedThread(t)'
    BY <1>2, <2>2, <2>3 DEF AskedThread, EnqPcs, HelpPcs, ReqPcs
  <2>5. QED BY <1>1, <2>4, AskedFrame DEF EnqOff
<1>3. CASE \E kind \in {"put", "dropped"} : Return(t, kind, call[t].val)
  BY <1>1, <1>3, ReturnAsked DEF EnqOff
<1>4. QED BY <1>2, <1>3 DEF EnqOff

\* What is known of a dequeuer's call.
LEMMA AskFacts ==
  ASSUME NEW t \in Threads, Asks(t)
  PROVE  /\ Known(t) /\ AskedThread(t) /\ Passed \in Nat /\ H \in Nat /\ H' \in Nat /\ H >= Passed
         /\ pc[t] \in DeqPcs => ~Scanning(t)
         /\ pc[t] \in ScanPcs => Scanning(t)
         /\ pc[t] \in DeqPcs \cup HelpPcs \cup ScanPcs => call[t].kind \in {"deq", "deq_bfs"}
         /\ Scanning(t) => \/ call[t].val \in Values /\ call[t].val # Bottom
                           \/ scan[t].helpee = t /\ call[t].val = Bottom
<1>1. Known(t) BY LocalFacts DEF Asks
<1>2. QED
  BY <1>1, UseAssumption, StoreBasics
     DEF Known, CallInv, Asks, AskedInv, EndsGrow, SharedTyped

\* A failed try of a dequeuer.
LEMMA DeqFailsAsked ==
  ASSUME NEW t \in Threads, Asks(t), UNCHANGED <<deqReqs, cid, scan>>,
         pc[t] \in HelpPcs \cup {"deq_take"}, ~Scanning(t), DeqFails(t)
  PROVE  AskedInv'
<1>1. /\ pc'[t] \in {"bfs_t", "slow_id", "deq_faa"}
      /\ pc'[t] = "slow_id" => call[t].kind = "deq"
  <2>1. pc \in [Threads -> Pcs] BY DEF Asks, Parts, LocalsTyped
  <2>2. QED BY <2>1 DEF DeqFails, GoTo
<1>2. call'[t].kind = call[t].kind
  <2> DEFINE c == [call[t] EXCEPT !.tries = @ - 1]
  <2>1. call \in [Threads -> CallRecs] /\ call[t] \in CallRecs BY DEF Asks, Parts, LocalsTyped
  <2>2. c.kind = call[t].kind BY <2>1 DEF CallRecs
  <2>3. call' = call \/ call' = [call EXCEPT ![t] = c] BY DEF DeqFails
  <2> HIDE DEF c
  <2>4. QED BY <2>1, <2>2, <2>3
<1>3. AskedThread(t) BY AskFacts
<1>4. ~Scanning(t)' BY DEF Scanning
<1>5. AskedThread(t)' BY <1>1, <1>2, <1>3, <1>4 DEF AskedThread, HelpPcs, ReqPcs
<1>6. pc[t] # "slow_state" BY DEF HelpPcs, ReqPcs
<1>7. QED BY <1>5, <1>6, AskedFrame

LEMMA HelpAsked ==
  ASSUME NEW t \in Threads, Asks(t), HelpOff(t)
  PROVE  AskedInv'
<1>1. pc[t] \in HelpPcs /\ pc[t] # "slow_state" /\ UNCHANGED deqReqs
  BY DEF HelpOff, HelpPcs, ReqPcs
<1>2. AskedThread(t) BY AskFacts
<1>3. CASE pc'[t] \in HelpPcs /\ UNCHANGED <<call, cid, scan>>
  <2>1. AskedThread(t)' BY <1>1, <1>2, <1>3 DEF AskedThread, Scanning, HelpPcs, ReqPcs, deqReqs
  <2>2. QED BY <1>1, <2>1, AskedFrame
<1>4. ASSUME NEW v, Helped(t, v) PROVE AskedInv'
  <2>1. CASE Scanning(t)
    <3>1. HelpedScan(t, v) BY <1>4, <2>1 DEF Helped
    <3>2. pc'[t] \in {"scan_announce", "scan_seen", "scan_state"}
      <4>1. \E p \in {"scan_announce", "scan_seen", "scan_state"} : GoTo(t, p)
        BY <3>1 DEF HelpedScan
      <4>2. QED BY <4>1, GoToPc DEF Asks
    <3>3. UNCHANGED <<call, cid, scan>> BY <3>1 DEF HelpedScan
    <3>4. AskedThread(t)'
      BY <1>1, <1>2, <2>1, <3>2, <3>3 DEF AskedThread, Scanning, HelpPcs, ReqPcs, deqReqs
    <3>5. QED BY <1>1, <3>4, AskedFrame
  <2>2. CASE ~Scanning(t)
    <3>1. HelpedFast(t, v) BY <1>4, <2>2 DEF Helped
    <3>2. CASE v = Empty
      <4>1. Return(t, "empty", Bottom) BY <3>1, <3>2 DEF HelpedFast, Empty, IsValue
      <4>2. QED BY <1>1, <4>1, ReturnAsked
    <3>3. CASE v # Empty /\ IsValue(v)
      <4>1. /\ GoTo(t, "deq_take") /\ call' = [call EXCEPT ![t].val = v]
            /\ UNCHANGED <<cid, scan>>
        BY <3>1, <3>3 DEF HelpedFast
      <4>2. pc'[t] = "deq_take" BY <4>1, GoToPc DEF Asks
      <4>3. call'[t].kind = call[t].kind
        <5> DEFINE c == [call[t] EXCEPT !.val = v]
        <5>1. call \in [Threads -> CallRecs] /\ call[t] \in CallRecs BY DEF Asks, Parts, LocalsTyped
        <5>2. c.kind = call[t].kind BY <5>1 DEF CallRecs
        <5>3. call' = [call EXCEPT ![t] = c] BY <4>1
        <5> HIDE DEF c
        <5>4. QED BY <5>1, <5>2, <5>3
      <4>4. AskedThread(t)'
        BY <1>1, <1>2, <2>2, <4>1, <4>2, <4>3 DEF AskedThread, Scanning, HelpPcs, ReqPcs
      <4>5. QED BY <1>1, <4>4, AskedFrame
    <3>4. CASE v # Empty /\ ~IsValue(v)
      <4>1. DeqFails(t) /\ UNCHANGED <<cid, scan>> BY <3>1, <3>4 DEF HelpedFast
      <4>2. QED BY <1>1, <2>2, <4>1, DeqFailsAsked
    <3>5. QED BY <3>2, <3>3, <3>4
  <2>3. QED BY <2>1, <2>2
<1>5. QED BY <1>3, <1>4 DEF HelpOff

\* A thread that has got a value.
LEMMA DeqGotAsked ==
  ASSUME NEW t \in Threads, Asks(t), UNCHANGED deqReqs, pc[t] # "slow_state",
         call[t].kind \in {"deq", "deq_bfs"}, AskedThread(t),
         NEW v \in Values, DeqGot(t, v)
  PROVE  AskedInv'
<1>1. CASE call[t].kind = "deq_bfs"
  <2>1. Return(t, "got", v) BY <1>1 DEF DeqGot
  <2>2. QED BY <2>1, ReturnAsked
<1>2. CASE call[t].kind # "deq_bfs"
  <2> DEFINE c == [call[t] EXCEPT !.val = v]
             s == [NoScan EXCEPT !.helpee = deqPeer[t]]
  <2>1. GoTo(t, "scan_start") /\ call' = [call EXCEPT ![t] = c] /\ scan' = [scan EXCEPT ![t] = s]
    BY <1>2 DEF DeqGot
  <2>2. call \in [Threads -> CallRecs] /\ call[t] \in CallRecs /\ scan \in [Threads -> ScanRecs]
        /\ deqPeer[t] \in Threads
    BY DEF Asks, Parts, LocalsTyped, SharedInv, SharedTyped
  <2>3. c.kind = call[t].kind /\ c.val = v BY <2>2 DEF CallRecs
  <2>4. ~s.state.pending BY <2>2, ScanFacts
  <2> HIDE DEF c, s
  <2>5. pc'[t] = "scan_start" BY <2>1, GoToPc DEF Asks
  <2>6. call'[t].kind = call[t].kind /\ call'[t].val # Bottom /\ ~scan'[t].state.pending
    BY <2>1, <2>2, <2>3, <2>4, StoreBasics
  <2>7. AskedThread(t)' BY <2>5, <2>6 DEF AskedThread, HelpPcs, ReqPcs
  <2>8. QED BY <2>7, AskedFrame
<1>3. QED BY <1>1, <1>2

\* help_deq returns.
LEMMA ScanReturnThread ==
  ASSUME NEW t \in Threads, Asks(t), UNCHANGED deqId, pc[t] \in ScanPcs, ScanReturn(t)
  PROVE  AskedThread(t)'
<1>1. AskedThread(t) /\ Scanning(t) BY AskFacts
<1>2. CASE scan[t].helpee = t /\ call[t].val = Bottom
  <2>1. GoTo(t, "slow_result") /\ UNCHANGED call /\ scan' = [scan EXCEPT ![t] = NoScan]
    BY <1>2 DEF ScanReturn
  <2>2. pc'[t] = "slow_result" /\ scan'[t] = NoScan
    BY <2>1, GoToPc DEF Asks, Parts, LocalsTyped
  <2>3. ~Scanning(t)' /\ ~scan'[t].state.pending BY <2>2, ScanFacts DEF Scanning
  <2>4. deqId'[t] # 0 BY <1>1, <1>2 DEF AskedThread
  <2>5. QED BY <1>1, <2>1, <2>2, <2>3, <2>4 DEF AskedThread, HelpPcs, ReqPcs
<1>3. CASE ~(scan[t].helpee = t /\ call[t].val = Bottom)
  <2>1. Return(t, "got", call[t].val) BY <1>3 DEF ScanReturn
  <2>2. QED BY <2>1, ReturnThread
<1>4. QED BY <1>2, <1>3

LEMMA ScanReturnAsked ==
  ASSUME NEW t \in Threads, Asks(t), UNCHANGED deqReqs, pc[t] \in ScanPcs, ScanReturn(t)
  PROVE  AskedInv'
<1>1. pc[t] # "slow_state" BY DEF ScanPcs, AskPcs
<1>2. AskedThread(t)' BY ScanReturnThread DEF deqReqs
<1>3. QED BY <1>1, <1>2, AskedFrame

\* A step inside help_deq that writes no request.
LEMMA ScanMove ==
  ASSUME NEW t \in Threads, Asks(t), UNCHANGED <<deqReqs, call>>, pc[t] \in ScanPcs,
         pc'[t] \in (ScanPcs \cup {"help_top"}) \ {"scan_seen"},
         scan'[t].helpee = scan[t].helpee,
         pc'[t] = "scan_announce" => pc[t] = "scan_seen" /\ scan'[t].i = scan[t].i,
         pc'[t] = "help_top" => scan'[t].i > 0,
         scan'[t].state.pending =>
           \/ scan'[t].state = scan[t].state
           \/ \E r \in Threads : scan'[t].state = deqState[r]
  PROVE  AskedInv'
<1>1. pc[t] # "slow_state" BY DEF ScanPcs, AskPcs
<1>2. AskedThread(t) /\ Scanning(t) BY AskFacts
<1>3. scan'[t].state.pending => scan'[t].state.low > 0
  BY <1>2 DEF AskedThread, Asks, AskedInv
<1>4. Scanning(t)' BY <1>2 DEF Scanning
<1>5. pc'[t] \in HelpPcs \cup {"scan_seen", "scan_announce"} => scan'[t].i > 0
  BY <1>2 DEF AskedThread, HelpPcs, ReqPcs, ScanPcs, AskPcs
<1>6. AskedThread(t)'
  BY <1>2, <1>3, <1>4, <1>5 DEF AskedThread, ScanPcs, AskPcs, deqReqs
<1>7. QED BY <1>1, <1>6, AskedFrame

LEMMA DeqTicketAsked == ASSUME NEW t \in Threads, Asks(t), DeqTicket(t) PROVE AskedInv'
<1>1. pc[t] = "deq_faa" /\ UNCHANGED deqReqs BY DEF DeqTicket
<1>2. CASE H \in Cells
  <2>1. cid' = [cid EXCEPT ![t] = H] /\ GoTo(t, "help_top") /\ UNCHANGED <<call, scan>>
    BY <1>2 DEF DeqTicket
  <2>2. pc'[t] = "help_top" BY <2>1, GoToPc DEF Asks
  <2>3. cid'[t] = H BY <2>1 DEF Asks, Parts, LocalsTyped
  <2>4. AskedThread(t) /\ ~Scanning(t) /\ H >= Passed BY <1>1, AskFacts DEF DeqPcs
  <2>5. ~Scanning(t)' BY <2>1, <2>4 DEF Scanning
  <2>6. AskedThread(t)'
    BY <2>1, <2>2, <2>3, <2>4, <2>5 DEF AskedThread, HelpPcs, ReqPcs
  <2>7. QED BY <1>1, <2>6, AskedFrame
<1>3. CASE H \notin Cells
  <2>1. Return(t, "empty", Bottom) BY <1>3 DEF DeqTicket
  <2>2. QED BY <1>1, <2>1, ReturnAsked
<1>4. QED BY <1>2, <1>3

LEMMA DeqTakeAsked == ASSUME NEW t \in Threads, Asks(t), DeqTake(t) PROVE AskedInv'
<1>1. pc[t] = "deq_take" /\ pc[t] \in DeqPcs /\ UNCHANGED deqReqs BY DEF DeqTake, DeqPcs
<1>2. /\ AskedThread(t) /\ ~Scanning(t) /\ call[t].kind \in {"deq", "deq_bfs"}
      /\ call[t].val \in Values
  BY <1>1, AskFacts DEF Known, CallInv
<1>3. CASE DeqGot(t, call[t].val) BY <1>1, <1>2, <1>3, DeqGotAsked
<1>4. CASE DeqFails(t) /\ UNCHANGED <<cid, scan>> BY <1>1, <1>2, <1>4, DeqFailsAsked
<1>5. QED BY <1>3, <1>4 DEF DeqTake

LEMMA BfsAsked == ASSUME NEW t \in Threads, Asks(t), BfsLoadT(t) \/ BfsLoadH(t) PROVE AskedInv'
<1>1. pc[t] \in {"bfs_t", "bfs_h"} /\ pc[t] \in DeqPcs /\ UNCHANGED deqReqs
  BY DEF BfsLoadT, BfsLoadH, DeqPcs
<1>2. AskedThread(t) /\ ~Scanning(t) BY <1>1, AskFacts
<1>3. CASE Return(t, "empty", Bottom) BY <1>1, <1>3, ReturnAsked
<1>4. CASE ~Return(t, "empty", Bottom)
  <2> DEFINE c == [call[t] EXCEPT !.val = T]
             d == [[call[t] EXCEPT !.tries = call[t].tries - 1] EXCEPT !.val = Bottom]
  <2>1. call \in [Threads -> CallRecs] /\ call[t] \in CallRecs BY DEF Asks, Parts, LocalsTyped
  <2>2. c.kind = call[t].kind /\ d.kind = call[t].kind BY <2>1 DEF CallRecs
  <2>3. \/ GoTo(t, "bfs_h") /\ call' = [call EXCEPT ![t] = c]
        \/ GoTo(t, "deq_faa") /\ call' = [call EXCEPT ![t] = d]
    BY <1>4 DEF BfsLoadT, BfsLoadH
  <2>4. UNCHANGED scan BY <1>4 DEF BfsLoadT, BfsLoadH
  <2> HIDE DEF c, d
  <2>5. pc'[t] \in {"bfs_h", "deq_faa"} BY <2>3, GoToPc DEF Asks
  <2>6. call'[t].kind = call[t].kind BY <2>1, <2>2, <2>3
  <2>7. ~Scanning(t)' BY <1>2, <2>4 DEF Scanning
  <2>8. AskedThread(t)'
    BY <1>2, <2>4, <2>5, <2>6, <2>7 DEF AskedThread, HelpPcs, ReqPcs
  <2>9. pc[t] # "slow_state" BY <1>1
  <2>10. QED BY <1>1, <2>8, <2>9, AskedFrame
<1>5. QED BY <1>3, <1>4

LEMMA SlowPublishIdAsked ==
  ASSUME AskAssumption, NEW t \in Threads, Asks(t), SlowPublishId(t)
  PROVE  AskedInv' /\ ~NoneAsked'
<1>1. /\ pc[t] = "slow_id" /\ pc[t] \in DeqPcs /\ deqId' = [deqId EXCEPT ![t] = cid[t]]
      /\ UNCHANGED <<deqState, call, cid, scan>> /\ GoTo(t, "slow_state")
  BY DEF SlowPublishId, locals, DeqPcs
<1>2. AskedThread(t) /\ ~Scanning(t) /\ Passed \in Nat /\ H \in Nat /\ H' \in Nat BY <1>1, AskFacts
<1>3. cid[t] >= Passed /\ cid[t] \in Nat /\ call[t].kind = "deq" /\ "deq" \in Kinds
  BY <1>1, <1>2, AskFacts DEF AskedThread, Known
<1>4. cid[t] # 0 BY <1>2, <1>3 DEF AskAssumption
<1>5. pc'[t] = "slow_state" BY <1>1, GoToPc DEF Asks
<1>6. deqId'[t] = cid[t] /\ \A u \in Threads \ {t} : deqId'[u] = deqId[u]
  BY <1>1 DEF Asks, Parts, SharedInv, SharedTyped
<1>7. H' >= Passed BY <1>2 DEF Asks, AskedInv, EndsGrow
<1>8. \A u \in Threads \ {t} : /\ pc'[u] = pc[u] /\ call'[u] = call[u] /\ cid'[u] = cid[u]
                              /\ scan'[u] = scan[u]
  BY DEF Asks, Others
<1>9. ASSUME NEW r \in Threads
      PROVE  /\ deqId'[r] = 0 => deqState'[r] = State(FALSE, 0)
             /\ deqState'[r].pending => deqState'[r].low > 0
             /\ deqId'[r] # 0 /\ deqState'[r] = State(FALSE, 0) => pc'[r] = "slow_state"
  BY <1>1, <1>4, <1>5, <1>6, <1>8 DEF Asks, AskedInv
<1>10. AskedThread(t)'
  <2>1. ~Scanning(t)' BY <1>1, <1>2 DEF Scanning
  <2>2. QED
    BY <1>1, <1>2, <1>3, <1>4, <1>5, <1>6, <2>1 DEF AskedThread, HelpPcs, ReqPcs
<1>11. ASSUME NEW u \in Threads \ {t} PROVE AskedThread(u)'
  BY <1>6, <1>8 DEF AskedThread, Scanning, Asks, AskedInv
<1>12. AskedInv' BY <1>7, <1>9, <1>10, <1>11 DEF AskedInv
<1>13. QED BY <1>4, <1>6, <1>12 DEF NoneAsked

LEMMA SlowPublishStateAsked ==
  ASSUME AskAssumption, NEW t \in Threads, Asks(t), SlowPublishState(t)
  PROVE  AskedInv'
<1> DEFINE c == [call[t] EXCEPT !.val = Bottom]
           s == [NoScan EXCEPT !.helpee = t]
<1>1. /\ pc[t] = "slow_state" /\ pc[t] \in DeqPcs
      /\ deqState' = [deqState EXCEPT ![t] = State(TRUE, cid[t])]
      /\ UNCHANGED <<deqId, cid>> /\ GoTo(t, "scan_start")
      /\ call' = [call EXCEPT ![t] = c] /\ scan' = [scan EXCEPT ![t] = s]
  BY DEF SlowPublishState, DeqPcs
<1>2. AskedThread(t) /\ ~Scanning(t) /\ Passed \in Nat /\ H \in Nat /\ H' \in Nat BY <1>1, AskFacts
<1>3. cid[t] >= Passed /\ cid[t] \in Nat /\ call[t].kind = "deq" /\ "deq" \in Kinds
      /\ deqId[t] # 0
  BY <1>1, <1>2, AskFacts DEF AskedThread, Known
<1>4. cid[t] > 0 BY <1>2, <1>3 DEF AskAssumption
<1>5. /\ call \in [Threads -> CallRecs] /\ call[t] \in CallRecs /\ scan \in [Threads -> ScanRecs]
      /\ deqState \in [Threads -> DeqStates]
  BY DEF Asks, Parts, LocalsTyped, SharedInv, SharedTyped
<1>6. c.kind = call[t].kind BY <1>5 DEF CallRecs
<1>7. ~s.state.pending BY <1>5, ScanFacts
<1> HIDE DEF c, s
<1>8. pc'[t] = "scan_start" BY <1>1, GoToPc DEF Asks
<1>9. call'[t].kind = call[t].kind /\ ~scan'[t].state.pending BY <1>1, <1>5, <1>6, <1>7
<1>10. /\ deqState'[t] = State(TRUE, cid[t])
       /\ \A u \in Threads \ {t} : deqState'[u] = deqState[u]
  BY <1>1, <1>5
<1>11. deqState'[t].pending /\ deqState'[t].low = cid[t] /\ deqState'[t] # State(FALSE, 0)
  BY <1>10 DEF State
<1>12. H' >= Passed BY <1>2 DEF Asks, AskedInv, EndsGrow
<1>13. \A u \in Threads \ {t} : /\ pc'[u] = pc[u] /\ call'[u] = call[u] /\ cid'[u] = cid[u]
                               /\ scan'[u] = scan[u]
  BY DEF Asks, Others
<1>14. ASSUME NEW r \in Threads
      PROVE  /\ deqId'[r] = 0 => deqState'[r] = State(FALSE, 0)
             /\ deqState'[r].pending => deqState'[r].low > 0
             /\ deqId'[r] # 0 /\ deqState'[r] = State(FALSE, 0) => pc'[r] = "slow_state"
  <2>1. CASE r = t BY <1>1, <1>3, <1>4, <1>11, <2>1
  <2>2. CASE r # t BY <1>1, <1>10, <1>13, <2>2 DEF Asks, AskedInv
  <2>3. QED BY <2>1, <2>2
<1>15. AskedThread(t)'
  BY <1>1, <1>2, <1>3, <1>8, <1>9 DEF AskedThread, HelpPcs, ReqPcs
<1>16. ASSUME NEW u \in Threads \ {t} PROVE AskedThread(u)'
  BY <1>1, <1>13 DEF AskedThread, Scanning, Asks, AskedInv
<1>17. QED BY <1>12, <1>14, <1>15, <1>16 DEF AskedInv

LEMMA SlowAsked ==
  ASSUME NEW t \in Threads, Asks(t), SlowResult(t) \/ SlowVal(t) \/ SlowCover(t)
  PROVE  AskedInv'
<1>1. /\ pc[t] \in {"slow_result", "slow_val", "slow_cover"} /\ pc[t] \in DeqPcs
      /\ pc[t] # "slow_state" /\ UNCHANGED deqReqs
  BY DEF SlowResult, SlowVal, SlowCover, DeqPcs
<1>2. /\ AskedThread(t) /\ ~Scanning(t) /\ call[t].kind \in {"deq", "deq_bfs"} /\ deqId[t] # 0
  BY <1>1, AskFacts DEF AskedThread
<1>3. CASE SlowCover(t)
  <2>1. pc[t] = "slow_cover" /\ call[t].val \in Values \cup {Bottom}
    BY <1>3, AskFacts DEF SlowCover, Known, CallInv
  <2>2. CASE call[t].val = Empty
    <3>1. Return(t, "empty", Bottom) BY <1>3, <2>2 DEF SlowCover
    <3>2. QED BY <1>1, <3>1, ReturnAsked
  <2>3. CASE call[t].val # Empty
    <3>1. DeqGot(t, call[t].val) BY <1>3, <2>3 DEF SlowCover
    <3>2. call[t].val \in Values BY <2>1, <2>3 DEF Empty, Bottom
    <3>3. QED BY <1>1, <1>2, <3>1, <3>2, DeqGotAsked
  <2>4. QED BY <2>2, <2>3
<1>4. CASE SlowResult(t) \/ SlowVal(t)
  <2> DEFINE c == [call[t] EXCEPT !.val = IF cellVal[cid[t]] = Top THEN Empty ELSE cellVal[cid[t]]]
  <2>1. call \in [Threads -> CallRecs] /\ call[t] \in CallRecs BY DEF Asks, Parts, LocalsTyped
  <2>2. c.kind = call[t].kind BY <2>1 DEF CallRecs
  <2>3. /\ call' = call \/ call' = [call EXCEPT ![t] = c]
        /\ UNCHANGED scan
        /\ \E p \in {"slow_val", "slow_cover"} : GoTo(t, p)
    BY <1>4 DEF SlowResult, SlowVal
  <2> HIDE DEF c
  <2>4. pc'[t] \in {"slow_val", "slow_cover"} BY <2>3, GoToPc DEF Asks
  <2>5. call'[t].kind = call[t].kind BY <2>1, <2>2, <2>3
  <2>6. ~Scanning(t)' BY <1>2, <2>3 DEF Scanning
  <2>7. AskedThread(t)'
    BY <1>1, <1>2, <2>3, <2>4, <2>5, <2>6 DEF AskedThread, HelpPcs, ReqPcs, deqReqs
  <2>8. QED BY <1>1, <2>7, AskedFrame
<1>5. QED BY <1>3, <1>4

LEMMA ScanStartAsked == ASSUME NEW t \in Threads, Asks(t), ScanStart(t) PROVE AskedInv'
<1>1. /\ pc[t] = "scan_start" /\ pc[t] \in ScanPcs /\ UNCHANGED <<deqReqs, call>>
      /\ scan' = [scan EXCEPT ![t].state = deqState[scan[t].helpee]]
  BY DEF ScanStart, ScanPcs
<1>2. pc'[t] = "scan_first_id" BY GoToPc DEF ScanStart, Asks
<1>3. Scanning(t) /\ scan[t].helpee \in Threads
  BY <1>1, AskFacts DEF Scanning, Known
<1>4. scan'[t].helpee = scan[t].helpee /\ scan'[t].state = deqState[scan[t].helpee]
  BY <1>1 DEF Asks, Parts, LocalsTyped, ScanRecs
<1>5. QED BY <1>1, <1>2, <1>3, <1>4, ScanMove DEF ScanPcs

LEMMA ScanFirstIdAsked == ASSUME NEW t \in Threads, Asks(t), ScanFirstId(t) PROVE AskedInv'
<1>1. pc[t] = "scan_first_id" /\ pc[t] \in ScanPcs /\ UNCHANGED deqReqs
  BY DEF ScanFirstId, ScanPcs
<1>2. CASE ScanReturn(t) BY <1>1, <1>2, ScanReturnAsked
<1>3. CASE ~ScanReturn(t)
  <2> DEFINE d == deqId[scan[t].helpee]
             s == [[[scan[t] EXCEPT !.id = d] EXCEPT !.prior = d] EXCEPT !.i = d]
  <2>1. UNCHANGED call /\ GoTo(t, "scan_state") /\ scan' = [scan EXCEPT ![t] = s]
    BY <1>3 DEF ScanFirstId
  <2>2. scan \in [Threads -> ScanRecs] /\ scan[t] \in ScanRecs BY DEF Asks, Parts, LocalsTyped
  <2>3. s.helpee = scan[t].helpee /\ s.state = scan[t].state BY <2>2 DEF ScanRecs
  <2> HIDE DEF s, d
  <2>4. pc'[t] = "scan_state" BY <2>1, GoToPc DEF Asks
  <2>5. scan'[t].helpee = scan[t].helpee /\ scan'[t].state = scan[t].state
    BY <2>1, <2>2, <2>3
  <2>6. QED BY <1>1, <2>1, <2>4, <2>5, ScanMove DEF ScanPcs
<1>4. QED BY <1>2, <1>3

LEMMA ReloadAsked ==
  ASSUME NEW t \in Threads, Asks(t), NEW at \in ScanPcs,
         NEW next \in ScanPcs \ {"scan_seen", "scan_announce"}, ScanReload(t, at, next)
  PROVE  AskedInv'
<1>1. pc[t] \in ScanPcs /\ UNCHANGED deqReqs BY DEF ScanReload
<1>2. CASE ScanReturn(t) BY <1>1, <1>2, ScanReturnAsked
<1>3. CASE ~ScanReturn(t)
  <2>1. /\ scan' = [scan EXCEPT ![t].state = deqState[scan[t].helpee]]
        /\ GoTo(t, next) /\ UNCHANGED call
    BY <1>3 DEF ScanReload
  <2>2. pc'[t] = next BY <2>1, GoToPc DEF Asks
  <2>3. Scanning(t) /\ scan[t].helpee \in Threads
    BY <1>1, AskFacts DEF Scanning, Known
  <2>4. scan'[t].helpee = scan[t].helpee /\ scan'[t].state = deqState[scan[t].helpee]
    BY <2>1 DEF Asks, Parts, LocalsTyped, ScanRecs
  <2>5. pc'[t] # "help_top" BY <2>2 DEF ScanPcs, AskPcs
  <2>6. QED BY <1>1, <2>1, <2>2, <2>3, <2>4, <2>5, ScanMove
<1>4. QED BY <1>2, <1>3

LEMMA SameAsked ==
  ASSUME NEW t \in Threads, Asks(t), NEW at \in ScanPcs,
         NEW next \in ScanPcs \ {"scan_seen", "scan_announce"}, ScanSame(t, at, next)
  PROVE  AskedInv'
<1>1. pc[t] \in ScanPcs /\ UNCHANGED deqReqs BY DEF ScanSame
<1>2. CASE ScanReturn(t) BY <1>1, <1>2, ScanReturnAsked
<1>3. CASE ~ScanReturn(t)
  <2>1. GoTo(t, next) /\ UNCHANGED <<call, scan>> BY <1>3 DEF ScanSame, locals
  <2>2. pc'[t] = next BY <2>1, GoToPc DEF Asks
  <2>3. pc'[t] # "help_top" BY <2>2 DEF ScanPcs, AskPcs
  <2>4. QED BY <1>1, <2>1, <2>2, <2>3, ScanMove
<1>4. QED BY <1>2, <1>3

LEMMA ScanCellAsked == ASSUME NEW t \in Threads, Asks(t), ScanCell(t) PROVE AskedInv'
<1>1. /\ pc[t] = "scan_cell" /\ pc[t] \in ScanPcs /\ UNCHANGED <<deqReqs, call>>
      /\ scan' = [scan EXCEPT ![t].i = IF @ \in Cells THEN @ + 1 ELSE @]
      /\ GoTo(t, IF scan[t].i + 1 \in Cells THEN "help_top" ELSE "settle_state")
  BY DEF ScanCell, ScanPcs
<1>2. pc'[t] = IF scan[t].i + 1 \in Cells THEN "help_top" ELSE "settle_state"
  BY <1>1, GoToPc DEF Asks
<1>3. scan[t].i \in Nat BY AskFacts DEF Known
<1>4. /\ scan'[t].helpee = scan[t].helpee /\ scan'[t].state = scan[t].state
      /\ scan'[t].i = IF scan[t].i \in Cells THEN scan[t].i + 1 ELSE scan[t].i
  BY <1>1 DEF Asks, Parts, LocalsTyped, ScanRecs
<1>5. pc'[t] = "help_top" => scan'[t].i > 0
  BY <1>2, <1>3, <1>4, CellsAssumption DEF Cells
<1>6. pc'[t] \in {"help_top", "settle_state"} BY <1>2
<1>7. QED BY <1>1, <1>4, <1>5, <1>6, ScanMove DEF ScanPcs

LEMMA ScanSeenAsked == ASSUME NEW t \in Threads, Asks(t), ScanSeen(t) PROVE AskedInv'
<1>1. /\ pc[t] = "scan_seen" /\ pc[t] \in ScanPcs /\ UNCHANGED <<deqReqs, call, scan>>
      /\ GoTo(t, IF cellDeq[scan[t].i] = Null THEN "scan_announce" ELSE "scan_state")
  BY DEF ScanSeen, ScanPcs, locals
<1>2. pc'[t] \in {"scan_announce", "scan_state"} BY <1>1, GoToPc DEF Asks
<1>3. QED BY <1>1, <1>2, ScanMove DEF ScanPcs

LEMMA SettleAsked ==
  ASSUME NEW t \in Threads, Asks(t), SettleDeq(t) \/ SettleVal(t) \/ SettleTake(t)
  PROVE  AskedInv'
<1>1. pc[t] \in ScanPcs /\ UNCHANGED <<deqReqs, call>>
  BY DEF SettleDeq, SettleVal, SettleTake, ScanPcs, AskPcs, locals
<1>2. pc'[t] \in {"settle_val", "settle_close", "settle_take", "scan_state"}
  BY GoToPc DEF SettleDeq, SettleVal, SettleTake, Asks
<1>3. scan \in [Threads -> ScanRecs] /\ scan[t] \in ScanRecs BY DEF Asks, Parts, LocalsTyped
<1> DEFINE a == [scan[t] EXCEPT !.deq = cellDeq[Announced(t)]]
           b == [[scan[t] EXCEPT !.prior = Announced(t)]
                   EXCEPT !.i = Larger(scan[t].i, Announced(t))]
<1>4. /\ a.helpee = scan[t].helpee /\ a.state = scan[t].state
      /\ b.helpee = scan[t].helpee /\ b.state = scan[t].state
  BY <1>3 DEF ScanRecs
<1>5. \/ scan' = scan
      \/ scan' = [scan EXCEPT ![t] = a]
      \/ scan' = [scan EXCEPT ![t] = b]
  BY DEF SettleDeq, SettleVal, SettleTake, locals
<1> HIDE DEF a, b
<1>6. scan'[t].helpee = scan[t].helpee /\ scan'[t].state = scan[t].state
  BY <1>3, <1>4, <1>5
<1>7. QED BY <1>1, <1>2, <1>6, ScanMove DEF ScanPcs, AskPcs

\* A step that moves a pending request on, or settles it.
LEMMA AskedRequest ==
  ASSUME NEW t \in Threads, Asks(t), UNCHANGED deqId, pc[t] # "slow_state",
         NEW r \in Threads, deqState[r].pending, NEW s,
         s.pending => s.low > 0, s # State(FALSE, 0),
         deqState' = [deqState EXCEPT ![r] = s], AskedThread(t)'
  PROVE  AskedInv'
<1>1. H' >= Passed
  BY UseAssumption DEF Asks, AskedInv, EndsGrow, Parts, SharedInv, SharedTyped
<1>2. deqState'[r] = s /\ \A u \in Threads \ {r} : deqState'[u] = deqState[u]
  BY DEF Asks, Parts, SharedInv, SharedTyped
<1>3. deqId[r] # 0 BY DEF Asks, AskedInv, State
<1>4. ASSUME NEW u \in Threads
      PROVE  /\ deqId'[u] = 0 => deqState'[u] = State(FALSE, 0)
             /\ deqState'[u].pending => deqState'[u].low > 0
             /\ deqId'[u] # 0 /\ deqState'[u] = State(FALSE, 0) => pc'[u] = "slow_state"
  <2>1. CASE u = r BY <1>2, <1>3, <2>1
  <2>2. CASE u # r
    <3>1. deqState'[u] = deqState[u] /\ deqId'[u] = deqId[u] BY <1>2, <2>2
    <3>2. /\ deqId[u] = 0 => deqState[u] = State(FALSE, 0)
          /\ deqState[u].pending => deqState[u].low > 0
          /\ deqId[u] # 0 /\ deqState[u] = State(FALSE, 0) => pc[u] = "slow_state"
      BY DEF Asks, AskedInv
    <3>3. u # t => pc'[u] = pc[u] BY DEF Asks, Others
    <3>4. CASE u = t BY <3>1, <3>2, <3>4
    <3>5. QED BY <3>1, <3>2, <3>3, <3>4
  <2>3. QED BY <2>1, <2>2
<1>5. ASSUME NEW u \in Threads \ {t} PROVE AskedThread(u)'
  <2>1. AskedThread(u) BY DEF Asks, AskedInv
  <2>2. pc'[u] = pc[u] /\ call'[u] = call[u] /\ cid'[u] = cid[u] /\ scan'[u] = scan[u]
    BY DEF Asks, Others
  <2>3. QED BY <2>1, <2>2 DEF AskedThread, Scanning
<1>6. QED BY <1>1, <1>4, <1>5 DEF AskedInv

LEMMA ScanAnnounceAsked == ASSUME NEW t \in Threads, Asks(t), ScanAnnounce(t) PROVE AskedInv'
<1>1. /\ pc[t] = "scan_announce" /\ pc[t] \in ScanPcs /\ UNCHANGED <<deqId, call, cid, scan>>
  BY DEF ScanAnnounce, ScanPcs, locals
<1>2. pc'[t] = "settle_state" BY GoToPc DEF ScanAnnounce, Asks
<1>3. AskedThread(t) /\ Scanning(t) /\ scan[t].helpee \in Threads
  BY <1>1, AskFacts DEF Scanning, Known
<1>4. scan[t].i > 0 BY <1>1, <1>3 DEF AskedThread
<1>5. PICK r \in Threads : r = scan[t].helpee BY <1>3
<1>6. CASE deqState[r] = State(TRUE, scan[t].prior)
  <2> DEFINE s == State(TRUE, scan[t].i)
  <2>1. deqState' = [deqState EXCEPT ![r] = s] BY <1>5, <1>6 DEF ScanAnnounce
  <2>2. s.low > 0 /\ s # State(FALSE, 0) BY <1>4 DEF State
  <2>3. deqState[r].pending BY <1>6 DEF State
  <2> HIDE DEF s
  <2>4. AskedThread(t)' BY <1>1, <1>2, <1>3 DEF AskedThread, Scanning, HelpPcs, ReqPcs
  <2>5. QED BY <1>1, <2>1, <2>2, <2>3, <2>4, AskedRequest
<1>7. CASE deqState[r] # State(TRUE, scan[t].prior)
  <2>1. UNCHANGED deqReqs BY <1>1, <1>5, <1>7 DEF ScanAnnounce, deqReqs
  <2>2. QED BY <1>1, <1>2, <2>1, ScanMove DEF ScanPcs
<1>8. QED BY <1>6, <1>7

LEMMA SettleCloseAsked == ASSUME NEW t \in Threads, Asks(t), SettleClose(t) PROVE AskedInv'
<1>1. pc[t] = "settle_close" /\ pc[t] \in ScanPcs /\ UNCHANGED deqId /\ ScanReturn(t)
  BY DEF SettleClose, ScanPcs, AskPcs
<1>2. AskedThread(t) /\ Scanning(t) /\ scan[t].helpee \in Threads /\ scan[t].state.pending
  BY <1>1, AskFacts DEF Scanning, Known, CellInv, AskPcs
<1>3. scan[t].state.low > 0 BY <1>2 DEF AskedThread
<1>4. PICK r \in Threads : r = scan[t].helpee BY <1>2
<1>5. CASE deqState[r] = scan[t].state
  <2> DEFINE s == State(FALSE, Announced(t))
  <2>1. deqState' = [deqState EXCEPT ![r] = s] BY <1>4, <1>5 DEF SettleClose
  <2>2. ~s.pending /\ s # State(FALSE, 0) BY <1>3 DEF State, Announced
  <2>3. deqState[r].pending BY <1>2, <1>5
  <2> HIDE DEF s
  <2>4. AskedThread(t)' BY <1>1, ScanReturnThread
  <2>5. QED BY <1>1, <2>1, <2>2, <2>3, <2>4, AskedRequest
<1>6. CASE deqState[r] # scan[t].state
  <2>1. UNCHANGED deqReqs BY <1>1, <1>4, <1>6 DEF SettleClose, deqReqs
  <2>2. QED BY <1>1, <2>1, ScanReturnAsked
<1>7. QED BY <1>5, <1>6

LEMMA DeqStepAsked ==
  ASSUME AskAssumption, NEW t \in Threads, Asks(t), DeqStep(t) PROVE AskedInv'
<1> USE DEF ScanPcs, AskPcs
<1>1. CASE ScanState(t) BY <1>1, ReloadAsked DEF ScanState
<1>2. CASE ScanId(t) BY <1>2, SameAsked DEF ScanId
<1>3. CASE SettleState(t) BY <1>3, ReloadAsked DEF SettleState
<1>4. CASE SettleId(t) BY <1>4, SameAsked DEF SettleId
<1>5. QED
  BY <1>1, <1>2, <1>3, <1>4, DeqTicketAsked, DeqTakeAsked, BfsAsked, SlowPublishIdAsked,
     SlowPublishStateAsked, SlowAsked, ScanStartAsked, ScanFirstIdAsked, ScanCellAsked,
     ScanSeenAsked, ScanAnnounceAsked, SettleAsked, SettleCloseAsked
     DEF DeqStep

LEMMA CallAsked ==
  ASSUME NEW t \in Threads, Parts, Parts', AskedInv, CallEnq(t) \/ CallDeq(t) PROVE AskedInv'
<1>1. /\ pc[t] = "idle" /\ UNCHANGED <<T, H, deqReqs, cid, own, scan>>
      /\ \E p \in {"enq_faa", "deq_faa"} : GoTo(t, p)
      /\ \E c \in CallRecs : /\ call' = [call EXCEPT ![t] = c]
                             /\ c.kind \in {"enq"} \cup Kinds
  <2>1. CASE CallEnq(t)
    <3>1. [kind |-> "enq", val |-> sent + 1, tries |-> Patience] \in CallRecs
      <4>1. sent + 1 \in Nat BY DEF Parts, LocalsTyped
      <4>2. QED BY <4>1, CallFacts, PatienceAssumption
    <3>2. QED BY <2>1, <3>1 DEF CallEnq, EnqStart
  <2>2. CASE CallDeq(t)
    <3>1. PICK k \in Kinds : DeqStart(t, k) BY <2>2 DEF CallDeq
    <3>2. [kind |-> k, val |-> Bottom, tries |-> Patience] \in CallRecs
      BY CallFacts, PatienceAssumption, UseAssumption, StoreBasics
    <3>3. QED BY <3>1, <3>2 DEF DeqStart
  <2>3. QED BY <2>1, <2>2
<1>2. PICK c \in CallRecs : call' = [call EXCEPT ![t] = c] /\ c.kind \in {"enq"} \cup Kinds
  BY <1>1
<1>3. pc'[t] \in {"enq_faa", "deq_faa"} BY <1>1, GoToPc
<1>4. call'[t] = c /\ \A u \in Threads \ {t} : pc'[u] = pc[u] /\ call'[u] = call[u]
  BY <1>1, <1>2 DEF Parts, LocalsTyped, GoTo
<1>5. EndsGrow /\ Others(t) BY <1>1, <1>4 DEF EndsGrow, Others, Parts, SharedInv, SharedTyped
<1>6. Asks(t) BY <1>5 DEF Asks
<1>7. AskedThread(t) /\ ~Scanning(t)
  BY <1>1, <1>6, AskFacts DEF Known, CallInv
<1>8. ~Scanning(t)' BY <1>1, <1>7 DEF Scanning
<1>9. AskedThread(t)' BY <1>1, <1>2, <1>3, <1>4, <1>7, <1>8 DEF AskedThread, HelpPcs, ReqPcs
<1>10. QED BY <1>1, <1>6, <1>9, AskedFrame

\* Every step keeps what is said of the requests of dequeuers.
LEMMA AskedStep ==
  ASSUME AskAssumption, Parts, Parts', AskedInv, NEW t \in Threads,
         CallEnq(t) \/ CallDeq(t) \/ Inside(t)
  PROVE  AskedInv'
<1>1. CASE Inside(t)
  <2>1. EndsGrow /\ LocalGood(t) BY <1>1, InsideKeeps
  <2>2. Asks(t) BY <2>1 DEF Asks, LocalGood
  <2>3. WfStep(t) BY <1>1 DEF Inside
  <2>4. QED
    BY <2>2, <2>3, EnqStepOff, EnqAsked, HelpEnqStepOff, HelpAsked, DeqStepAsked
       DEF WfStep, Asks
<1>2. QED BY <1>1, CallAsked

LEMMA AskedInit == ASSUME Init PROVE AskedInv
<1>1. /\ H = Passed /\ deqId = [t \in Threads |-> 0]
      /\ deqState = [t \in Threads |-> State(FALSE, 0)] /\ pc = [t \in Threads |-> "idle"]
      /\ call = [t \in Threads |-> NoCall] /\ scan = [t \in Threads |-> NoScan]
  BY DEF Init, WfInit
<1>2. \A t \in Threads : AskedThread(t)
  <2>1. ASSUME NEW t \in Threads PROVE AskedThread(t)
    <3>1. pc[t] = "idle" /\ call[t] = NoCall /\ scan[t] = NoScan BY <1>1
    <3>2. call[t].kind # "deq" BY <3>1 DEF NoCall
    <3>3. ~Scanning(t) /\ ~scan[t].state.pending BY <3>1, ScanFacts DEF Scanning
    <3>4. QED BY <3>1, <3>2, <3>3 DEF AskedThread, HelpPcs, ReqPcs
  <2>2. QED BY <2>1
<1>3. QED BY <1>1, <1>2, UseAssumption DEF AskedInv, State

-----------------------------------------------------------------------------
(***************************************************************************)
(* Cells and dequeuers                                                     *)
(***************************************************************************)

\* What the lemmas below may use of a step of t.
Takes(t) ==
  /\ Parts /\ Parts' /\ Store /\ AskedInv /\ TakenInv /\ \A u \in Threads : TakeInv(u)
  /\ NoneAsked /\ NoneAsked' /\ Keeps(t)

\* What a dequeue has got, and what the calls have seen.
Counts(t) ==
  /\ got' = IF Ends(t, "got") THEN [got EXCEPT ![call'[t].val] = @ + 1] ELSE got
  /\ before' = IF pc'[t] = "idle" THEN [before EXCEPT ![t] = {}] ELSE before

LEMMA ValueStays ==
  ASSUME NEW t \in Threads, Keeps(t), NEW c \in Cells, IsValue(cellVal[c])
  PROVE  cellVal'[c] = cellVal[c]
<1>1. CellKept(t, c) BY DEF Keeps
<1>2. QED BY <1>1, StoreBasics DEF CellKept, IsValue

\* What is known of a dequeuer while none has asked for help.
LEMMA TakeFacts ==
  ASSUME NEW t \in Threads, Takes(t)
  PROVE  /\ Known(t) /\ AskedThread(t) /\ TakeInv(t) /\ Asks(t)
         /\ T \in Nat /\ H \in Nat /\ H' \in Nat /\ H <= H'
         /\ pc[t] \notin {"slow_state", "slow_result", "slow_val", "slow_cover"}
         /\ Scanning(t) => /\ pc[t] \in {"scan_start", "scan_first_id"}
                           /\ call[t].val \in Values /\ call[t].val # Bottom
                           /\ ~Tries(t)
         /\ before \in [Threads -> SUBSET Values] /\ got \in [Values -> {0, 1}]
         /\ \A w \in before[t] : w \in Values /\ got[w] = 1
<1>1. Asks(t) BY DEF Takes, Keeps, Asks
<1>2. /\ Known(t) /\ AskedThread(t) /\ H \in Nat /\ H' \in Nat
      /\ Scanning(t) => \/ call[t].val \in Values /\ call[t].val # Bottom
                        \/ scan[t].helpee = t /\ call[t].val = Bottom
  BY <1>1, AskFacts
<1>3. TakeInv(t) /\ deqId[t] = 0 /\ TakenInv BY DEF Takes, NoneAsked
<1>4. pc[t] \notin {"slow_state", "slow_result", "slow_val", "slow_cover"}
  BY <1>2, <1>3 DEF AskedThread
<1>5. Scanning(t) => call[t].val # Bottom BY <1>2, <1>3 DEF AskedThread
<1>6. Scanning(t) => pc[t] \in {"scan_start", "scan_first_id"} BY <1>3 DEF TakeInv
<1>7. Scanning(t) => ~Tries(t) BY <1>6 DEF Tries, HelpPcs, ReqPcs
<1>8. before \in [Threads -> SUBSET Values] /\ got \in [Values -> {0, 1}]
  BY <1>3 DEF TakenInv
<1>9. \A w \in before[t] : w \in Values /\ got[w] = 1 BY <1>3, <1>8 DEF TakeInv
<1>10. T \in Nat /\ H <= H' BY <1>1, <1>2 DEF Asks, EndsGrow, Known, SharedTyped
<1>11. QED BY <1>1, <1>2, <1>3, <1>4, <1>5, <1>6, <1>7, <1>8, <1>9, <1>10

\* The other threads keep what they know.
LEMMA OthersTake ==
  ASSUME NEW t \in Threads, Takes(t), NEW u \in Threads \ {t},
         \A c \in Cells : cellDeq[c] # Null => cellDeq'[c] # Null,
         \A v \in Values : got[v] = 1 => got'[v] = 1,
         \A v \in Values : Carries(u, v) => got'[v] = got[v] /\ ~Carries(t, v)',
         before'[u] = before[u]
  PROVE  TakeInv(u)'
<1>1. /\ pc'[u] = pc[u] /\ call'[u] = call[u] /\ cid'[u] = cid[u] /\ scan'[u] = scan[u]
      /\ \A x \in Threads \ {t} : call'[x] = call[x] /\ scan'[x] = scan[x]
  BY DEF Takes, Keeps, Others
<1>2. TakeInv(u) /\ Known(u) BY LocalFacts DEF Takes
<1>3. Scanning(u)' = Scanning(u) /\ Tries(u)' = Tries(u) BY <1>1 DEF Scanning, Tries
<1>4. before \in [Threads -> SUBSET Values] BY DEF Takes, TakenInv
<1>5. ASSUME Scanning(u)
      PROVE  /\ pc'[u] \in {"scan_start", "scan_first_id"} /\ ~scan'[u].state.pending
             /\ cid'[u] \in Cells /\ cellVal'[cid'[u]] = call'[u].val /\ cellDeq'[cid'[u]] # Null
             /\ got'[call'[u].val] = 0
             /\ \A x \in Threads \ {u} : ~(Scanning(x)' /\ call'[x].val = call'[u].val)
  <2>0. PICK v \in Nat : v = call[u].val BY <1>2 DEF Known
  <2>1. /\ pc[u] \in {"scan_start", "scan_first_id"} /\ ~scan[u].state.pending
        /\ cid[u] \in Cells /\ cellVal[cid[u]] = v /\ cellDeq[cid[u]] # Null
        /\ got[v] = 0 /\ \A x \in Threads \ {u} : ~Carries(x, v)
    BY <1>2, <1>5, <2>0 DEF TakeInv
  <2>2. IsValue(cellVal[cid[u]]) /\ v \in Values
    <3>1. IsValue(cellVal[cid[u]]) BY <2>1 DEF Takes, TakenInv
    <3>2. cellVal[cid[u]] \in Words BY <1>2, <2>1 DEF Known, SharedTyped
    <3>3. QED BY <2>1, <3>1, <3>2, StoreBasics
  <2>3. cellVal'[cid[u]] = v BY <2>1, <2>2, ValueStays DEF Takes
  <2>4. Carries(u, v) BY <1>5, <2>0 DEF Carries
  <2>5. got'[v] = 0 /\ ~Carries(t, v)' BY <2>1, <2>2, <2>4
  <2>6. \A x \in Threads \ {u} : ~Carries(x, v)'
    BY <1>1, <2>1, <2>5 DEF Carries, Scanning
  <2>7. QED BY <1>1, <2>0, <2>1, <2>2, <2>3, <2>5, <2>6 DEF Carries
<1>6. pc'[u] = "deq_take" => cellVal'[cid'[u]] = call'[u].val
  <2>1. SUFFICES ASSUME pc[u] = "deq_take" PROVE cellVal'[cid[u]] = call[u].val BY <1>1
  <2>2. cellVal[cid[u]] = call[u].val /\ call[u].val \in Values /\ cid[u] \in Cells
    BY <1>2, <2>1 DEF TakeInv, Known, CallInv, CellInv
  <2>3. IsValue(cellVal[cid[u]]) BY <2>2, StoreBasics
  <2>4. QED BY <2>2, <2>3, ValueStays DEF Takes
<1>7. ASSUME NEW w \in before'[u]
      PROVE  /\ got'[w] = 1
             /\ Tries(u)' \/ Scanning(u)' => \E c \in Cells : c < cid'[u] /\ cellVal'[c] = w
  <2>1. w \in before[u] /\ w \in Values /\ got[w] = 1 BY <1>2, <1>4, <1>7 DEF TakeInv
  <2>2. ASSUME Tries(u) \/ Scanning(u) PROVE \E c \in Cells : c < cid[u] /\ cellVal'[c] = w
    <3>1. PICK c \in Cells : c < cid[u] /\ cellVal[c] = w BY <1>2, <2>1, <2>2 DEF TakeInv
    <3>2. IsValue(cellVal[c]) BY <2>1, <3>1, StoreBasics
    <3>3. QED BY <3>1, <3>2, ValueStays DEF Takes
  <2>3. QED BY <1>1, <1>3, <2>1, <2>2
<1>8. Scanning(u)' =>
        /\ pc'[u] \in {"scan_start", "scan_first_id"} /\ ~scan'[u].state.pending
        /\ cid'[u] \in Cells /\ cellVal'[cid'[u]] = call'[u].val /\ cellDeq'[cid'[u]] # Null
        /\ got'[call'[u].val] = 0
        /\ \A x \in Threads \ {u} : ~(Scanning(x)' /\ call'[x].val = call'[u].val)
  BY <1>3, <1>5
<1>9. QED BY <1>6, <1>7, <1>8 DEF TakeInv, Carries

\* What the calls had seen is still there.
LEMMA SeenStays ==
  ASSUME NEW t \in Threads, Takes(t), NEW n \in Nat,
         \A w \in before[t] : \E c \in Cells : c < n /\ cellVal[c] = w
  PROVE  \A w \in before[t] : \E c \in Cells : c < n /\ cellVal'[c] = w
<1>1. ASSUME NEW w \in before[t] PROVE \E c \in Cells : c < n /\ cellVal'[c] = w
  <2>1. w \in Values BY TakeFacts
  <2>2. PICK c \in Cells : c < n /\ cellVal[c] = w OBVIOUS
  <2>3. IsValue(cellVal[c]) BY <2>1, <2>2, StoreBasics
  <2>4. QED BY <2>2, <2>3, ValueStays DEF Takes
<1>2. QED BY <1>1

\* A step in which no value changes hands.
LEMMA QuietTaken ==
  ASSUME NEW t \in Threads, Takes(t), UNCHANGED <<cellDeq, got>>,
         before' \in [Threads -> SUBSET Values],
         \A v \in Values : Carries(t, v)' <=> Carries(t, v),
         \A c \in Cells : c < H' => c < H \/ (Tries(t)' /\ cid'[t] = c),
         Tries(t) => \/ Tries(t)' /\ cid'[t] = cid[t]
                     \/ cellDeq[cid[t]] # Null \/ Dead(cid[t])
  PROVE  TakenInv'
<1>1. TakenInv BY DEF Takes
<1>2. /\ \A x \in Threads \ {t} :
           /\ pc'[x] = pc[x] /\ call'[x] = call[x] /\ cid'[x] = cid[x] /\ scan'[x] = scan[x]
  BY DEF Takes, Keeps, Others
<1>3. \A x \in Threads, v \in Values : Carries(x, v) => Carries(x, v)'
  BY <1>2 DEF Carries, Scanning
<1>4. \A c \in Cells : cellVal[c] \in Words BY DEF Takes, Parts, SharedInv, SharedTyped
<1>5. ASSUME NEW c \in Cells, cellDeq'[c] # Null
      PROVE  /\ IsValue(cellVal'[c])
             /\ \/ got'[cellVal'[c]] = 1
                \/ \E x \in Threads : Scanning(x)' /\ call'[x].val = cellVal'[c]
  <2>1. /\ IsValue(cellVal[c])
        /\ \/ got[cellVal[c]] = 1
           \/ \E x \in Threads : Carries(x, cellVal[c])
    BY <1>1, <1>5 DEF TakenInv
  <2>2. cellVal'[c] = cellVal[c] BY <2>1, ValueStays DEF Takes
  <2>3. PICK v \in Values : v = cellVal[c] BY <1>4, <2>1, StoreBasics
  <2>4. \/ got'[v] = 1
        \/ \E x \in Threads : Carries(x, v)'
    BY <1>3, <2>1, <2>3
  <2>5. QED BY <2>1, <2>2, <2>3, <2>4 DEF Carries, IsValue
<1>6. ASSUME NEW c \in Cells, c < H' PROVE cellDeq'[c] # Null \/ InHand(c)' \/ Dead(c)'
  <2>1. CASE Tries(t)' /\ cid'[t] = c BY <2>1 DEF InHand
  <2>2. CASE c < H
    <3>1. cellDeq[c] # Null \/ InHand(c) \/ Dead(c) BY <1>1, <2>2 DEF TakenInv
    <3>2. CASE Dead(c) BY <3>2, DeadStays DEF Takes
    <3>3. CASE InHand(c)
      <4>1. PICK x \in Threads : Tries(x) /\ cid[x] = c BY <3>3 DEF InHand
      <4>2. CASE x # t
        <5>1. Tries(x)' /\ cid'[x] = c BY <1>2, <4>1, <4>2 DEF Tries
        <5>2. QED BY <5>1 DEF InHand
      <4>3. CASE x = t
        <5>1. \/ Tries(t)' /\ cid'[t] = c
              \/ cellDeq[c] # Null
              \/ Dead(c)
          BY <4>1, <4>3
        <5>2. CASE Tries(t)' /\ cid'[t] = c BY <5>2 DEF InHand
        <5>3. CASE Dead(c) BY <5>3, DeadStays DEF Takes
        <5>4. QED BY <5>1, <5>2, <5>3
      <4>4. QED BY <4>2, <4>3
    <3>4. QED BY <3>1, <3>2, <3>3
  <2>3. QED BY <1>6, <2>1, <2>2
<1>7. ASSUME NEW v \in Values, got'[v] = 1
      PROVE  \E c \in Cells : cellVal'[c] = v /\ cellDeq'[c] # Null
  <2>1. PICK c \in Cells : cellVal[c] = v /\ cellDeq[c] # Null BY <1>1, <1>7 DEF TakenInv
  <2>2. IsValue(cellVal[c]) BY <2>1, StoreBasics
  <2>3. QED BY <2>1, <2>2, ValueStays DEF Takes
<1>8. got' \in [Values -> {0, 1}] BY <1>1 DEF TakenInv
<1>9. QED BY <1>5, <1>6, <1>7, <1>8 DEF TakenInv, Carries

\* What has to hold in the next state.
Taken(t) == TakenInv' /\ \A u \in Threads : TakeInv(u)'

\* In such a step the others keep what they know, too.
LEMMA QuietOthers ==
  ASSUME NEW t \in Threads, Takes(t), UNCHANGED <<cellDeq, got>>,
         \A u \in Threads \ {t} : before'[u] = before[u],
         \A v \in Values : Carries(t, v)' <=> Carries(t, v)
  PROVE  \A u \in Threads \ {t} : TakeInv(u)'
<1>1. ASSUME NEW u \in Threads \ {t} PROVE TakeInv(u)'
  <2>1. \A v \in Values : Carries(u, v) => ~Carries(t, v)
    <3>1. TakeInv(u) BY DEF Takes
    <3>2. QED BY <3>1 DEF TakeInv, Carries
  <2>2. QED BY <2>1, OthersTake
<1>2. QED BY <1>1

\* A step in which no dequeue returns a value.
Uncounted(t) ==
  /\ UNCHANGED got /\ before' \in [Threads -> SUBSET Values]
  /\ \A u \in Threads \ {t} : before'[u] = before[u]
  /\ \A w \in before'[t] : got[w] = 1

LEMMA NoneCounted ==
  ASSUME NEW t \in Threads, Takes(t), Counts(t), ~Ends(t, "got")
  PROVE  Uncounted(t) /\ (pc'[t] # "idle" => before'[t] = before[t])
<1>1. UNCHANGED got BY DEF Counts
<1>2. before \in [Threads -> SUBSET Values] /\ \A w \in before[t] : got[w] = 1
  BY TakeFacts
<1>3. before' = before \/ before' = [before EXCEPT ![t] = {}] BY DEF Counts
<1>4. pc'[t] # "idle" => before' = before BY DEF Counts
<1>5. QED BY <1>1, <1>2, <1>3, <1>4 DEF Uncounted

\* A thread that is not in a dequeue, or that leaves its ticket.
LEMMA LeaveTakes ==
  ASSUME NEW t \in Threads, Takes(t), Uncounted(t), UNCHANGED cellDeq,
         ~Scanning(t), ~Scanning(t)', ~Tries(t)', \A c \in Cells : c < H' => c < H,
         Tries(t) => cellDeq[cid[t]] # Null \/ Dead(cid[t])
  PROVE  Taken(t)
<1>1. \A v \in Values : ~Carries(t, v) /\ ~Carries(t, v)' BY DEF Carries
<1>2. TakenInv' BY <1>1, QuietTaken DEF Uncounted
<1>3. \A u \in Threads \ {t} : TakeInv(u)' BY <1>1, QuietOthers DEF Uncounted
<1>4. TakeInv(t)'
  <2>1. pc'[t] # "deq_take" BY DEF Tries
  <2>2. QED BY <2>1 DEF TakeInv, Uncounted
<1>5. QED BY <1>2, <1>3, <1>4 DEF Taken

\* A thread that stays with its ticket.
LEMMA StayTakes ==
  ASSUME NEW t \in Threads, Takes(t), Uncounted(t), UNCHANGED <<cellDeq, H>>,
         before'[t] = before[t], ~Scanning(t), ~Scanning(t)', Tries(t), Tries(t)',
         cid'[t] = cid[t], pc'[t] = "deq_take" => cellVal'[cid[t]] = call'[t].val
  PROVE  Taken(t)
<1>1. \A v \in Values : ~Carries(t, v) /\ ~Carries(t, v)' BY DEF Carries
<1>2. TakenInv' BY <1>1, QuietTaken DEF Uncounted
<1>3. \A u \in Threads \ {t} : TakeInv(u)' BY <1>1, QuietOthers DEF Uncounted
<1>4. TakeInv(t)'
  <2>1. cid[t] \in Nat /\ TakeInv(t) BY TakeFacts DEF Known
  <2>2. \A w \in before[t] : \E c \in Cells : c < cid[t] /\ cellVal[c] = w
    BY <2>1 DEF TakeInv
  <2>3. \A w \in before[t] : \E c \in Cells : c < cid[t] /\ cellVal'[c] = w
    BY <2>1, <2>2, SeenStays
  <2>4. QED BY <2>3 DEF TakeInv, Uncounted
<1>5. QED BY <1>2, <1>3, <1>4 DEF Taken

LEMMA EnqTakes ==
  ASSUME NEW t \in Threads, Takes(t), Counts(t), EnqOff(t) PROVE Taken(t)
<1>1. pc[t] \in EnqPcs /\ UNCHANGED <<H, cellDeq>> BY DEF EnqOff
<1>2. ~Scanning(t) /\ ~Tries(t)
  BY <1>1, TakeFacts DEF Known, CallInv, Tries, EnqPcs, HelpPcs, ReqPcs
<1>3. CASE pc'[t] \in EnqPcs /\ UNCHANGED scan
  <2>1. pc'[t] \notin HelpPcs \cup {"deq_take", "idle"} BY <1>3 DEF EnqPcs, HelpPcs, ReqPcs
  <2>2. ~Scanning(t)' /\ ~Tries(t)' /\ ~Ends(t, "got")
    BY <1>2, <1>3, <2>1 DEF Scanning, Tries, Ends
  <2>3. QED BY <1>1, <1>2, <2>2, NoneCounted, LeaveTakes
<1>4. ASSUME NEW kind \in {"put", "dropped"}, Return(t, kind, call[t].val) PROVE Taken(t)
  <2>1. pc'[t] = "idle" /\ call'[t].kind = kind BY <1>4, ReturnPc DEF Takes
  <2>2. ~Scanning(t)' BY <2>1 DEF Takes, Parts, ThreadInv, CallInv
  <2>3. ~Tries(t)' /\ ~Ends(t, "got") BY <2>1 DEF Tries, Ends, HelpPcs, ReqPcs
  <2>4. QED BY <1>1, <1>2, <2>2, <2>3, NoneCounted, LeaveTakes
<1>5. QED BY <1>3, <1>4 DEF EnqOff

\* A dequeuer gives up its ticket.
LEMMA FailTakes ==
  ASSUME NEW t \in Threads, Takes(t), Counts(t), UNCHANGED <<cellDeq, H, scan>>,
         ~Scanning(t), DeqFails(t), cellDeq[cid[t]] # Null \/ Dead(cid[t])
  PROVE  Taken(t)
<1>1. pc'[t] \in {"bfs_t", "slow_id", "deq_faa"} BY DeqFailsPc DEF Takes
<1>2. ~Scanning(t)' /\ ~Tries(t)' /\ ~Ends(t, "got")
  BY <1>1 DEF Scanning, Tries, Ends, HelpPcs, ReqPcs
<1>3. QED BY <1>2, NoneCounted, LeaveTakes

LEMMA HelpTakes ==
  ASSUME NEW t \in Threads, Takes(t), Counts(t), HelpOff(t) PROVE Taken(t)
<1>1. pc[t] \in HelpPcs /\ UNCHANGED <<H, cellDeq>> BY DEF HelpOff
<1>2. Tries(t) /\ ~Scanning(t) BY <1>1, TakeFacts DEF Tries
<1>3. At(t) = cid[t] /\ cid[t] \in Cells /\ HelpInv(t) /\ cellVal[cid[t]] \in Words
  <2>1. At(t) = cid[t] BY <1>2 DEF At
  <2>2. At(t) \in Cells BY <1>1, TakeFacts DEF Known, CellInv
  <2>3. HelpInv(t) BY DEF Takes, Store, StoreThread
  <2>4. QED BY <2>1, <2>2, <2>3, TakeFacts DEF Known, SharedTyped
<1>4. CASE pc'[t] \in HelpPcs /\ UNCHANGED <<call, cid, scan>>
  <2>1. pc'[t] # "idle" /\ pc'[t] # "deq_take" BY <1>4 DEF HelpPcs, ReqPcs
  <2>2. Tries(t)' /\ ~Scanning(t)' /\ ~Ends(t, "got")
    BY <1>2, <1>4, <2>1 DEF Tries, Scanning, Ends
  <2>3. QED BY <1>1, <1>2, <1>4, <2>1, <2>2, NoneCounted, StayTakes
<1>5. ASSUME NEW v, Helped(t, v), HelpGives(t, v) PROVE Taken(t)
  <2>1. HelpedFast(t, v) BY <1>2, <1>5 DEF Helped
  <2>2. ~IsValue(v) => Dead(cid[t])
    <3>1. ASSUME ~IsValue(v) PROVE pc[t] = "help_end" \/ (pc[t] = "help_read" /\ v = cellVal[cid[t]])
      BY <1>3, <1>5, <3>1 DEF HelpGives
    <3>2. QED BY <1>3, <3>1 DEF HelpInv
  <2>3. CASE v = Empty
    <3>1. Return(t, "empty", Bottom) BY <2>1, <2>3 DEF HelpedFast, Empty, IsValue
    <3>2. pc'[t] = "idle" /\ call'[t].kind = "empty" BY <3>1, ReturnPc DEF Takes
    <3>3. ~Scanning(t)' BY <3>2 DEF Takes, Parts, ThreadInv, CallInv
    <3>4. ~Tries(t)' /\ ~Ends(t, "got") BY <3>2 DEF Tries, Ends, HelpPcs, ReqPcs
    <3>5. Dead(cid[t]) BY <2>2, <2>3 DEF Empty, IsValue
    <3>6. QED BY <1>1, <1>2, <3>3, <3>4, <3>5, NoneCounted, LeaveTakes
  <2>4. CASE v # Empty /\ IsValue(v)
    <3>1. /\ GoTo(t, "deq_take") /\ call' = [call EXCEPT ![t].val = v]
          /\ UNCHANGED <<cid, scan>>
      BY <2>1, <2>4 DEF HelpedFast
    <3>2. pc'[t] = "deq_take" BY <3>1, GoToPc DEF Takes
    <3>3. call'[t].val = v
      BY <3>1, TakeFacts DEF Takes, Parts, LocalsTyped, CallRecs
    <3>4. v = cellVal[cid[t]]
      BY <1>3, <1>5, <2>4 DEF HelpGives, IsValue, Empty, Retry
    <3>5. cellVal'[cid[t]] = v BY <1>3, <2>4, <3>4, ValueStays DEF Takes
    <3>6. Tries(t)' /\ ~Scanning(t)' /\ ~Ends(t, "got") /\ pc'[t] # "idle"
      BY <1>2, <3>1, <3>2 DEF Tries, Scanning, Ends
    <3>7. QED BY <1>1, <1>2, <3>1, <3>3, <3>5, <3>6, NoneCounted, StayTakes
  <2>5. CASE v # Empty /\ ~IsValue(v)
    <3>1. DeqFails(t) /\ UNCHANGED scan BY <2>1, <2>5 DEF HelpedFast
    <3>2. QED BY <1>1, <1>2, <2>2, <2>5, <3>1, FailTakes
  <2>6. QED BY <2>3, <2>4, <2>5
<1>6. QED BY <1>4, <1>5 DEF HelpOff

LEMMA DeqTicketTakes ==
  ASSUME NEW t \in Threads, Takes(t), Counts(t), DeqTicket(t) PROVE Taken(t)
<1>1. pc[t] = "deq_faa" /\ H' = H + 1 /\ UNCHANGED cellDeq BY DEF DeqTicket, cells
<1>2. ~Scanning(t) /\ ~Tries(t) /\ H \in Nat
  BY <1>1, TakeFacts DEF Known, CallInv, Tries, DeqPcs, HelpPcs, ReqPcs
<1>3. CASE H \notin Cells
  <2>1. Return(t, "empty", Bottom) BY <1>3 DEF DeqTicket
  <2>2. pc'[t] = "idle" /\ call'[t].kind = "empty" BY <2>1, ReturnPc DEF Takes
  <2>3. ~Scanning(t)' BY <2>2 DEF Takes, Parts, ThreadInv, CallInv
  <2>4. ~Tries(t)' /\ ~Ends(t, "got") BY <2>2 DEF Tries, Ends, HelpPcs, ReqPcs
  <2>5. \A c \in Cells : c < H' => c < H BY <1>1, <1>2, <1>3, Basics
  <2>6. QED BY <1>1, <1>2, <2>3, <2>4, <2>5, NoneCounted, LeaveTakes
<1>4. CASE H \in Cells
  <2>1. GoTo(t, "help_top") /\ cid' = [cid EXCEPT ![t] = H] /\ UNCHANGED scan
    BY <1>4 DEF DeqTicket
  <2>2. pc'[t] = "help_top" BY <2>1, GoToPc DEF Takes
  <2>3. cid'[t] = H BY <2>1 DEF Takes, Parts, LocalsTyped
  <2>4. Tries(t)' /\ ~Scanning(t)' /\ ~Ends(t, "got") /\ pc'[t] # "idle"
    BY <1>2, <2>1, <2>2 DEF Tries, Scanning, Ends, HelpPcs
  <2>5. Uncounted(t) /\ before'[t] = before[t] BY <2>4, NoneCounted
  <2>6. \A v \in Values : ~Carries(t, v) /\ ~Carries(t, v)' BY <1>2, <2>4 DEF Carries
  <2>7. \A c \in Cells : c < H' => c < H \/ (Tries(t)' /\ cid'[t] = c)
    <3>1. \A c \in Cells : c < H + 1 => c < H \/ c = H BY <1>2, Basics
    <3>2. QED BY <1>1, <2>3, <2>4, <3>1
  <2>8. TakenInv' BY <1>1, <1>2, <2>5, <2>6, <2>7, QuietTaken DEF Uncounted
  <2>9. \A u \in Threads \ {t} : TakeInv(u)' BY <1>1, <2>5, <2>6, QuietOthers DEF Uncounted
  <2>10. TakeInv(t)'
    <3>1. \A w \in before[t] : \E c \in Cells : c < H /\ cellVal[c] = w
      <4>1. ASSUME NEW w \in before[t] PROVE \E c \in Cells : c < H /\ cellVal[c] = w
        <5>1. w \in Values /\ got[w] = 1 BY TakeFacts
        <5>2. PICK c \in Cells : cellVal[c] = w /\ cellDeq[c] # Null
          BY <5>1 DEF Takes, TakenInv
        <5>3. c < H BY <5>2 DEF Takes, Parts, SharedInv, SpoiledCovered
        <5>4. QED BY <5>2, <5>3
      <4>2. QED BY <4>1
    <3>2. \A w \in before[t] : \E c \in Cells : c < H /\ cellVal'[c] = w
      BY <1>2, <3>1, SeenStays
    <3>3. QED BY <2>2, <2>3, <2>4, <2>5, <3>2 DEF TakeInv, Uncounted
  <2>11. QED BY <2>8, <2>9, <2>10 DEF Taken
<1>5. QED BY <1>3, <1>4

\* A dequeuer takes the value v of cell c, or returns the one it has taken.
LEMMA GainTaken ==
  ASSUME NEW t \in Threads, Takes(t), NEW v \in Values, got[v] = 0, NEW c \in Cells,
         cellVal[c] = v, cellDeq'[c] # Null,
         \A d \in Cells \ {c} : cellDeq'[d] = cellDeq[d],
         \A x \in Threads \ {t} : ~Carries(x, v),
         \A w \in Values : Carries(t, w) \/ Carries(t, w)' => w = v,
         UNCHANGED H, Tries(t) => cid[t] = c,
         got' \in [Values -> {0, 1}], \A w \in Values \ {v} : got'[w] = got[w],
         got'[v] = 1 \/ Carries(t, v)',
         before' \in [Threads -> SUBSET Values],
         \A u \in Threads \ {t} : before'[u] = before[u]
  PROVE  TakenInv' /\ \A u \in Threads \ {t} : TakeInv(u)'
<1>1. TakenInv BY DEF Takes
<1>2. /\ \A x \in Threads \ {t} :
           /\ pc'[x] = pc[x] /\ call'[x] = call[x] /\ cid'[x] = cid[x] /\ scan'[x] = scan[x]
  BY DEF Takes, Keeps, Others
<1>3. \A x \in Threads \ {t}, w \in Values : Carries(x, w) => Carries(x, w)'
  BY <1>2 DEF Carries, Scanning
<1>4. \A d \in Cells : cellVal[d] \in Words BY DEF Takes, Parts, SharedInv, SharedTyped
<1>5. \A w \in Values : got[w] = 1 => got'[w] = 1 OBVIOUS
<1>6. cellVal'[c] = v BY StoreBasics, ValueStays DEF Takes
<1>7. ASSUME NEW d \in Cells, cellDeq'[d] # Null
      PROVE  /\ IsValue(cellVal'[d])
             /\ \/ got'[cellVal'[d]] = 1
                \/ \E x \in Threads : Scanning(x)' /\ call'[x].val = cellVal'[d]
  <2>1. CASE d = c
    <3>1. Carries(t, v)' => Scanning(t)' /\ call'[t].val = v BY DEF Carries
    <3>2. QED BY <1>6, <2>1, <3>1, StoreBasics
  <2>2. CASE d # c
    <3>1. /\ IsValue(cellVal[d])
          /\ \/ got[cellVal[d]] = 1
             \/ \E x \in Threads : Carries(x, cellVal[d])
      BY <1>1, <1>7, <2>2 DEF TakenInv
    <3>2. cellVal'[d] = cellVal[d] BY <3>1, ValueStays DEF Takes
    <3>3. PICK w \in Values : w = cellVal[d] BY <1>4, <3>1, StoreBasics
    <3>4. \/ got'[w] = 1
          \/ \E x \in Threads : Carries(x, w)'
      BY <1>3, <1>5, <3>1, <3>3
    <3>5. QED BY <3>1, <3>2, <3>3, <3>4 DEF Carries, IsValue
  <2>3. QED BY <2>1, <2>2
<1>8. ASSUME NEW d \in Cells, d < H' PROVE cellDeq'[d] # Null \/ InHand(d)' \/ Dead(d)'
  <2>1. cellDeq[d] # Null \/ InHand(d) \/ Dead(d) BY <1>1, <1>8 DEF TakenInv
  <2>2. CASE Dead(d) BY <2>2, DeadStays DEF Takes
  <2>3. CASE InHand(d)
    <3>1. PICK x \in Threads : Tries(x) /\ cid[x] = d BY <2>3 DEF InHand
    <3>2. CASE x # t
      <4>1. Tries(x)' /\ cid'[x] = d BY <1>2, <3>1, <3>2 DEF Tries
      <4>2. QED BY <4>1 DEF InHand
    <3>3. CASE x = t BY <3>1, <3>3
    <3>4. QED BY <3>2, <3>3
  <2>4. QED BY <2>1, <2>2, <2>3
<1>9. ASSUME NEW w \in Values, got'[w] = 1
      PROVE  \E d \in Cells : cellVal'[d] = w /\ cellDeq'[d] # Null
  <2>1. CASE w = v BY <1>6, <2>1
  <2>2. CASE w # v
    <3>1. PICK d \in Cells : cellVal[d] = w /\ cellDeq[d] # Null
      BY <1>1, <1>9, <2>2 DEF TakenInv
    <3>2. IsValue(cellVal[d]) BY <3>1, StoreBasics
    <3>3. QED BY <3>1, <3>2, ValueStays DEF Takes
  <2>3. QED BY <2>1, <2>2
<1>10. TakenInv' BY <1>7, <1>8, <1>9 DEF TakenInv, Carries
<1>11. ASSUME NEW u \in Threads \ {t} PROVE TakeInv(u)'
  <2>1. \A w \in Values : Carries(u, w) => w # v OBVIOUS
  <2>2. \A d \in Cells : cellDeq[d] # Null => cellDeq'[d] # Null OBVIOUS
  <2>3. \A w \in Values : Carries(u, w) => got'[w] = got[w] /\ ~Carries(t, w)' BY <2>1
  <2>4. before'[u] = before[u] OBVIOUS
  <2>5. QED BY <1>5, <2>2, <2>3, <2>4, OthersTake
<1>12. QED BY <1>10, <1>11

\* The value that a call ends with is counted.
LEMMA OneCounted ==
  ASSUME NEW t \in Threads, Takes(t), Counts(t), pc[t] # "idle", NEW v \in Values,
         Return(t, "got", v), got[v] = 0
  PROVE  /\ got' \in [Values -> {0, 1}] /\ got'[v] = 1
         /\ \A w \in Values \ {v} : got'[w] = got[w]
         /\ before' \in [Threads -> SUBSET Values] /\ before'[t] = {}
         /\ \A u \in Threads \ {t} : before'[u] = before[u]
         /\ ~Scanning(t)' /\ TakeInv(t)' /\ \A w \in Values : ~Carries(t, w)'
<1>1. pc'[t] = "idle" /\ call'[t].kind = "got" /\ call'[t].val = v BY ReturnPc DEF Takes
<1>2. Ends(t, "got") BY <1>1 DEF Ends
<1>3. got' = [got EXCEPT ![v] = @ + 1] /\ before' = [before EXCEPT ![t] = {}]
  BY <1>1, <1>2 DEF Counts
<1>4. got \in [Values -> {0, 1}] /\ before \in [Threads -> SUBSET Values] BY TakeFacts
<1>5. ~Scanning(t)' BY <1>1 DEF Takes, Parts, ThreadInv, CallInv
<1>6. before'[t] = {} /\ \A u \in Threads \ {t} : before'[u] = before[u] BY <1>3, <1>4
<1>7. TakeInv(t)' BY <1>1, <1>5, <1>6 DEF TakeInv
<1>8. before' \in [Threads -> SUBSET Values] BY <1>3, <1>4
<1>9. /\ got' \in [Values -> {0, 1}] /\ got'[v] = 1
      /\ \A w \in Values \ {v} : got'[w] = got[w]
  BY <1>3, <1>4
<1>10. QED BY <1>5, <1>6, <1>7, <1>8, <1>9 DEF Carries

LEMMA DeqTakeTakes ==
  ASSUME NEW t \in Threads, Takes(t), Counts(t), DeqTake(t) PROVE Taken(t)
<1>1. pc[t] = "deq_take" /\ UNCHANGED H BY DEF DeqTake
<1>2. PICK v \in Values, c \in Cells : v = call[t].val /\ c = cid[t]
  BY <1>1, TakeFacts DEF Known, CallInv, CellInv
<1>3. cellVal[c] = v /\ ~Scanning(t) /\ Tries(t) /\ TakeInv(t)
  BY <1>1, <1>2, TakeFacts DEF Takes, TakeInv, Known, CallInv, DeqPcs, Tries
<1>4. CASE cellDeq[c] # Null
  <2>1. DeqFails(t) /\ UNCHANGED <<cellDeq, scan>> BY <1>2, <1>4 DEF DeqTake
  <2>2. QED BY <1>1, <1>2, <1>3, <1>4, <2>1, FailTakes
<1>5. CASE cellDeq[c] = Null
  <2>1. cellDeq' = [cellDeq EXCEPT ![c] = Topp] /\ DeqGot(t, v) BY <1>2, <1>5 DEF DeqTake
  <2>2. cellDeq'[c] # Null /\ \A d \in Cells \ {c} : cellDeq'[d] = cellDeq[d]
    BY <2>1, Basics DEF Takes, Parts, SharedInv, SharedTyped
  <2>3. \A d \in Cells : cellVal[d] = v => d = c
    BY <1>3, StoreBasics DEF Takes, Store, OneEach
  <2>4. got[v] = 0
    <3>1. got[v] = 1 => \E d \in Cells : cellVal[d] = v /\ cellDeq[d] # Null
      BY DEF Takes, TakenInv
    <3>2. got[v] \in {0, 1} BY TakeFacts
    <3>3. QED BY <1>5, <2>3, <3>1, <3>2
  <2>5. \A x \in Threads : ~Carries(x, v)
    <3>1. ASSUME NEW x \in Threads, Carries(x, v) PROVE FALSE
      <4>1. TakeInv(x) BY DEF Takes
      <4>2. cid[x] \in Cells /\ cellVal[cid[x]] = v /\ cellDeq[cid[x]] # Null
        BY <3>1, <4>1 DEF TakeInv, Carries
      <4>3. QED BY <1>5, <2>3, <4>2
    <3>2. QED BY <3>1
  <2>6. \A w \in Values : ~Carries(t, w) BY <1>3 DEF Carries
  <2>7. CASE call[t].kind = "deq_bfs"
    <3>1. Return(t, "got", v) BY <2>1, <2>7 DEF DeqGot
    <3>2. /\ got' \in [Values -> {0, 1}] /\ got'[v] = 1
          /\ \A w \in Values \ {v} : got'[w] = got[w]
          /\ before' \in [Threads -> SUBSET Values]
          /\ \A u \in Threads \ {t} : before'[u] = before[u]
          /\ TakeInv(t)' /\ \A w \in Values : ~Carries(t, w)'
      BY <1>1, <2>4, <3>1, OneCounted
    <3>3. TakenInv' /\ \A u \in Threads \ {t} : TakeInv(u)'
      BY <1>1, <1>2, <1>3, <2>2, <2>4, <2>5, <2>6, <3>2, GainTaken
    <3>4. QED BY <3>2, <3>3 DEF Taken
  <2>8. CASE call[t].kind # "deq_bfs"
    <3> DEFINE r == [call[t] EXCEPT !.val = v]
               s == [NoScan EXCEPT !.helpee = deqPeer[t]]
    <3>1. /\ GoTo(t, "scan_start") /\ call' = [call EXCEPT ![t] = r]
          /\ scan' = [scan EXCEPT ![t] = s] /\ UNCHANGED cid
      BY <2>1, <2>8 DEF DeqGot
    <3>2. call \in [Threads -> CallRecs] /\ call[t] \in CallRecs /\ scan \in [Threads -> ScanRecs]
          /\ deqPeer[t] \in Threads
      BY DEF Takes, Parts, LocalsTyped, SharedInv, SharedTyped
    <3>3. r.val = v /\ s.helpee \in Threads /\ ~s.state.pending
      BY <3>2, ScanFacts DEF CallRecs
    <3> HIDE DEF r, s
    <3>4. pc'[t] = "scan_start" BY <3>1, GoToPc DEF Takes
    <3>5. call'[t].val = v /\ scan'[t] = s BY <3>1, <3>2, <3>3
    <3>6. Scanning(t)' BY <3>3, <3>5, Basics DEF Scanning
    <3>7. Carries(t, v)' /\ \A w \in Values : Carries(t, w)' => w = v
      BY <3>5, <3>6 DEF Carries
    <3>8. Uncounted(t) /\ before'[t] = before[t] BY <3>4, NoneCounted DEF Ends
    <3>9. got \in [Values -> {0, 1}] BY TakeFacts
    <3>10. TakenInv' /\ \A u \in Threads \ {t} : TakeInv(u)'
      BY <1>1, <1>2, <1>3, <2>2, <2>4, <2>5, <2>6, <3>7, <3>8, <3>9, GainTaken
         DEF Uncounted
    <3>11. TakeInv(t)'
      <4>1. cellVal'[c] = v BY <1>3, StoreBasics, ValueStays DEF Takes
      <4>2. \A x \in Threads \ {t} : ~(Scanning(x)' /\ call'[x].val = v)
        BY <2>5 DEF Takes, Keeps, Others, Carries, Scanning
      <4>3. \A w \in before[t] : \E d \in Cells : d < c /\ cellVal[d] = w
        BY <1>2, <1>3 DEF TakeInv
      <4>4. \A w \in before[t] : \E d \in Cells : d < c /\ cellVal'[d] = w
        <5>1. c \in Nat BY Basics
        <5>2. QED BY <4>3, <5>1, SeenStays
      <4>5. cid'[t] = c /\ got'[v] = 0 BY <1>2, <2>4, <3>1, <3>8 DEF Uncounted
      <4>6. \A w \in before'[t] : got'[w] = 1 BY <3>8 DEF Uncounted
      <4>7. QED
        BY <2>2, <3>3, <3>4, <3>5, <3>8, <4>1, <4>2, <4>4, <4>5, <4>6
           DEF TakeInv, Carries
    <3>12. QED BY <3>10, <3>11 DEF Taken
  <2>9. QED BY <2>7, <2>8
<1>6. QED BY <1>4, <1>5

\* A thread that carries a value.
LEMMA CarryFacts ==
  ASSUME NEW t \in Threads, Takes(t), Scanning(t)
  PROVE  /\ call[t].val \in Values /\ call[t].val # Bottom /\ cid[t] \in Cells
         /\ cellVal[cid[t]] = call[t].val /\ cellDeq[cid[t]] # Null
         /\ got[call[t].val] = 0 /\ ~scan[t].state.pending /\ ~Tries(t)
         /\ scan[t].helpee \in Threads
         /\ \A x \in Threads \ {t} : ~Carries(x, call[t].val)
         /\ \A w \in before[t] : \E c \in Cells : c < cid[t] /\ cellVal[c] = w
<1>1. TakeInv(t) BY TakeFacts
<1>2. scan[t].helpee \in Threads BY TakeFacts DEF Known, Scanning
<1>3. QED BY <1>1, <1>2, TakeFacts DEF TakeInv

LEMMA ScanStartTakes ==
  ASSUME NEW t \in Threads, Takes(t), Counts(t), ScanStart(t) PROVE Taken(t)
<1>1. /\ pc[t] = "scan_start" /\ UNCHANGED <<H, cellDeq, call, cid>>
      /\ scan' = [scan EXCEPT ![t].state = deqState[scan[t].helpee]]
  BY DEF ScanStart, cells
<1>2. pc'[t] = "scan_first_id" BY GoToPc DEF ScanStart, Takes
<1>3. Scanning(t) BY <1>1, TakeFacts DEF Known, CallInv, ScanPcs
<1>4. PICK v \in Values, c \in Cells, r \in Threads :
        v = call[t].val /\ c = cid[t] /\ r = scan[t].helpee
  BY <1>3, CarryFacts
<1>5. scan'[t].helpee = r /\ scan'[t].state = deqState[r]
  BY <1>1, <1>4 DEF Takes, Parts, LocalsTyped, ScanRecs
<1>6. ~scan'[t].state.pending BY <1>5 DEF Takes, NoneAsked, AskedInv, State
<1>7. Scanning(t)' BY <1>5, Basics DEF Scanning
<1>8. \A w \in Values : Carries(t, w)' <=> Carries(t, w) BY <1>1, <1>3, <1>7 DEF Carries
<1>9. Uncounted(t) /\ before'[t] = before[t] BY <1>2, NoneCounted DEF Ends
<1>10. TakenInv'
  <2>1. ~Tries(t) /\ \A d \in Cells : d < H' => d < H BY <1>1, <1>3, CarryFacts
  <2>2. QED BY <1>1, <1>8, <1>9, <2>1, QuietTaken DEF Uncounted
<1>11. \A u \in Threads \ {t} : TakeInv(u)' BY <1>1, <1>8, <1>9, QuietOthers DEF Uncounted
<1>12. TakeInv(t)'
  <2>1. cellVal[c] = v /\ cellDeq[c] # Null /\ got[v] = 0 BY <1>3, <1>4, CarryFacts
  <2>2. cellVal'[c] = v BY <2>1, StoreBasics, ValueStays DEF Takes
  <2>3. \A x \in Threads \ {t} : ~(Scanning(x)' /\ call'[x].val = v)
    BY <1>3, <1>4, CarryFacts DEF Takes, Keeps, Others, Carries, Scanning
  <2>4. \A w \in before[t] : \E d \in Cells : d < c /\ cellVal'[d] = w
    <3>1. \A w \in before[t] : \E d \in Cells : d < c /\ cellVal[d] = w
      BY <1>3, <1>4, CarryFacts
    <3>2. c \in Nat BY Basics
    <3>3. QED BY <3>1, <3>2, SeenStays
  <2>5. /\ cid'[t] = c /\ call'[t].val = v /\ cellDeq'[c] # Null /\ got'[v] = 0
        /\ \A w \in before'[t] : got'[w] = 1
    BY <1>1, <1>4, <1>9, <2>1 DEF Uncounted
  <2>6. QED BY <1>2, <1>6, <1>9, <2>2, <2>3, <2>4, <2>5 DEF TakeInv, Carries
<1>13. QED BY <1>10, <1>11, <1>12 DEF Taken

LEMMA ScanFirstIdTakes ==
  ASSUME NEW t \in Threads, Takes(t), Counts(t), ScanFirstId(t) PROVE Taken(t)
<1>1. pc[t] = "scan_first_id" /\ UNCHANGED <<H, cellDeq>> BY DEF ScanFirstId, cells
<1>2. Scanning(t) BY <1>1, TakeFacts DEF Known, CallInv, ScanPcs
<1>3. PICK v \in Values, c \in Cells : v = call[t].val /\ c = cid[t] BY <1>2, CarryFacts
<1>4. /\ cellVal[c] = v /\ cellDeq[c] # Null /\ got[v] = 0 /\ ~scan[t].state.pending
      /\ ~Tries(t) /\ v # Bottom /\ \A x \in Threads \ {t} : ~Carries(x, v)
  BY <1>2, <1>3, CarryFacts
<1>5. ScanReturn(t) BY <1>4 DEF ScanFirstId
<1>6. Return(t, "got", v) BY <1>3, <1>4, <1>5 DEF ScanReturn
<1>7. /\ got' \in [Values -> {0, 1}] /\ got'[v] = 1
      /\ \A w \in Values \ {v} : got'[w] = got[w]
      /\ before' \in [Threads -> SUBSET Values]
      /\ \A u \in Threads \ {t} : before'[u] = before[u]
      /\ TakeInv(t)' /\ \A w \in Values : ~Carries(t, w)'
  BY <1>1, <1>4, <1>6, OneCounted
<1>8. \A w \in Values : Carries(t, w) => w = v BY <1>3 DEF Carries
<1>9. TakenInv' /\ \A u \in Threads \ {t} : TakeInv(u)'
  BY <1>1, <1>4, <1>7, <1>8, GainTaken
<1>10. QED BY <1>7, <1>9 DEF Taken

LEMMA BfsTakes ==
  ASSUME NEW t \in Threads, Takes(t), Counts(t), BfsLoadT(t) \/ BfsLoadH(t) PROVE Taken(t)
<1>1. pc[t] \in {"bfs_t", "bfs_h"} /\ UNCHANGED <<H, cellDeq>>
  BY DEF BfsLoadT, BfsLoadH, cells
<1>2. ~Scanning(t) /\ ~Tries(t)
  BY <1>1, TakeFacts DEF Known, CallInv, DeqPcs, Tries, HelpPcs, ReqPcs
<1>3. CASE Return(t, "empty", Bottom)
  <2>1. pc'[t] = "idle" /\ call'[t].kind = "empty" BY <1>3, ReturnPc DEF Takes
  <2>2. ~Scanning(t)' BY <2>1 DEF Takes, Parts, ThreadInv, CallInv
  <2>3. ~Tries(t)' /\ ~Ends(t, "got") BY <2>1 DEF Tries, Ends, HelpPcs, ReqPcs
  <2>4. QED BY <1>1, <1>2, <2>2, <2>3, NoneCounted, LeaveTakes
<1>4. CASE ~Return(t, "empty", Bottom)
  <2>1. \E p \in {"bfs_h", "deq_faa"} : GoTo(t, p) BY <1>4 DEF BfsLoadT, BfsLoadH
  <2>2. pc'[t] \in {"bfs_h", "deq_faa"} BY <2>1, GoToPc DEF Takes
  <2>3. ~Scanning(t)' BY <2>2 DEF Takes, Parts, ThreadInv, CallInv, DeqPcs
  <2>4. ~Tries(t)' /\ ~Ends(t, "got") BY <2>2 DEF Tries, Ends, HelpPcs, ReqPcs
  <2>5. QED BY <1>1, <1>2, <2>3, <2>4, NoneCounted, LeaveTakes
<1>5. QED BY <1>3, <1>4

\* The steps of help_deq and deq_slow that are not taken while none has asked for help.
LEMMA FewSteps ==
  ASSUME AskAssumption, NEW t \in Threads, Takes(t), DeqStep(t)
  PROVE  \/ DeqTicket(t) \/ DeqTake(t) \/ BfsLoadT(t) \/ BfsLoadH(t)
         \/ ScanStart(t) \/ ScanFirstId(t)
<1>1. ~SlowPublishId(t)
  <2>1. SlowPublishId(t) => ~NoneAsked' BY TakeFacts, SlowPublishIdAsked
  <2>2. QED BY <2>1 DEF Takes
<1>2. /\ pc[t] \notin {"slow_state", "slow_result", "slow_val", "slow_cover"}
      /\ pc[t] \in ScanPcs => pc[t] \in {"scan_start", "scan_first_id"}
  BY TakeFacts DEF Known, CallInv
<1>3. /\ ~SlowPublishState(t) /\ ~SlowResult(t) /\ ~SlowVal(t) /\ ~SlowCover(t)
  BY <1>2 DEF SlowPublishState, SlowResult, SlowVal, SlowCover
<1>4. /\ ~ScanState(t) /\ ~ScanId(t) /\ ~ScanCell(t) /\ ~ScanSeen(t) /\ ~ScanAnnounce(t)
      /\ ~SettleState(t) /\ ~SettleId(t) /\ ~SettleDeq(t) /\ ~SettleVal(t)
      /\ ~SettleTake(t) /\ ~SettleClose(t)
  BY <1>2
     DEF ScanState, ScanId, ScanCell, ScanSeen, ScanAnnounce, SettleState, SettleId,
         SettleDeq, SettleVal, SettleTake, SettleClose, ScanReload, ScanSame, ScanPcs, AskPcs
<1>5. QED BY <1>1, <1>3, <1>4 DEF DeqStep

LEMMA DeqStepTakes ==
  ASSUME AskAssumption, NEW t \in Threads, Takes(t), Counts(t), DeqStep(t) PROVE Taken(t)
BY FewSteps, DeqTicketTakes, DeqTakeTakes, BfsTakes, ScanStartTakes, ScanFirstIdTakes

\* Whoever has asked for help has asked for good.
LEMMA AskedBefore ==
  ASSUME AskAssumption, Parts, Parts', AskedInv, NEW t \in Threads,
         CallEnq(t) \/ CallDeq(t) \/ Inside(t), NoneAsked'
  PROVE  NoneAsked
<1>1. UNCHANGED deqId => NoneAsked BY DEF NoneAsked
<1>2. CASE CallEnq(t) \/ CallDeq(t)
  BY <1>1, <1>2 DEF CallEnq, CallDeq, EnqStart, DeqStart, deqReqs
<1>3. CASE Inside(t)
  <2>1. Asks(t) BY <1>3, InsideKeeps DEF Asks, LocalGood
  <2>2. ~SlowPublishId(t) BY <2>1, SlowPublishIdAsked
  <2>3. CASE EnqTicket(t) \/ EnqPut(t) \/ EnqSlowStep(t)
    BY <1>1, <2>3, EnqStepOff DEF EnqOff, deqReqs
  <2>4. CASE HelpEnqStep(t) BY <1>1, <2>4, HelpEnqStepOff DEF HelpOff, deqReqs
  <2>5. CASE DeqStep(t)
    <3>1. DeqStep(t) /\ ~SlowPublishId(t) => UNCHANGED deqId
      BY DEF DeqStep, DeqTicket, DeqTake, BfsLoadT, BfsLoadH, SlowPublishState, SlowResult,
             SlowVal, SlowCover, ScanStart, ScanFirstId, ScanState, ScanId, ScanCell,
             ScanSeen, ScanAnnounce, SettleState, SettleId, SettleDeq, SettleVal,
             SettleTake, SettleClose, ScanReload, ScanSame, deqReqs
    <3>2. QED BY <1>1, <2>2, <2>5, <3>1
  <2>6. QED BY <1>3, <2>3, <2>4, <2>5 DEF Inside, WfStep
<1>4. QED BY <1>2, <1>3

\* The pool has lasted until now, and the step keeps what there is.
LEMMA StepKeeps ==
  ASSUME ~ReuseRequests, Parts, Parts', StoreInv, InPool', NEW t \in Threads, Inside(t)
  PROVE  InPool /\ Store /\ Keeps(t)
<1>1. T \in Nat /\ H \in Nat /\ T' \in Nat BY DEF Parts, SharedInv, SharedTyped
<1>2. EndsGrow /\ LocalGood(t) BY InsideKeeps
<1>3. InPool /\ Store BY <1>1, <1>2, CellsAssumption DEF StoreInv, InPool, EndsGrow
<1>4. Stepped(t) BY <1>2, <1>3 DEF Stepped, LocalGood, Inside
<1>5. WfStep(t) /\ (pc[t] = "enq_val" => reqVal[t] = Bottom) BY DEF Inside, MayStep
<1>6. QED BY <1>3, <1>4, <1>5, InsideKept DEF Kept

LEMMA CallTakes ==
  ASSUME NEW t \in Threads, Takes(t), CallEnq(t) \/ CallDeq(t) PROVE Taken(t)
<1>1. /\ pc[t] = "idle" /\ UNCHANGED <<H, cellDeq, scan, got>>
      /\ \E p \in {"enq_faa", "deq_faa"} : GoTo(t, p)
  BY DEF CallEnq, CallDeq, EnqStart, DeqStart, cells
<1>2. pc'[t] \in {"enq_faa", "deq_faa"} BY <1>1, GoToPc DEF Takes
<1>3. ~Tries(t) /\ ~Tries(t)' BY <1>1, <1>2 DEF Tries, HelpPcs, ReqPcs
<1>4. ~Scanning(t) /\ ~Scanning(t)'
  BY <1>1, TakeFacts DEF Known, CallInv, Scanning
<1>5. Uncounted(t)
  <2>1. got \in [Values -> {0, 1}] /\ before \in [Threads -> SUBSET Values]
        /\ \A w \in before[t] : got[w] = 1
    BY TakeFacts
  <2>2. \/ before' = before
        \/ before' = [before EXCEPT ![t] = {v \in Values : got[v] > 0}]
    BY DEF CallEnq, CallDeq
  <2>3. \A v \in Values : got[v] > 0 => got[v] = 1
    <3>1. \A v \in Values : got[v] \in {0, 1} BY <2>1
    <3>2. QED BY <3>1
  <2>4. QED BY <1>1, <2>1, <2>2, <2>3 DEF Uncounted
<1>6. QED BY <1>1, <1>3, <1>4, <1>5, LeaveTakes

\* Every step keeps what is said of values taken, as long as none has asked for help.
LEMMA DequeueStep ==
  ASSUME ~ReuseRequests, AskAssumption, Parts, Parts', StoreInv, AskedInv, DequeueInv,
         NEW t \in Threads, CallEnq(t) \/ CallDeq(t) \/ Inside(t)
  PROVE  DequeueInv'
<1> SUFFICES ASSUME InPool', NoneAsked' PROVE TakenInv' /\ \A u \in Threads : TakeInv(u)'
  BY DEF DequeueInv
<1>1. NoneAsked BY AskedBefore
<1>2. CASE CallEnq(t) \/ CallDeq(t)
  <2>1. InPool /\ Store
    BY <1>2 DEF StoreInv, InPool, CallEnq, CallDeq, EnqStart, DeqStart
  <2>2. Keeps(t) BY <1>2, <2>1, CallEnqKept, CallDeqKept
  <2>3. Takes(t) BY <1>1, <2>1, <2>2 DEF Takes, DequeueInv
  <2>4. QED BY <1>2, <2>3, CallTakes DEF Taken
<1>3. CASE Inside(t)
  <2>1. InPool /\ Store /\ Keeps(t) BY <1>3, StepKeeps
  <2>2. Takes(t) BY <1>1, <2>1 DEF Takes, DequeueInv
  <2>3. Counts(t) /\ WfStep(t) BY <1>3 DEF Counts, Inside
  <2>4. Taken(t)
    BY <2>2, <2>3, EnqStepOff, EnqTakes, HelpEnqStepOff, HelpTakes, DeqStepTakes
       DEF WfStep, Takes
  <2>5. QED BY <2>4 DEF Taken
<1>4. QED BY <1>2, <1>3

LEMMA DequeueInit == ASSUME Init PROVE DequeueInv
<1>0. Passed \in Nat /\ Passed <= MaxEnqs /\ Passed <= NumCells /\ MaxEnqs \in Nat
  BY UseAssumption
<1>1. /\ H = Passed
      /\ cellVal = [c \in Cells |-> IF c < Passed THEN c + 1 ELSE Bottom]
      /\ cellDeq = [c \in Cells |-> IF c < Passed THEN Topp ELSE Null]
      /\ pc = [t \in Threads |-> "idle"] /\ scan = [t \in Threads |-> NoScan]
      /\ got = [v \in Values |-> IF v <= Passed THEN 1 ELSE 0]
      /\ before = [t \in Threads |-> {}]
  BY DEF Init, WfInit
<1>2. ASSUME NEW c \in Cells, c < Passed
      PROVE  cellVal[c] = c + 1 /\ c + 1 \in Values /\ cellDeq[c] # Null /\ got[c + 1] = 1
             /\ IsValue(cellVal[c])
  BY <1>0, <1>1, <1>2, Basics DEF Values, IsValue
<1>3. \A c \in Cells : cellDeq[c] # Null => c < Passed BY <1>1
<1>4. ASSUME NEW v \in Values, got[v] = 1
      PROVE  \E c \in Cells : cellVal[c] = v /\ cellDeq[c] # Null
  <2>1. v - 1 \in Cells /\ v - 1 < Passed
    BY <1>0, <1>1, <1>4, CellsAssumption DEF Cells, Values
  <2>2. cellVal[v - 1] = v BY <1>1, <2>1 DEF Values
  <2>3. QED BY <1>2, <2>1, <2>2
<1>5. TakenInv BY <1>1, <1>2, <1>3, <1>4 DEF TakenInv
<1>6. \A t \in Threads : TakeInv(t)
  <2>1. \A t \in Threads : ~Scanning(t) BY <1>1, ScanFacts DEF Scanning
  <2>2. QED BY <1>1, <2>1 DEF TakeInv
<1>7. QED BY <1>5, <1>6 DEF DequeueInv

-----------------------------------------------------------------------------
(***************************************************************************)
(* The theorems                                                            *)
(***************************************************************************)

\* What is shown to be inductive.
Fifo == Parts /\ FifoInv

\* A step that changes nothing keeps the invariants.
LEMMA StoreStutter == ASSUME StoreInv, UNCHANGED vars PROVE StoreInv'
<1>1. UNCHANGED <<T, H, cellVal, cellEnq, cellDeq, reqVal, reqState, deqId, deqState,
                  enqPeer, lastId, deqPeer, pc, call, cid, own, scan>>
  BY DEF vars, wfVars, cells, enqReqs, deqReqs, peers, locals
<1>2. UNCHANGED <<sent, deqs, done, got, older, before>> BY DEF vars, useVars
<1> SUFFICES ASSUME InPool' PROVE Store' BY DEF StoreInv
<1>3. Store BY <1>1 DEF InPool, StoreInv
<1>4. RequestsInv'
  BY <1>1, <1>2, <1>3 DEF Store, RequestsInv, Behind, Holds, Settled, Published, State
<1>5. CellsInv'
  <2>1. \A c \in Cells :
          /\ cellVal'[c] <= sent'
          /\ cellEnq'[c] \in Threads =>
               /\ Published(cellEnq[c])'
               /\ reqState'[cellEnq'[c]].pending => reqState'[cellEnq'[c]].low <= c
               /\ cellVal'[c] \in {Bottom, Top, reqVal'[cellEnq'[c]]}
          /\ cellEnq'[c] = Topp => cellVal'[c] = Top
          /\ cellVal'[c] = Bottom /\ cellEnq'[c] # Null => c < T'
    BY <1>1, <1>2, <1>3 DEF Store, CellsInv, Published
  <2>2. ASSUME NEW c \in Cells, NEW r \in Threads
        PROVE  (IsValue(cellVal[c]) /\ cellVal[c] = reqVal[r] => Settled(r, c))'
    BY <1>1, <1>3 DEF Store, CellsInv, Settled, Published, State, IsValue
  <2>3. ASSUME NEW c \in Cells, NEW v \in Values PROVE (Holds(c, v) => Behind(v, c))'
    <3>1. Holds(c, v)' => Holds(c, v) BY <1>1 DEF Holds, Settled, Published, State
    <3>2. Holds(c, v) => Behind(v, c) BY <1>3 DEF Store, CellsInv
    <3>3. Behind(v, c) => Behind(v, c)'
      BY <1>1, <1>2 DEF Behind, Holds, Settled, Published, State
    <3>4. QED BY <3>1, <3>2, <3>3
  <2>4. QED BY <2>1, <2>2, <2>3 DEF CellsInv
<1>6. OneEach' BY <1>1, <1>3 DEF Store, OneEach, IsValue
<1>7. DoneInv'
  BY <1>1, <1>2, <1>3 DEF Store, DoneInv, Holds, Settled, Published, State
<1>8. ASSUME NEW t \in Threads PROVE StoreThread(t)'
  <2>0. StoreThread(t) BY <1>3 DEF Store
  <2>1. FreshInv(t)' BY <1>1, <2>0 DEF StoreThread, FreshInv
  <2>2. TicketInv(t)' BY <1>1, <2>0 DEF StoreThread, TicketInv, IsValue
  <2>3. SlowInv(t)' BY <1>1, <2>0 DEF StoreThread, SlowInv
  <2>4. EnqOrderInv(t)'
    BY <1>1, <1>2, <2>0
    DEF StoreThread, EnqOrderInv, Behind, Holds, Settled, Published, State
  <2>5. HelpInv(t)'
    BY <1>1, <2>0
    DEF StoreThread, HelpInv, Dead, Published, State, At, Scanning, IsValue
  <2>6. QED BY <2>1, <2>2, <2>3, <2>4, <2>5 DEF StoreThread
<1>9. QED BY <1>4, <1>5, <1>6, <1>7, <1>8 DEF Store

LEMMA AskedStutter == ASSUME AskedInv, UNCHANGED vars PROVE AskedInv'
<1>1. UNCHANGED <<T, H, cellVal, cellEnq, cellDeq, reqVal, reqState, deqId, deqState,
                  enqPeer, lastId, deqPeer, pc, call, cid, own, scan>>
  BY DEF vars, wfVars, cells, enqReqs, deqReqs, peers, locals
<1>2. QED BY <1>1 DEF AskedInv, AskedThread, Scanning, State

LEMMA DequeueStutter == ASSUME DequeueInv, UNCHANGED vars PROVE DequeueInv'
<1>1. UNCHANGED <<T, H, cellVal, cellEnq, cellDeq, reqVal, reqState, deqId, deqState,
                  enqPeer, lastId, deqPeer, pc, call, cid, own, scan>>
  BY DEF vars, wfVars, cells, enqReqs, deqReqs, peers, locals
<1>2. UNCHANGED <<sent, deqs, done, got, older, before>> BY DEF vars, useVars
<1> SUFFICES ASSUME InPool', NoneAsked' PROVE TakenInv' /\ \A t \in Threads : TakeInv(t)'
  BY DEF DequeueInv
<1>3. TakenInv /\ \A t \in Threads : TakeInv(t)
  BY <1>1 DEF DequeueInv, InPool, NoneAsked
<1>4. TakenInv'
  BY <1>1, <1>2, <1>3
  DEF TakenInv, Carries, Scanning, InHand, Tries, Dead, IsValue
<1>5. ASSUME NEW t \in Threads PROVE TakeInv(t)'
  BY <1>1, <1>2, <1>3, <1>5 DEF TakeInv, Scanning, Carries, Tries
<1>6. QED BY <1>4, <1>5

LEMMA PartsNext == ASSUME Parts, [Next]_vars PROVE Parts'
<1>1. IInv' BY IInvParts, NextIInv
<1>2. IInv' => Parts' BY IInvParts, PTL
<1>3. QED BY <1>1, <1>2

LEMMA StoreNext ==
  ASSUME ~ReuseRequests PROVE Parts /\ StoreInv /\ [Next]_vars => (Parts /\ StoreInv)'
<1> SUFFICES ASSUME Parts, StoreInv, [Next]_vars PROVE Parts' /\ StoreInv' OBVIOUS
<1>1. Parts' BY PartsNext
<1>2. CASE Next
  <2>1. PICK t \in Threads : CallEnq(t) \/ CallDeq(t) \/ Inside(t) BY <1>2 DEF Next
  <2>2. QED BY <1>1, <2>1, StoreStep
<1>3. CASE UNCHANGED vars BY <1>1, <1>3, StoreStutter
<1>4. QED BY <1>2, <1>3

LEMMA FifoNext == ASSUME ~ReuseRequests, AskAssumption PROVE Fifo /\ [Next]_vars => Fifo'
<1> SUFFICES ASSUME Fifo, [Next]_vars PROVE Fifo' OBVIOUS
<1>0. Parts /\ StoreInv /\ AskedInv /\ DequeueInv BY DEF Fifo, FifoInv
<1>1. Parts' /\ StoreInv' BY <1>0, StoreNext
<1>2. CASE Next
  <2>1. PICK t \in Threads : CallEnq(t) \/ CallDeq(t) \/ Inside(t) BY <1>2 DEF Next
  <2>2. AskedInv' BY <1>0, <1>1, <2>1, AskedStep
  <2>3. DequeueInv' BY <1>0, <1>1, <2>1, DequeueStep
  <2>4. QED BY <1>1, <2>2, <2>3 DEF Fifo, FifoInv
<1>3. CASE UNCHANGED vars
  BY <1>0, <1>1, <1>3, AskedStutter, DequeueStutter DEF Fifo, FifoInv
<1>4. QED BY <1>2, <1>3

\* Values and their places: every published value is bound to one cell, every cell to
\* at most one value, and whatever was done when an enqueue began has its place below
\* the ticket of that enqueue, for every number of threads and cells, any patience, and
\* whether or not dequeuers help each other, while the pool lasts and each thread goes
\* through enq_slow at most once.
THEOREM StoreInvariance == ASSUME ~ReuseRequests PROVE Spec => []StoreInv
<1>1. Init => Parts /\ StoreInv
  <2> SUFFICES ASSUME Init PROVE Parts /\ StoreInv OBVIOUS
  <2>1. Parts BY InitIInv, IInvParts
  <2>2. QED BY <2>1, StoreInit DEF StoreInv
<1>2. Parts /\ StoreInv /\ [Next]_vars => (Parts /\ StoreInv)' BY StoreNext
<1>3. QED BY <1>1, <1>2, PTL DEF Spec

\* Owner and helpers may all commit a value (enq_slow and help_enq both end in the
\* store to the cell of the request), and a request may leave for a cell while its
\* enqueuer tries another: no value gets into two cells.
THEOREM StoredInOneCell == ASSUME ~ReuseRequests PROVE Spec => []StoredOnce
<1>1. StoreInv => StoredOnce BY DEF StoreInv, Store, StoredOnce
<1>2. QED BY <1>1, StoreInvariance, PTL

\* The whole invariant, with what dequeuers have taken and are about to take.
THEOREM FifoInvariance ==
  ASSUME ~ReuseRequests, AskAssumption PROVE Spec => [](Parts /\ FifoInv)
<1>1. Init => Fifo
  <2> SUFFICES ASSUME Init PROVE Fifo OBVIOUS
  <2>1. Parts BY InitIInv, IInvParts
  <2>2. QED BY <2>1, StoreInit, AskedInit, DequeueInit DEF Fifo, FifoInv, StoreInv
<1>2. Fifo /\ [Next]_vars => Fifo' BY FifoNext
<1>3. Fifo => Parts /\ FifoInv BY DEF Fifo
<1>4. QED BY <1>1, <1>2, <1>3, PTL DEF Spec

\* As long as no dequeuer has asked for help, wf_dequeue and wf_dequeue_bfs return no
\* value twice: a value is taken by the one dequeuer that claims its cell, and is in one
\* cell only.
THEOREM DequeuedOnceUnasked ==
  ASSUME ~ReuseRequests, AskAssumption PROVE Spec => [](InPool /\ NoneAsked => DequeuedOnce)
<1>1. Parts /\ FifoInv => (InPool /\ NoneAsked => DequeuedOnce)
  <2> SUFFICES ASSUME FifoInv, InPool, NoneAsked, NEW v \in Values PROVE got[v] <= 1
    BY DEF DequeuedOnce
  <2>1. got \in [Values -> {0, 1}] BY DEF FifoInv, DequeueInv, TakenInv
  <2>2. QED BY <2>1
<1>2. QED BY <1>1, FifoInvariance, PTL

\* A value that was put is in its cell when all is quiet.
LEMMA NoneIsLost == ASSUME Fifo PROVE NoneLost
<1> SUFFICES ASSUME Quiet, NoneAnnounced, T <= NumCells, NEW v \in done, ~(got[v] > 0)
             PROVE  \E c \in Cells : c >= H /\ InCell(v, c)
  BY DEF NoneLost
<1>0. Parts /\ FifoInv BY DEF Fifo
<1>1. Store /\ AskedInv BY <1>0 DEF FifoInv, StoreInv, InPool
<1>2. NoneAsked
  <2>1. ASSUME NEW r \in Threads PROVE deqId[r] = 0
    <3>1. deqState[r] = State(FALSE, 0) /\ pc[r] = "idle" BY DEF NoneAnnounced, Quiet
    <3>2. QED BY <1>1, <3>1 DEF AskedInv
  <2>2. QED BY <2>1 DEF NoneAsked
<1>3. TakenInv BY <1>0, <1>2 DEF FifoInv, DequeueInv, InPool
<1>4. \A t \in Threads : ~Tries(t) /\ ~Scanning(t)
  <2>1. ASSUME NEW t \in Threads PROVE ~Tries(t) /\ ~Scanning(t)
    <3>1. pc[t] = "idle" /\ Known(t) BY <1>0, LocalFacts DEF Quiet
    <3>2. QED BY <3>1 DEF Known, CallInv, Tries, HelpPcs, ReqPcs
  <2>2. QED BY <2>1
<1>5. v \in Values /\ \E c \in Cells : c < T /\ Holds(c, v) BY <1>1 DEF Store, DoneInv
<1>6. PICK c \in Cells : Holds(c, v) BY <1>5
<1>7. H \in Nat /\ c \in Nat /\ cellVal[c] \in Words /\ got[v] \in {0, 1}
  BY <1>0, <1>3, <1>5, Basics DEF Parts, SharedInv, SharedTyped, TakenInv
<1>8. \/ cellVal[c] = v
      \/ /\ cellEnq[c] \in Threads /\ Settled(cellEnq[c], c) /\ reqVal[cellEnq[c]] = v
         /\ cellVal[c] \in {Bottom, Top}
  BY <1>1, <1>6 DEF Holds, Store, CellsInv
<1>9. c >= H
  <2> SUFFICES ASSUME c < H PROVE FALSE BY <1>7
  <2>1. cellDeq[c] # Null \/ Dead(c) BY <1>3, <1>4 DEF TakenInv, InHand
  <2>2. CASE Dead(c)
    <3>1. cellVal[c] = Top BY <2>2 DEF Dead
    <3>2. cellEnq[c] \in Threads /\ Settled(cellEnq[c], c) BY <1>5, <1>8, <3>1, StoreBasics
    <3>3. c \in Nat BY <1>7
    <3>4. reqState[cellEnq[c]].low = c BY <3>2, <3>3, Basics DEF Settled, State
    <3>5. reqState[cellEnq[c]].low # c BY <2>2, <3>2 DEF Dead
    <3>6. QED BY <3>4, <3>5
  <2>3. CASE cellDeq[c] # Null
    <3>1. /\ IsValue(cellVal[c])
          /\ \/ got[cellVal[c]] = 1
             \/ \E t \in Threads : Carries(t, cellVal[c])
      BY <1>3, <2>3 DEF TakenInv
    <3>2. cellVal[c] = v BY <1>8, <3>1, StoreBasics DEF IsValue
    <3>3. got[v] = 1 BY <1>4, <3>1, <3>2 DEF Carries
    <3>4. QED BY <3>3
  <2>4. QED BY <2>1, <2>2, <2>3
<1>10. cellVal[c] # Top
  BY <1>7, <1>9 DEF Fifo, Parts, SharedInv, SpoiledCovered
<1>11. InCell(v, c) BY <1>8, <1>10 DEF InCell, Settled
<1>12. QED BY <1>9, <1>11

\* A value whose enqueue returned true has been dequeued or is in a cell that dequeuers
\* have still to draw, when all is quiet, none has asked for help and the pool lasts.
THEOREM NoneAreLost == ASSUME ~ReuseRequests, AskAssumption PROVE Spec => []NoneLost
<1>1. Parts /\ FifoInv => NoneLost BY NoneIsLost DEF Fifo
<1>2. QED BY <1>1, FifoInvariance, PTL

-----------------------------------------------------------------------------
\* A dequeue that returns a value has it from the cell it drew.
LEMMA GotFromCell ==
  ASSUME AskAssumption, NEW t \in Threads, Takes(t), WfStep(t), Ends(t, "got")
  PROVE  /\ cid[t] \in Cells /\ call'[t].val \in Values
         /\ cellVal[cid[t]] = call'[t].val
         /\ Tries(t) \/ Scanning(t)
<1>1. pc'[t] = "idle" /\ call'[t].kind = "got" BY DEF Ends
<1>2. ASSUME NEW kind, NEW v, Return(t, kind, v) PROVE kind = "got" /\ call'[t].val = v
  BY <1>1, <1>2, ReturnPc DEF Takes
<1>3. \A p : GoTo(t, p) => p = "idle" BY <1>1, GoToPc DEF Takes
<1>4. CASE EnqTicket(t) \/ EnqPut(t) \/ EnqSlowStep(t)
  <2>1. EnqOff(t) BY <1>4, EnqStepOff DEF Takes
  <2>2. QED BY <1>1, <1>2, <2>1 DEF EnqOff, EnqPcs
<1>5. CASE HelpEnqStep(t)
  <2>1. HelpOff(t) BY <1>5, HelpEnqStepOff DEF Takes
  <2>2. pc[t] \in HelpPcs /\ ~Scanning(t) BY <2>1, TakeFacts DEF HelpOff, Tries
  <2>3. PICK v : Helped(t, v) BY <1>1, <2>1 DEF HelpOff, HelpPcs, ReqPcs
  <2>4. HelpedFast(t, v) BY <2>2, <2>3 DEF Helped
  <2>5. ~Return(t, "empty", Bottom) BY <1>2
  <2>6. ~DeqFails(t) BY <1>1, DeqFailsPc DEF Takes
  <2>7. QED BY <1>3, <2>4, <2>5, <2>6 DEF HelpedFast
<1>6. CASE DeqStep(t)
  <2>1. CASE DeqTicket(t) BY <1>2, <1>3, <2>1 DEF DeqTicket
  <2>2. CASE DeqTake(t)
    <3>1. pc[t] = "deq_take" BY <2>2 DEF DeqTake
    <3>2. /\ cid[t] \in Cells /\ call[t].val \in Values /\ cellVal[cid[t]] = call[t].val
          /\ Tries(t)
      BY <3>1, TakeFacts DEF Known, CallInv, CellInv, TakeInv, Tries
    <3>3. ~DeqFails(t) BY <1>1, DeqFailsPc DEF Takes
    <3>4. DeqGot(t, call[t].val) BY <2>2, <3>3 DEF DeqTake
    <3>5. Return(t, "got", call[t].val) BY <1>3, <3>4 DEF DeqGot
    <3>6. QED BY <1>2, <3>2, <3>5
  <2>3. CASE BfsLoadT(t) BY <1>3, <2>3 DEF BfsLoadT
  <2>4. CASE BfsLoadH(t) BY <1>2, <1>3, <2>4 DEF BfsLoadH
  <2>5. CASE ScanStart(t) BY <1>3, <2>5 DEF ScanStart
  <2>6. CASE ScanFirstId(t)
    <3>1. pc[t] = "scan_first_id" BY <2>6 DEF ScanFirstId
    <3>2. Scanning(t) BY <3>1, TakeFacts DEF Known, CallInv, ScanPcs
    <3>3. ScanReturn(t) BY <2>6, <3>2, CarryFacts DEF ScanFirstId
    <3>4. Return(t, "got", call[t].val) BY <3>2, <3>3, CarryFacts DEF ScanReturn
    <3>5. QED BY <1>2, <3>2, <3>4, CarryFacts
  <2>7. QED BY <1>6, <2>1, <2>2, <2>3, <2>4, <2>5, <2>6, FewSteps
<1>7. QED BY <1>4, <1>5, <1>6 DEF WfStep

\* Whatever was put before the value of a cell has its place before it.
LEMMA PlacesInOrder ==
  ASSUME Parts, Store, NEW c \in Cells, NEW d \in Cells, NEW v \in Values, NEW w \in Values,
         cellVal[c] = v, cellVal[d] = w, v \in older[w]
  PROVE  c < d
<1>1. Holds(d, w) BY DEF Holds
<1>2. Behind(w, d) BY <1>1 DEF Store, CellsInv
<1>3. PICK e \in Cells : e < d /\ Holds(e, v) BY <1>2 DEF Behind
<1>4. IsValue(v) BY StoreBasics
<1>5. CASE cellVal[e] = v BY <1>3, <1>4, <1>5 DEF Store, OneEach
<1>6. CASE cellEnq[e] \in Threads /\ Settled(cellEnq[e], e) /\ reqVal[cellEnq[e]] = v
  <2>1. Settled(cellEnq[e], c) BY <1>4, <1>6 DEF Store, CellsInv
  <2>2. e \in Nat /\ c \in Nat BY Basics
  <2>3. State(FALSE, e) = State(FALSE, c) BY <1>6, <2>1 DEF Settled
  <2>4. e = c BY <2>2, <2>3 DEF State
  <2>5. QED BY <1>3, <2>4
<1>7. QED BY <1>3, <1>5, <1>6 DEF Holds

\* A dequeue that ends returns no value older than one that was out when it began.
LEMMA OldestStep ==
  ASSUME ~ReuseRequests, AskAssumption, Fifo, Fifo', InPool', NoneAsked', NEW t \in Threads,
         CallEnq(t) \/ CallDeq(t) \/ Inside(t), NEW u \in Threads, Ends(u, "got"),
         NEW w \in before[u]
  PROVE  call'[u].val \notin older[w]
<1>0. Parts /\ Parts' /\ FifoInv BY DEF Fifo
<1>1. Inside(t)
  <2>1. CallEnq(t) \/ CallDeq(t) => ~Ends(u, "got")
    BY <1>0 DEF CallEnq, CallDeq, EnqStart, DeqStart, Ends, GoTo, Parts, LocalsTyped
  <2>2. QED BY <2>1
<1>2. InPool /\ Store /\ Keeps(t) BY <1>0, <1>1, StepKeeps DEF FifoInv
<1>3. NoneAsked BY <1>0, <1>1, AskedBefore DEF FifoInv
<1>4. Takes(t) BY <1>0, <1>2, <1>3 DEF Takes, FifoInv, DequeueInv
<1>5. u = t BY <1>2 DEF Keeps, Others, Ends
<1>6. PICK v \in Values, c \in Cells : /\ v = call'[t].val /\ c = cid[t] /\ cellVal[c] = v
                                       /\ Tries(t) \/ Scanning(t)
  BY <1>1, <1>4, <1>5, GotFromCell DEF Inside
<1>7. w \in Values BY <1>4, <1>5, TakeFacts
<1>8. PICK d \in Cells : d < c /\ cellVal[d] = w
  BY <1>4, <1>5, <1>6, TakeFacts DEF TakeInv
<1>9. c \in Nat /\ d \in Nat BY Basics
<1>10. v \notin older[w] BY <1>0, <1>2, <1>6, <1>7, <1>8, <1>9, PlacesInOrder
<1>11. QED BY <1>5, <1>6, <1>10

\* First in, first out between calls that do not overlap, as long as the pool lasts and
\* no dequeuer has asked for help.
THEOREM FirstOutUnasked ==
  ASSUME ~ReuseRequests, AskAssumption PROVE Spec /\ [](InPool /\ NoneAsked) => OldestFirst
<1> DEFINE Out == \A t \in Threads : Ends(t, "got") =>
                    \A w \in before[t] : call'[t].val \notin older[w]
<1>1. Fifo /\ Fifo' /\ (InPool /\ NoneAsked)' /\ [Next]_vars => [Out]_vars
  <2> SUFFICES ASSUME Fifo, Fifo', InPool', NoneAsked', Next PROVE Out OBVIOUS
  <2>1. PICK t \in Threads : CallEnq(t) \/ CallDeq(t) \/ Inside(t) BY DEF Next
  <2>2. QED BY <2>1, OldestStep
<1>2. Parts /\ FifoInv => Fifo BY DEF Fifo
<1>3. QED BY <1>1, <1>2, FifoInvariance, PTL DEF Spec, OldestFirst
===============================================================================
