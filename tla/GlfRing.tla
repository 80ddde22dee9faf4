-------------------------------- MODULE GlfRing -------------------------------
(***************************************************************************)
(* The ring of the GLFQ queue (fq_ring_t, glf_queue.hpp): a lock-free FIFO *)
(* of small indices in 2N slots.  A thread takes a ticket from tail or     *)
(* head, goes to the slot of that ticket and settles there, by the cycle   *)
(* written in the slot, whether it has met its partner.  threshold counts  *)
(* how many more tickets dequeuers may waste before the ring counts as     *)
(* empty.                                                                  *)
(*                                                                         *)
(* Each step makes one atomic access to the ring.  tail and head are 64    *)
(* bits wide in the program and do not wrap here; cycles keep their width. *)
(* The lanes of a wavefront take their tickets one by one here: the        *)
(* program takes them with one addition for all of them, which comes to    *)
(* the same (BatchIsARun in GlfRingLemmas).                                *)
(***************************************************************************)
EXTENDS Integers, FiniteSets

CONSTANTS
  Threads,   \* threads that use the ring
  N,         \* FQ_N, the number of indices
  CycleMod,  \* number of values of a cycle, 2 ^ FQ_CYCLE_BITS
  Catchups   \* tries of catchup, 32 in the program

\* What the program's constants satisfy; whoever uses rings assumes it of each.
RingAssumptions ==
  /\ IsFiniteSet(Threads) /\ Threads # {}
  /\ N \in Nat \ {0}
  /\ CycleMod \in Nat /\ CycleMod >= 2 /\ CycleMod % 2 = 0
  /\ Catchups \in Nat \ {0}

VARIABLES
  tail, head, threshold, entry,   \* struct fq_ring_t
  pc,      \* step of the call each thread is in
  tkt,     \* its ticket, T or H
  idx,     \* argument of an enqueue, result of a dequeue
  ent,     \* E, the entry as it was last read
  goal,    \* catchup: the tail it saw, the tail it wants, tries made
  lap      \* history: the cycle written in each slot, not cut to CycleMod values

ringVars == <<tail, head, threshold, entry, lap>>
callVars == <<pc, tkt, idx, ent, goal>>
ring == <<ringVars, callVars>>

NumSlots == 2 * N
ThreshMax == 3 * N - 1
Slots == 0 .. NumSlots - 1
Indices == 0 .. N - 1
Bot == N          \* FQ_BOT: two values that are no index
BotC == N + 1     \* FQ_BOT_C

Entries == [cycle : 0 .. CycleMod - 1, safe : BOOLEAN, index : 0 .. N + 1]

LapOf(n) == n \div NumSlots
CycleOf(n) == LapOf(n) % CycleMod
\* cache_remap only renames the slots: no two positions share one (RemapPermutes in
\* GlfRingLemmas).
Slot(n) == n % NumSlots

\* cache_remap for slots positions, perLine to a cache line: neighbours do not share
\* one.  pos & (perLine - 1) is pos % perLine, since perLine is a power of two.
cache_remap(pos, slots, perLine) ==
  (pos % perLine) * (slots \div perLine) + (pos \div perLine)

\* wave_batched_faa_divergent: the leader of the lanes that are active together, mask,
\* adds their number to the counter, which was base ...
counterAfter(base, mask) == base + Cardinality(mask)

\* ... and a lane's ticket is as far from base as there are active lanes below it.
wave_batched_faa_divergent(base, mask, lane) == base + Cardinality({l \in mask : l < lane})

\* cycle_cmp: the sign of a - b, as far as CycleMod values can tell.
Ahead(a, b) == (a - b) % CycleMod \in 1 .. (CycleMod \div 2) - 1
Behind(a, b) == a # b /\ ~Ahead(a, b)

Real(e) == e.index \in Indices

Fresh == [cycle |-> 0, safe |-> TRUE, index |-> Bot]
NoGoal == [tail |-> 0, head |-> 0, tries |-> 0]

InitCalls ==
  /\ pc = [t \in Threads |-> "idle"]
  /\ tkt = [t \in Threads |-> 0]
  /\ idx = [t \in Threads |-> Bot]
  /\ ent = [t \in Threads |-> Fresh]
  /\ goal = [t \in Threads |-> NoGoal]

InitEmpty ==
  /\ tail = NumSlots /\ head = NumSlots /\ threshold = -1
  /\ entry = [s \in Slots |-> Fresh]
  /\ lap = [s \in Slots |-> 0]
  /\ InitCalls

InitFull ==
  /\ tail = NumSlots + N /\ head = NumSlots /\ threshold = ThreshMax
  /\ entry = [s \in Slots |->
       IF s < N THEN [cycle |-> CycleOf(NumSlots), safe |-> TRUE, index |-> s]
                ELSE Fresh]
  /\ lap = [s \in Slots |-> IF s < N THEN 1 ELSE 0]
  /\ InitCalls

(***************************************************************************)
(* Bound on stalls: no ticket is taken that is half the range of cycles    *)
(* away from what is written in a slot, or from the ticket of a thread     *)
(* that sleeps at one ("safe to 127").                                     *)
(***************************************************************************)
DeqAtSlot == {"deq_load", "deq_cas", "deq_consume"}
AtSlot == {"enq_load", "enq_head", "enq_cas"} \cup DeqAtSlot

Near(k, j) == k - j < CycleMod \div 2 /\ j - k < CycleMod \div 2

WithinCycles(n) ==
  /\ \A s \in Slots : Near(LapOf(n), lap[s])
  /\ \A t \in Threads : pc[t] \in AtSlot => Near(LapOf(n), LapOf(tkt[t]))

\* A definition that no action uses is a slip of the code: it stands in for the
\* definition after it in a mutant, which a property must notice.

GoTo(t, next) == pc' = [pc EXCEPT ![t] = next]

\* Locals are gone when a call returns.
Return(t, result) ==
  /\ pc' = [pc EXCEPT ![t] = "idle"]
  /\ idx' = [idx EXCEPT ![t] = result]
  /\ tkt' = [tkt EXCEPT ![t] = 0]
  /\ ent' = [ent EXCEPT ![t] = Fresh]
  /\ goal' = [goal EXCEPT ![t] = NoGoal]

(***************************************************************************)
(* fq_enqueue                                                              *)
(***************************************************************************)
EnqStart(t, i) ==
  /\ pc[t] = "idle"
  /\ GoTo(t, "enq_faa")
  /\ idx' = [idx EXCEPT ![t] = i]
  /\ UNCHANGED <<ringVars, tkt, ent, goal>>

EnqTicket(t) ==
  /\ pc[t] = "enq_faa"
  /\ WithinCycles(tail)
  /\ tail' = tail + 1
  /\ tkt' = [tkt EXCEPT ![t] = tail]
  /\ GoTo(t, "enq_load")
  /\ UNCHANGED <<head, threshold, entry, lap, idx, ent, goal>>

AfterEnqLookBlind(e, n) ==
  IF ~Behind(e.cycle, CycleOf(n)) \/ Real(e) THEN "enq_faa" ELSE "enq_cas"

AfterEnqLookAnyCycle(e, n) ==
  IF ~e.safe THEN "enq_head" ELSE IF Real(e) THEN "enq_faa" ELSE "enq_cas"

\* What an enqueuer with ticket n does about entry e; head is read only when
\* the entry is not safe.
AfterEnqLook(e, n) ==
  IF ~Behind(e.cycle, CycleOf(n)) THEN "enq_faa"
  ELSE IF ~e.safe THEN "enq_head"
  ELSE IF Real(e) THEN "enq_faa" ELSE "enq_cas"

EnqLook(t) ==
  LET e == entry[Slot(tkt[t])]
  IN /\ ent' = [ent EXCEPT ![t] = e]
     /\ GoTo(t, AfterEnqLook(e, tkt[t]))

EnqLoad(t) ==
  /\ pc[t] = "enq_load"
  /\ EnqLook(t)
  /\ UNCHANGED <<ringVars, tkt, idx, goal>>

EnqHead(t) ==
  /\ pc[t] = "enq_head"
  /\ GoTo(t, IF head <= tkt[t] /\ ~Real(ent[t]) THEN "enq_cas" ELSE "enq_faa")
  /\ UNCHANGED <<ringVars, tkt, idx, ent, goal>>

Insert(t) ==
  /\ entry[Slot(tkt[t])] = ent[t]
  /\ entry' = [entry EXCEPT ![Slot(tkt[t])] =
       [cycle |-> CycleOf(tkt[t]), safe |-> TRUE, index |-> idx[t]]]
  /\ lap' = [lap EXCEPT ![Slot(tkt[t])] = LapOf(tkt[t])]
  /\ GoTo(t, "enq_threshold")
  /\ UNCHANGED ent

EnqCasBlind(t) ==
  /\ pc[t] = "enq_cas"
  /\ \/ Insert(t)
     \/ entry[Slot(tkt[t])] # ent[t] /\ UNCHANGED <<entry, lap, pc, ent>>
  /\ UNCHANGED <<tail, head, threshold, tkt, idx, goal>>

EnqCas(t) ==
  /\ pc[t] = "enq_cas"
  /\ \/ Insert(t)
     \/ /\ entry[Slot(tkt[t])] # ent[t]
        /\ EnqLook(t)
        /\ UNCHANGED <<entry, lap>>
  /\ UNCHANGED <<tail, head, threshold, tkt, idx, goal>>

EnqThresholdForgotten(t) ==
  /\ pc[t] = "enq_threshold"
  /\ Return(t, Bot)
  /\ UNCHANGED ringVars

EnqThreshold(t) ==
  /\ pc[t] = "enq_threshold"
  /\ \/ /\ threshold = ThreshMax
        /\ Return(t, Bot)
     \/ /\ threshold # ThreshMax
        /\ GoTo(t, "enq_reset")
        /\ UNCHANGED <<tkt, idx, ent, goal>>
  /\ UNCHANGED ringVars

EnqReset(t) ==
  /\ pc[t] = "enq_reset"
  /\ threshold' = ThreshMax
  /\ Return(t, Bot)
  /\ UNCHANGED <<tail, head, entry, lap>>

(***************************************************************************)
(* fq_dequeue                                                              *)
(***************************************************************************)
DeqStart(t) ==
  /\ pc[t] = "idle"
  /\ idx' = [idx EXCEPT ![t] = Bot]
  /\ GoTo(t, IF threshold < 0 THEN "idle" ELSE "deq_faa")
  /\ UNCHANGED <<ringVars, tkt, ent, goal>>

DeqTicket(t) ==
  /\ pc[t] = "deq_faa"
  /\ WithinCycles(head)
  /\ head' = head + 1
  /\ tkt' = [tkt EXCEPT ![t] = head]
  /\ GoTo(t, "deq_load")
  /\ UNCHANGED <<tail, threshold, entry, lap, idx, ent, goal>>

AfterDeqLook(e, n) ==
  IF e.cycle = CycleOf(n) /\ Real(e) THEN "deq_consume"
  ELSE IF Behind(e.cycle, CycleOf(n)) THEN "deq_cas" ELSE "deq_tail"

DeqLook(t) ==
  LET e == entry[Slot(tkt[t])]
  IN /\ ent' = [ent EXCEPT ![t] = e]
     /\ GoTo(t, AfterDeqLook(e, tkt[t]))

DeqLoad(t) ==
  /\ pc[t] = "deq_load"
  /\ DeqLook(t)
  /\ UNCHANGED <<ringVars, tkt, idx, goal>>

DeqConsumeForgotten(t) ==
  /\ pc[t] = "deq_consume"
  /\ Return(t, ent[t].index)
  /\ UNCHANGED ringVars

DeqConsume(t) ==
  /\ pc[t] = "deq_consume"
  /\ entry' = [entry EXCEPT ![Slot(tkt[t])].index = BotC]
  /\ Return(t, ent[t].index)
  /\ UNCHANGED <<tail, head, threshold, lap>>

SpoiledBlind(e, n) == [e EXCEPT !.cycle = CycleOf(n), !.index = Bot]

\* What a dequeuer with ticket n that came too early leaves behind: its cycle
\* in an empty entry, no more than a mark in one that is still in use.
Spoiled(e, n) ==
  IF Real(e) THEN [e EXCEPT !.safe = FALSE]
             ELSE [e EXCEPT !.cycle = CycleOf(n), !.index = Bot]

DeqCas(t) ==
  /\ pc[t] = "deq_cas"
  /\ \/ /\ entry[Slot(tkt[t])] = ent[t]
        /\ entry' = [entry EXCEPT ![Slot(tkt[t])] = Spoiled(ent[t], tkt[t])]
        /\ lap' = [lap EXCEPT ![Slot(tkt[t])] =
                     IF Real(ent[t]) THEN @ ELSE LapOf(tkt[t])]
        /\ GoTo(t, "deq_tail")
        /\ UNCHANGED ent
     \/ /\ entry[Slot(tkt[t])] # ent[t]
        /\ DeqLook(t)
        /\ UNCHANGED <<entry, lap>>
  /\ UNCHANGED <<tail, head, threshold, tkt, idx, goal>>

DeqTail(t) ==
  /\ pc[t] = "deq_tail"
  /\ \/ /\ tail <= tkt[t] + 1
        /\ goal' = [goal EXCEPT ![t] = [tail |-> tail, head |-> tkt[t] + 1, tries |-> 0]]
        /\ GoTo(t, "cu_cas")
     \/ /\ tail > tkt[t] + 1
        /\ GoTo(t, "deq_retry")
        /\ UNCHANGED goal
  /\ UNCHANGED <<ringVars, tkt, idx, ent>>

\* atomicSub(&q->threshold, 1) after tickets that tail has passed
DeqRetry(t) ==
  /\ pc[t] = "deq_retry"
  /\ threshold' = threshold - 1
  /\ \/ /\ threshold <= 0
        /\ Return(t, Bot)
     \/ /\ threshold > 0
        /\ GoTo(t, "deq_faa")
        /\ UNCHANGED <<tkt, idx, ent, goal>>
  /\ UNCHANGED <<tail, head, entry, lap>>

\* ... and after catchup
DeqEmpty(t) ==
  /\ pc[t] = "deq_empty"
  /\ threshold' = threshold - 1
  /\ Return(t, Bot)
  /\ UNCHANGED <<tail, head, entry, lap>>

(***************************************************************************)
(* catchup: brings tail up to head, so that enqueuers skip spoiled slots   *)
(***************************************************************************)
CatchupCas(t) ==
  /\ pc[t] = "cu_cas"
  /\ \/ /\ tail = goal[t].tail
        /\ tail' = goal[t].head
        /\ GoTo(t, "deq_empty")
        /\ UNCHANGED goal
     \/ /\ tail # goal[t].tail
        /\ goal' = [goal EXCEPT ![t].tries = @ + 1]
        /\ GoTo(t, "cu_head")
        /\ UNCHANGED tail
  /\ UNCHANGED <<head, threshold, entry, lap, tkt, idx, ent>>

CatchupHead(t) ==
  /\ pc[t] = "cu_head"
  /\ goal' = [goal EXCEPT ![t].head = head]
  /\ GoTo(t, "cu_tail")
  /\ UNCHANGED <<ringVars, tkt, idx, ent>>

CatchupTail(t) ==
  /\ pc[t] = "cu_tail"
  /\ goal' = [goal EXCEPT ![t].tail = tail]
  /\ GoTo(t, IF tail >= goal[t].head \/ goal[t].tries = Catchups
             THEN "deq_empty" ELSE "cu_cas")
  /\ UNCHANGED <<ringVars, tkt, idx, ent>>

EnqStep(t) ==
  \/ EnqTicket(t) \/ EnqLoad(t) \/ EnqHead(t) \/ EnqCas(t)
  \/ EnqThreshold(t) \/ EnqReset(t)

DeqStep(t) ==
  \/ DeqTicket(t) \/ DeqLoad(t) \/ DeqConsume(t) \/ DeqCas(t) \/ DeqTail(t)
  \/ DeqRetry(t) \/ DeqEmpty(t)
  \/ CatchupCas(t) \/ CatchupHead(t) \/ CatchupTail(t)

RingStep(t) == EnqStep(t) \/ DeqStep(t)

EnqPcs == {"enq_faa", "enq_load", "enq_head", "enq_cas", "enq_threshold", "enq_reset"}
CatchupPcs == {"cu_cas", "cu_head", "cu_tail"}
DeqPcs == {"deq_faa", "deq_load", "deq_consume", "deq_cas", "deq_tail", "deq_retry",
           "deq_empty"} \cup CatchupPcs

\* Every variable keeps its range.  threshold, a signed counter that dequeuers
\* decrement without looking, goes below zero by at most one per thread.
RingTypeOK ==
  /\ tail \in Nat /\ head \in Nat
  /\ threshold \in -Cardinality(Threads) .. ThreshMax
  /\ entry \in [Slots -> Entries]
  /\ lap \in [Slots -> Nat]
  /\ pc \in [Threads -> {"idle"} \cup EnqPcs \cup DeqPcs]
  /\ tkt \in [Threads -> Nat]
  /\ idx \in [Threads -> 0 .. N]
  /\ ent \in [Threads -> Entries]
  /\ goal \in [Threads -> [tail : Nat, head : Nat, tries : 0 .. Catchups]]
===============================================================================
