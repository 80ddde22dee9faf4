-------------------------------- MODULE GwfRing -------------------------------
(***************************************************************************)
(* One ring of the wait-free queue GWFQ (gwf_queue.hpp, gwf_ring.hpp).     *)
(* The fast path is that of GLFQ.  A thread that fails too often publishes *)
(* a request in its record; it and the threads that help it then take      *)
(* tickets for the request together (slow_faa), so that all of them try    *)
(* the same slot.                                                          *)
(*                                                                         *)
(* Each step makes one access to shared memory; only the fields between    *)
(* two sequence numbers are stored or read in one step, since whoever      *)
(* reads them discards them when a sequence number moved.  The two sides   *)
(* of a ring, tail and head, share the code of slow_faa and its actions.   *)
(***************************************************************************)
EXTENDS Integers, FiniteSets

CONSTANTS
  NumThreads,   \* threads, each with its record
  N,            \* N_PARAM: number of indices in circulation
  CycleMod,     \* CYCLE_RANGE
  EnqTries,     \* WF_ENQ_PATIENCE - 1
  DeqTries,     \* WF_DEQ_PATIENCE - 1
  HelpDelay,    \* WF_HELP_DELAY
  Catchups      \* CATCHUP_LIMIT

ASSUME SizesAssumption ==
  /\ NumThreads \in Nat \ {0} /\ N \in Nat /\ NumThreads <= N
  /\ CycleMod \in Nat /\ CycleMod > 2 * ((HelpDelay * NumThreads) \div (2 * N) + 3)
  /\ CycleMod % 2 = 0
ASSUME KnobsAssumption ==
  {EnqTries, DeqTries, HelpDelay, Catchups} \subseteq Nat \ {0}

VARIABLES
  ctr,        \* Tail and Head: a counter and the thread whose phase 2 is under way
  threshold,  \* Threshold
  entry,      \* Entry
  loc,        \* localTail and localHead of each record
  req,        \* the rest of a request: seq1, seq2, enqueue, pending, index, initTail and initHead
  p2,         \* phase2 of each record: seq1, seq2, local, cnt
  turn,       \* nextCheck and nextTid
  me          \* locals of the call each thread is in

records == <<loc, req, p2>>
gwf == <<ctr, threshold, entry, records, turn, me>>

Threads == 0 .. NumThreads - 1
NoTid == -1      \* NULL_TID
NextTid(t) == (t + 1) % NumThreads
Sides == {"tail", "head"}

NumSlots == 2 * N
ThreshMax == 3 * N - 1
Slots == 0 .. NumSlots - 1
Indices == 0 .. N - 1
Bot == N         \* BOT
BotC == N + 1    \* BOT_C

CycleOf(n) == (n \div NumSlots) % CycleMod
\* slot_idx; with CACHE_REMAP it only renames the slots (RemapPermutes in GlfRingLemmas).
Slot(n) == n % NumSlots

\* cycle_cmp
Behind(a, b) == (a - b) % CycleMod >= CycleMod \div 2

Real(e) == e.index \in Indices

\* wf_entry::INIT; the note 0xFF is -1
Fresh == [note |-> CycleMod - 1, cycle |-> 0, safe |-> TRUE, enq |-> TRUE, index |-> Bot]

\* A word of localTail or localHead, and of Tail or Head.
Word(n) == [cnt |-> n, inc |-> FALSE, fin |-> FALSE]
WithInc(n) == [Word(n) EXCEPT !.inc = TRUE]
WithFin(n) == [Word(n) EXCEPT !.fin = TRUE]
Global(n, tid) == [cnt |-> n, tid |-> tid]

NoGoal == [tail |-> 0, head |-> 0, tid |-> NoTid, tries |-> 0]
NoJob == [rec |-> NoTid, side |-> "none", index |-> Bot, v |-> Word(0), cnt |-> 0, seq |-> 0]
NoDep == [rec |-> NoTid, cnt |-> 0, seq |-> 0, side |-> "none", of |-> NoTid, v |-> 0]
Idle == [pc |-> "idle",    \* step of the call
         kind |-> "none",  \* "enq" or "deq"
         index |-> Bot,    \* argument or result
         tries |-> 0,      \* of the fast path, left
         tkt |-> 0,        \* T or H
         ent |-> Fresh,    \* E, Pair: the entry as it was last read
         goal |-> NoGoal,  \* catchup: the tail and head it saw, tries made
         job |-> NoJob,    \* slow path: record worked for, side, index, *v, cnt, seq
         dep |-> NoDep]    \* record of another thread: finalize_request, phase 2

\* wf_init
InitRecords ==
  /\ loc = [s \in Sides |-> [t \in Threads |-> Word(0)]]
  /\ req = [t \in Threads |-> [seq1 |-> 1, seq2 |-> 0, enq |-> FALSE, pending |-> FALSE,
                               index |-> 0, start |-> [s \in Sides |-> 0]]]
  /\ p2 = [t \in Threads |-> [seq1 |-> 1, seq2 |-> 0, side |-> "none", of |-> NoTid, v |-> 0]]

InitEmpty ==
  /\ ctr = [s \in Sides |-> Global(NumSlots, NoTid)]
  /\ threshold = -1
  /\ entry = [s \in Slots |-> Fresh]
  /\ me = [t \in Threads |-> Idle]
  /\ turn = [t \in Threads |-> [left |-> HelpDelay, next |-> t]]
  /\ InitRecords

\* wf_mpmc_init: fq
InitFull ==
  /\ ctr = [s \in Sides |-> Global(IF s = "tail" THEN NumSlots + N ELSE NumSlots, NoTid)]
  /\ threshold = ThreshMax
  /\ entry = [s \in Slots |->
       IF s < N THEN [Fresh EXCEPT !.cycle = 1, !.index = s] ELSE Fresh]
  /\ me = [t \in Threads |-> Idle]
  /\ turn = [t \in Threads |-> [left |-> HelpDelay, next |-> t]]
  /\ InitRecords

At(t, step) == me[t].pc = step
GoTo(t, next) == me' = [me EXCEPT ![t].pc = next]

\* What is left of a call's locals when one attempt ends and the next begins.
Anew(m, next) == [Idle EXCEPT !.pc = next, !.kind = m.kind, !.index = m.index, !.tries = m.tries]

\* A call ends; its locals are gone.
Return(t, result) == me' = [me EXCEPT ![t] = [Idle EXCEPT !.index = result]]

(***************************************************************************)
(* Enqueue_wf and Dequeue_wf begin; nextCheck and nextTid belong to the    *)
(* thread alone                                                            *)
(***************************************************************************)
FastPath(kind) == IF kind = "enq" THEN "enq_faa" ELSE "deq_faa"

\* help_threads: is it time to look at another record?
Begin(t, kind, i) ==
  /\ turn' = [turn EXCEPT ![t].left = @ - 1]
  /\ me' = [me EXCEPT ![t] =
       [Idle EXCEPT !.pc = IF turn[t].left = 1 THEN "help_pending" ELSE FastPath(kind),
                    !.kind = kind, !.index = i,
                    !.tries = IF kind = "enq" THEN EnqTries ELSE DeqTries]]

EnqStart(t, i) ==
  /\ At(t, "idle")
  /\ Begin(t, "enq", i)
  /\ UNCHANGED <<ctr, threshold, entry, records>>

DeqStart(t) ==
  /\ At(t, "idle")
  /\ IF threshold < 0
     THEN Return(t, Bot) /\ UNCHANGED turn
     ELSE Begin(t, "deq", Bot)
  /\ UNCHANGED <<ctr, threshold, entry, records>>

(***************************************************************************)
(* try_enq                                                                 *)
(***************************************************************************)
\* The next try, or the slow path for the thread's own request.
NextTry(t) ==
  LET m == me[t]
      slow == [Anew(m, "req_local") EXCEPT !.job =
                [NoJob EXCEPT !.rec = t, !.index = m.index, !.v = Word(m.tkt),
                              !.side = IF m.kind = "enq" THEN "tail" ELSE "head"]]
  IN me' = [me EXCEPT ![t] = IF m.tries = 0 THEN slow ELSE Anew(m, FastPath(m.kind))]

\* gwf_fastpath_batched_faa: the lanes of a wave take their tickets one by one.
\* The thread in the word stays.
TakeTicket(t, side, at, next) ==
  /\ At(t, at)
  /\ ctr' = [ctr EXCEPT ![side].cnt = @ + 1]
  /\ me' = [me EXCEPT ![t].pc = next, ![t].tkt = ctr[side].cnt, ![t].tries = @ - 1]
  /\ UNCHANGED <<threshold, entry, records, turn>>

EnqTicket(t) == TakeTicket(t, "tail", "enq_faa", "enq_load")

\* What an enqueuer with ticket n does about entry e; head is read only when the
\* entry is not safe.
AfterEnqLook(e, n) ==
  IF ~Behind(e.cycle, CycleOf(n)) THEN "enq_fail"
  ELSE IF ~e.safe THEN "enq_head"
  ELSE IF Real(e) THEN "enq_fail" ELSE "enq_cas"

EnqLook(t) ==
  LET e == entry[Slot(me[t].tkt)]
      next == AfterEnqLook(e, me[t].tkt)
  IN IF next = "enq_fail"
     THEN NextTry(t)
     ELSE me' = [me EXCEPT ![t].pc = next, ![t].ent = e]

EnqLoad(t) ==
  /\ At(t, "enq_load")
  /\ EnqLook(t)
  /\ UNCHANGED <<ctr, threshold, entry, records, turn>>

EnqHead(t) ==
  /\ At(t, "enq_head")
  /\ IF ctr["head"].cnt <= me[t].tkt /\ ~Real(me[t].ent)
     THEN GoTo(t, "enq_cas")
     ELSE NextTry(t)
  /\ UNCHANGED <<ctr, threshold, entry, records, turn>>

\* The entry a producer leaves; the note of the slot stays.
Produced(e, n, i, enq) ==
  [note |-> e.note, cycle |-> CycleOf(n), safe |-> TRUE, enq |-> enq, index |-> i]

\* cas64_update of an entry from what the thread saw to e.
Replaces(t, e) ==
  LET s == Slot(me[t].tkt)
  IN entry[s] = me[t].ent /\ entry' = [entry EXCEPT ![s] = e]
Missed(t) == entry[Slot(me[t].tkt)] # me[t].ent /\ UNCHANGED entry

EnqCas(t) ==
  /\ At(t, "enq_cas")
  /\ \/ /\ Replaces(t, Produced(me[t].ent, me[t].tkt, me[t].index, TRUE))
        /\ GoTo(t, "enq_threshold")
     \/ Missed(t) /\ EnqLook(t)
  /\ UNCHANGED <<ctr, threshold, records, turn>>

EnqThresholdForgotten(t) ==
  /\ At(t, "enq_threshold")
  /\ Return(t, Bot)
  /\ UNCHANGED <<ctr, threshold, entry, records, turn>>

EnqThreshold(t) ==
  /\ At(t, "enq_threshold")
  /\ IF threshold = ThreshMax THEN Return(t, Bot) ELSE GoTo(t, "enq_reset")
  /\ UNCHANGED <<ctr, threshold, entry, records, turn>>

EnqReset(t) ==
  /\ At(t, "enq_reset")
  /\ threshold' = ThreshMax
  /\ Return(t, Bot)
  /\ UNCHANGED <<ctr, entry, records, turn>>

(***************************************************************************)
(* try_deq, consume, finalize_request                                      *)
(***************************************************************************)
DeqTicket(t) == TakeTicket(t, "head", "deq_faa", "deq_load")

\* consume: the item of a request that may still be pending needs its enqueuer told.
Consume(t, e) ==
  me' = [me EXCEPT ![t].index = e.index, ![t].ent = e,
           ![t].pc = IF e.enq \/ NextTid(t) = t THEN "deq_consume" ELSE "fin_load",
           ![t].dep.rec = IF e.enq THEN NoTid ELSE NextTid(t)]

AfterDeqLookAnyCycle(e, n) ==
  IF Real(e) THEN "deq_consume"
  ELSE IF Behind(e.cycle, CycleOf(n)) THEN "deq_cas" ELSE "deq_tail"

AfterDeqLook(e, n) ==
  IF e.cycle = CycleOf(n) /\ Real(e) THEN "deq_consume"
  ELSE IF Behind(e.cycle, CycleOf(n)) THEN "deq_cas" ELSE "deq_tail"

DeqLook(t) ==
  LET e == entry[Slot(me[t].tkt)]
      next == AfterDeqLook(e, me[t].tkt)
  IN IF next = "deq_consume"
     THEN Consume(t, e)
     ELSE me' = [me EXCEPT ![t].pc = next, ![t].ent = e]

DeqLoad(t) ==
  /\ At(t, "deq_load")
  /\ DeqLook(t)
  /\ UNCHANGED <<ctr, threshold, entry, records, turn>>

\* finalize_request: looks for the record whose localTail is the ticket, whatever its bits.
FinLoad(t) ==
  /\ At(t, "fin_load")
  /\ LET r == me[t].dep.rec
     IN me' = [me EXCEPT
          ![t].pc = IF loc["tail"][r].cnt = me[t].tkt THEN "fin_cas"
                    ELSE IF NextTid(r) = t THEN "deq_consume" ELSE "fin_load",
          ![t].dep.rec = IF loc["tail"][r].cnt = me[t].tkt THEN r ELSE NextTid(r)]
  /\ UNCHANGED <<ctr, threshold, entry, records, turn>>

\* A compare-and-swap of localTail or localHead from the bare ticket to FIN.
Finish(side, r, n) ==
  loc' = IF loc[side][r] = Word(n) THEN [loc EXCEPT ![side][r] = WithFin(n)] ELSE loc

FinCas(t) ==
  /\ At(t, "fin_cas")
  /\ Finish("tail", me[t].dep.rec, me[t].tkt)
  /\ GoTo(t, "deq_consume")
  /\ UNCHANGED <<ctr, threshold, entry, req, p2, turn>>

\* atomicOr with CONSUME_MASK
DeqConsume(t) ==
  /\ At(t, "deq_consume")
  /\ LET s == Slot(me[t].tkt)
     IN entry' = [entry EXCEPT ![s].index = BotC, ![s].enq = TRUE]
  /\ Return(t, me[t].index)
  /\ UNCHANGED <<ctr, threshold, records, turn>>

\* What a dequeuer that came too early leaves behind.
Spoiled(e, n) ==
  IF Real(e) THEN [e EXCEPT !.safe = FALSE]
             ELSE [e EXCEPT !.cycle = CycleOf(n), !.enq = TRUE, !.index = Bot]

DeqCas(t) ==
  /\ At(t, "deq_cas")
  /\ \/ Replaces(t, Spoiled(me[t].ent, me[t].tkt)) /\ GoTo(t, "deq_tail")
     \/ Missed(t) /\ DeqLook(t)
  /\ UNCHANGED <<ctr, threshold, records, turn>>

\* Is there nothing left to find?  Then catchup, else next.
LookTail(t, next) ==
  LET T == ctr["tail"].cnt
      H == me[t].tkt
  IN me' = IF T <= H + 1
           THEN [me EXCEPT ![t].pc = "cu_load",
                           ![t].goal = [NoGoal EXCEPT !.tail = T, !.head = H + 1]]
           ELSE [me EXCEPT ![t].pc = next]

DeqTail(t) ==
  /\ At(t, "deq_tail")
  /\ LookTail(t, "deq_retry")
  /\ UNCHANGED <<ctr, threshold, entry, records, turn>>

DeqRetry(t) ==
  /\ At(t, "deq_retry")
  /\ threshold' = threshold - 1
  /\ IF threshold <= 0 THEN Return(t, Bot) ELSE NextTry(t)
  /\ UNCHANGED <<ctr, entry, records, turn>>

\* atomicSub(&q->Threshold, 1) after catchup
DeqEmpty(t) ==
  /\ At(t, "deq_empty")
  /\ threshold' = threshold - 1
  /\ Return(t, Bot)
  /\ UNCHANGED <<ctr, entry, records, turn>>

(***************************************************************************)
(* catchup, called by try_deq and try_deq_slow                             *)
(***************************************************************************)
AfterCatchup(t) == IF me[t].job = NoJob THEN "deq_empty" ELSE "sd_threshold"

\* Round g of catchup's loop is over, tail and head as in it.
CatchupRound(t, g) ==
  me' = [me EXCEPT ![t].goal = IF g.tail >= g.head \/ g.tries + 1 = Catchups
                               THEN NoGoal ELSE [g EXCEPT !.tries = @ + 1, !.tid = NoTid],
                   ![t].pc = IF g.tail >= g.head \/ g.tries + 1 = Catchups
                             THEN AfterCatchup(t) ELSE "cu_load"]

CatchupLoad(t) ==
  /\ At(t, "cu_load")
  /\ LET cur == ctr["tail"]
         g == me[t].goal
     IN me' = [me EXCEPT
          ![t].pc = IF cur.cnt >= g.head THEN AfterCatchup(t)
                    ELSE IF cur.cnt # g.tail THEN "cu_head" ELSE "cu_cas",
          ![t].goal = IF cur.cnt >= g.head THEN NoGoal
                      ELSE [g EXCEPT !.tail = cur.cnt, !.tid = cur.tid]]
  /\ UNCHANGED <<ctr, threshold, entry, records, turn>>

\* Tail had moved.
CatchupHead(t) ==
  /\ At(t, "cu_head")
  /\ CatchupRound(t, [me[t].goal EXCEPT !.head = ctr["head"].cnt])
  /\ UNCHANGED <<ctr, threshold, entry, records, turn>>

CatchupCas(t) ==
  /\ At(t, "cu_cas")
  /\ LET g == me[t].goal
     IN IF ctr["tail"] = Global(g.tail, g.tid)
        THEN /\ ctr' = [ctr EXCEPT !["tail"].cnt = g.head]
             /\ me' = [me EXCEPT ![t].pc = AfterCatchup(t), ![t].goal = NoGoal]
        ELSE GoTo(t, "cu_again") /\ UNCHANGED ctr
  /\ UNCHANGED <<threshold, entry, records, turn>>

CatchupAgain(t) ==
  /\ At(t, "cu_again")
  /\ me' = [me EXCEPT ![t].pc = "cu_tail", ![t].goal.head = ctr["head"].cnt]
  /\ UNCHANGED <<ctr, threshold, entry, records, turn>>

CatchupTail(t) ==
  /\ At(t, "cu_tail")
  /\ CatchupRound(t, [me[t].goal EXCEPT !.tail = ctr["tail"].cnt])
  /\ UNCHANGED <<ctr, threshold, entry, records, turn>>

FastStep(t) ==
  \/ EnqTicket(t) \/ EnqLoad(t) \/ EnqHead(t) \/ EnqCas(t) \/ EnqThreshold(t) \/ EnqReset(t)
  \/ DeqTicket(t) \/ DeqLoad(t) \/ FinLoad(t) \/ FinCas(t) \/ DeqConsume(t) \/ DeqCas(t)
  \/ DeqTail(t) \/ DeqRetry(t) \/ DeqEmpty(t)
  \/ CatchupLoad(t) \/ CatchupHead(t) \/ CatchupCas(t) \/ CatchupAgain(t) \/ CatchupTail(t)
===============================================================================
