-------------------------------- MODULE GwfSlow -------------------------------
(***************************************************************************)
(* The slow path of a GWFQ ring and the helping of other threads           *)
(* (gwf_ring.hpp): how a request is published, the shared fetch-and-add    *)
(* slow_faa with its two phases, try_enq_slow, try_deq_slow, help_threads. *)
(* A thread works for the record me[t].job.rec: its own, or that of a      *)
(* thread it helps.                                                        *)
(***************************************************************************)
EXTENDS GwfRing

\* A definition that no action uses is a slip of the code: it stands in for the
\* definition after it in a mutant, which a property must notice.

Job(t) == me[t].job

(***************************************************************************)
(* Enqueue_wf, Dequeue_wf: a request is published, and closed again        *)
(***************************************************************************)
PublishLocal(t) ==
  /\ At(t, "req_local")
  /\ loc' = [loc EXCEPT ![Job(t).side][t] = Job(t).v]
  /\ GoTo(t, "req_fields")
  /\ UNCHANGED <<ctr, threshold, entry, req, p2, turn>>

PublishFields(t) ==
  /\ At(t, "req_fields")
  /\ req' = [req EXCEPT ![t].start[Job(t).side] = Job(t).v.cnt,
                        ![t].index = IF Job(t).side = "tail" THEN Job(t).index ELSE @,
                        ![t].enq = Job(t).side = "tail"]
  /\ GoTo(t, "req_seq2")
  /\ UNCHANGED <<ctr, threshold, entry, loc, p2, turn>>

PublishSeq(t) ==
  /\ At(t, "req_seq2")
  /\ req' = [req EXCEPT ![t].seq2 = req[t].seq1]
  /\ GoTo(t, "req_pending")
  /\ UNCHANGED <<ctr, threshold, entry, loc, p2, turn>>

PublishPending(t) ==
  /\ At(t, "req_pending")
  /\ req' = [req EXCEPT ![t].pending = TRUE]
  /\ GoTo(t, "faa_local")
  /\ UNCHANGED <<ctr, threshold, entry, loc, p2, turn>>

CloseRequest(t) ==
  /\ At(t, "req_close")
  /\ req' = [req EXCEPT ![t].pending = FALSE]
  /\ GoTo(t, "req_seq1")
  /\ UNCHANGED <<ctr, threshold, entry, loc, p2, turn>>

RetireRequest(t) ==
  /\ At(t, "req_seq1")
  /\ req' = [req EXCEPT ![t].seq1 = @ + 1]
  /\ IF me[t].kind = "enq" THEN Return(t, Bot) ELSE GoTo(t, "gather_local")
  /\ UNCHANGED <<ctr, threshold, entry, loc, p2, turn>>

\* Gather slow-path result
GatherLocal(t) ==
  /\ At(t, "gather_local")
  /\ me' = [me EXCEPT ![t].pc = "gather_entry", ![t].tkt = loc["head"][t].cnt]
  /\ UNCHANGED <<ctr, threshold, entry, records, turn>>

GatherEntry(t) ==
  /\ At(t, "gather_entry")
  /\ LET e == entry[Slot(me[t].tkt)]
     IN IF e.cycle = CycleOf(me[t].tkt) /\ Real(e) THEN Consume(t, e) ELSE Return(t, Bot)
  /\ UNCHANGED <<ctr, threshold, entry, records, turn>>

HelpEndsNoReset(t) ==
  /\ turn' = [turn EXCEPT ![t].next = NextTid(@)]
  /\ me' = [me EXCEPT ![t] = Anew(@, FastPath(@.kind))]

\* help_threads returns, and the thread goes on with its own call.
HelpEnds(t) ==
  /\ turn' = [turn EXCEPT ![t] = [left |-> HelpDelay, next |-> NextTid(@.next)]]
  /\ me' = [me EXCEPT ![t] = Anew(@, FastPath(@.kind))]

\* enqueue_slow or dequeue_slow returns.
JobEnds(t) ==
  IF Job(t).rec = t THEN GoTo(t, "req_close") /\ UNCHANGED turn ELSE HelpEnds(t)

(***************************************************************************)
(* slow_faa.  Phase 1 marks the local counter INC; phase 2, which any      *)
(* thread may finish through the record named in the global word, clears   *)
(* the mark once the global counter has moved.                             *)
(***************************************************************************)
FaaLocal(t) ==
  /\ At(t, "faa_local")
  /\ IF loc[Job(t).side][Job(t).rec].fin
     THEN JobEnds(t)
     ELSE /\ me' = [me EXCEPT ![t].pc = "faa_global", ![t].tkt = 0, ![t].ent = Fresh]
          /\ UNCHANGED turn
  /\ UNCHANGED <<ctr, threshold, entry, records>>

FaaGlobal(t) ==
  /\ At(t, "faa_global")
  /\ LET g == ctr[Job(t).side]
     IN me' = [me EXCEPT
          ![t].pc = IF g.tid = NoTid THEN "faa_claim" ELSE "p2_seq2",
          ![t].job.cnt = g.cnt,
          ![t].dep.rec = g.tid]
  /\ UNCHANGED <<ctr, threshold, entry, records, turn>>

HelpP2Seq2(t) ==
  /\ At(t, "p2_seq2")
  /\ me' = [me EXCEPT ![t].pc = "p2_fields", ![t].dep.seq = p2[me[t].dep.rec].seq2]
  /\ UNCHANGED <<ctr, threshold, entry, records, turn>>

HelpP2Fields(t) ==
  /\ At(t, "p2_fields")
  /\ LET p == p2[me[t].dep.rec]
     IN me' = [me EXCEPT ![t].pc = "p2_seq1", ![t].dep.side = p.side, ![t].dep.of = p.of,
                         ![t].dep.v = p.v]
  /\ UNCHANGED <<ctr, threshold, entry, records, turn>>

HelpP2Seq1(t) ==
  /\ At(t, "p2_seq1")
  /\ GoTo(t, IF p2[me[t].dep.rec].seq1 = me[t].dep.seq THEN "p2_inc" ELSE "p2_clear")
  /\ UNCHANGED <<ctr, threshold, entry, records, turn>>

\* The INC mark is cleared whatever ticket it goes with.
ClearIncAny(side, r, n) ==
  loc' = IF loc[side][r].inc THEN [loc EXCEPT ![side][r] = Word(n)] ELSE loc

\* A compare-and-swap of a local counter from n with INC to n.
ClearInc(side, r, n) ==
  loc' = IF loc[side][r] = WithInc(n) THEN [loc EXCEPT ![side][r] = Word(n)] ELSE loc

HelpP2Inc(t) ==
  /\ At(t, "p2_inc")
  /\ ClearInc(me[t].dep.side, me[t].dep.of, me[t].dep.v)
  /\ GoTo(t, "p2_clear")
  /\ UNCHANGED <<ctr, threshold, entry, req, p2, turn>>

HelpP2Clear(t) ==
  /\ At(t, "p2_clear")
  /\ LET side == Job(t).side
         won == ctr[side] = Global(Job(t).cnt, me[t].dep.rec)
     IN /\ ctr' = IF won THEN [ctr EXCEPT ![side].tid = NoTid] ELSE ctr
        /\ me' = [me EXCEPT ![t].pc = IF won THEN "faa_claim" ELSE "faa_local",
                            ![t].dep = NoDep]
  /\ UNCHANGED <<threshold, entry, records, turn>>

\* The attempt with ticket n; slow_faa has returned true.
Attempt(t, n) ==
  me' = [me EXCEPT ![t].pc = IF Job(t).side = "tail" THEN "se_load" ELSE "sd_load",
                   ![t].tkt = n, ![t].job.v = Word(n), ![t].job.cnt = 0]

FaaClaim(t) ==
  /\ At(t, "faa_claim")
  /\ LET j == Job(t)
         cur == loc[j.side][j.rec]
         mark == IF cur = j.v THEN WithInc(j.cnt) ELSE cur
     IN /\ loc' = [loc EXCEPT ![j.side][j.rec] = mark]
        /\ IF mark.fin THEN JobEnds(t)
           ELSE /\ IF mark.inc
                   THEN me' = [me EXCEPT ![t].pc = "pub_seq1", ![t].job.v = mark,
                                         ![t].job.cnt = mark.cnt]
                   ELSE Attempt(t, mark.cnt)
                /\ UNCHANGED turn
  /\ UNCHANGED <<ctr, threshold, entry, req, p2>>

\* prepare_phase2
PubP2Seq1(t) ==
  /\ At(t, "pub_seq1")
  /\ p2' = [p2 EXCEPT ![t].seq1 = @ + 1]
  /\ GoTo(t, "pub_fields")
  /\ UNCHANGED <<ctr, threshold, entry, loc, req, turn>>

PubP2Fields(t) ==
  /\ At(t, "pub_fields")
  /\ p2' = [p2 EXCEPT ![t].side = Job(t).side, ![t].of = Job(t).rec, ![t].v = Job(t).cnt]
  /\ GoTo(t, "pub_seq2")
  /\ UNCHANGED <<ctr, threshold, entry, loc, req, turn>>

PubP2Seq2(t) ==
  /\ At(t, "pub_seq2")
  /\ p2' = [p2 EXCEPT ![t].seq2 = p2[t].seq1]
  /\ GoTo(t, "faa_add")
  /\ UNCHANGED <<ctr, threshold, entry, loc, req, turn>>

FaaAdd(t) ==
  /\ At(t, "faa_add")
  /\ LET side == Job(t).side
     IN IF ctr[side] = Global(Job(t).cnt, NoTid)
        THEN /\ ctr' = [ctr EXCEPT ![side] = Global(Job(t).cnt + 1, t)]
             /\ GoTo(t, IF side = "head" THEN "faa_threshold" ELSE "faa_done")
        ELSE GoTo(t, "faa_local") /\ UNCHANGED ctr
  /\ UNCHANGED <<threshold, entry, records, turn>>

FaaThreshold(t) ==
  /\ At(t, "faa_threshold")
  /\ threshold' = threshold - 1
  /\ GoTo(t, "faa_done")
  /\ UNCHANGED <<ctr, entry, records, turn>>

FaaDone(t) ==
  /\ At(t, "faa_done")
  /\ ClearInc(Job(t).side, Job(t).rec, Job(t).cnt)
  /\ GoTo(t, "faa_free")
  /\ UNCHANGED <<ctr, threshold, entry, req, p2, turn>>

FaaFree(t) ==
  /\ At(t, "faa_free")
  /\ LET side == Job(t).side
     IN ctr' = IF ctr[side] = Global(Job(t).cnt + 1, t)
               THEN [ctr EXCEPT ![side].tid = NoTid] ELSE ctr
  /\ Attempt(t, Job(t).cnt)
  /\ UNCHANGED <<threshold, entry, records, turn>>

FaaStep(t) ==
  \/ FaaLocal(t) \/ FaaGlobal(t) \/ FaaClaim(t) \/ FaaAdd(t) \/ FaaThreshold(t)
  \/ HelpP2Seq2(t) \/ HelpP2Fields(t) \/ HelpP2Seq1(t) \/ HelpP2Inc(t) \/ HelpP2Clear(t)
  \/ PubP2Seq1(t) \/ PubP2Fields(t) \/ PubP2Seq2(t) \/ FaaDone(t) \/ FaaFree(t)

(***************************************************************************)
(* try_enq_slow                                                            *)
(***************************************************************************)
UnusedAnyNote(e, n) == Behind(e.cycle, CycleOf(n))

\* The note of a slot that one helper skipped keeps the others from using it.
Unused(e, n) == Behind(e.cycle, CycleOf(n)) /\ Behind(e.note, CycleOf(n))
Noted(e, n) == [e EXCEPT !.note = CycleOf(n)]

SlowEnqLook(t) ==
  LET n == me[t].tkt
      e == entry[Slot(n)]
      next == IF ~Unused(e, n) THEN "faa_local"
              ELSE IF ~e.safe THEN "se_head"
              ELSE IF Real(e) THEN "se_skip" ELSE "se_put"
  IN IF e.cycle = CycleOf(n)
     THEN JobEnds(t)
     ELSE me' = [me EXCEPT ![t].pc = next, ![t].ent = e] /\ UNCHANGED turn

SlowEnqLoad(t) ==
  /\ At(t, "se_load")
  /\ SlowEnqLook(t)
  /\ UNCHANGED <<ctr, threshold, entry, records>>

SlowEnqHead(t) ==
  /\ At(t, "se_head")
  /\ GoTo(t, IF ctr["head"].cnt > me[t].tkt \/ Real(me[t].ent) THEN "se_skip" ELSE "se_put")
  /\ UNCHANGED <<ctr, threshold, entry, records, turn>>

SlowEnqSkip(t) ==
  /\ At(t, "se_skip")
  /\ \/ /\ Replaces(t, Noted(me[t].ent, me[t].tkt))
        /\ GoTo(t, "faa_local")
        /\ UNCHANGED turn
     \/ Missed(t) /\ SlowEnqLook(t)
  /\ UNCHANGED <<ctr, threshold, records>>

\* The entry inserted for a request, to be finalized.
Inserted(t) == Produced(me[t].ent, me[t].tkt, Job(t).index, FALSE)

SlowEnqPutStale(t) ==
  /\ At(t, "se_put")
  /\ \/ Replaces(t, Inserted(t)) /\ GoTo(t, "se_fin")
     \/ Missed(t) /\ UNCHANGED me
  /\ UNCHANGED <<ctr, threshold, records, turn>>

SlowEnqPut(t) ==
  /\ At(t, "se_put")
  /\ \/ /\ Replaces(t, Inserted(t))
        /\ GoTo(t, "se_fin")
        /\ UNCHANGED turn
     \/ Missed(t) /\ SlowEnqLook(t)
  /\ UNCHANGED <<ctr, threshold, records>>

SlowEnqFin(t) ==
  /\ At(t, "se_fin")
  /\ Finish("tail", Job(t).rec, me[t].tkt)
  /\ GoTo(t, IF loc' = loc THEN "se_threshold" ELSE "se_flag")
  /\ UNCHANGED <<ctr, threshold, entry, req, p2, turn>>

SlowEnqFlag(t) ==
  /\ At(t, "se_flag")
  /\ LET s == Slot(me[t].tkt)
     IN entry' = IF entry[s] = Inserted(t) THEN [entry EXCEPT ![s].enq = TRUE] ELSE entry
  /\ GoTo(t, "se_threshold")
  /\ UNCHANGED <<ctr, threshold, records, turn>>

SlowEnqThreshold(t) ==
  /\ At(t, "se_threshold")
  /\ IF threshold = ThreshMax THEN JobEnds(t) ELSE GoTo(t, "se_reset") /\ UNCHANGED turn
  /\ UNCHANGED <<ctr, threshold, entry, records>>

SlowEnqReset(t) ==
  /\ At(t, "se_reset")
  /\ threshold' = ThreshMax
  /\ JobEnds(t)
  /\ UNCHANGED <<ctr, entry, records>>

(***************************************************************************)
(* try_deq_slow                                                            *)
(***************************************************************************)
AfterSlowDeqLook(e, n) ==
  IF e.cycle = CycleOf(n) /\ Real(e) THEN "sd_fin"
  ELSE IF Real(e) /\ Unused(e, n) THEN "sd_note"
  ELSE IF Behind(e.cycle, CycleOf(n)) THEN "sd_cas" ELSE "sd_tail"

SlowDeqLook(t) ==
  LET e == entry[Slot(me[t].tkt)]
  IN me' = [me EXCEPT ![t].pc = AfterSlowDeqLook(e, me[t].tkt), ![t].ent = e]

SlowDeqLoad(t) ==
  /\ At(t, "sd_load")
  /\ SlowDeqLook(t)
  /\ UNCHANGED <<ctr, threshold, entry, records, turn>>

\* The thread keeps the entry it saw, so that its next compare-and-swap misses.
SlowDeqNote(t) ==
  /\ At(t, "sd_note")
  /\ \/ Replaces(t, Noted(me[t].ent, me[t].tkt)) /\ GoTo(t, "sd_cas")
     \/ Missed(t) /\ SlowDeqLook(t)
  /\ UNCHANGED <<ctr, threshold, records, turn>>

SlowSpoiled(e, n) ==
  IF Real(e) /\ Unused(e, n) THEN Noted(Spoiled(e, n), n) ELSE Spoiled(e, n)

SlowDeqCas(t) ==
  /\ At(t, "sd_cas")
  /\ \/ Replaces(t, SlowSpoiled(me[t].ent, me[t].tkt)) /\ GoTo(t, "sd_tail")
     \/ Missed(t) /\ SlowDeqLook(t)
  /\ UNCHANGED <<ctr, threshold, records, turn>>

SlowDeqTail(t) ==
  /\ At(t, "sd_tail")
  /\ LookTail(t, "sd_threshold")
  /\ UNCHANGED <<ctr, threshold, entry, records, turn>>

SlowDeqThreshold(t) ==
  /\ At(t, "sd_threshold")
  /\ GoTo(t, IF threshold < 0 THEN "sd_fin" ELSE "faa_local")
  /\ UNCHANGED <<ctr, threshold, entry, records, turn>>

SlowDeqFin(t) ==
  /\ At(t, "sd_fin")
  /\ Finish("head", Job(t).rec, me[t].tkt)
  /\ JobEnds(t)
  /\ UNCHANGED <<ctr, threshold, entry, req, p2>>

TrySlowStep(t) ==
  \/ SlowEnqLoad(t) \/ SlowEnqHead(t) \/ SlowEnqSkip(t) \/ SlowEnqPut(t) \/ SlowEnqFin(t)
  \/ SlowEnqFlag(t) \/ SlowEnqThreshold(t) \/ SlowEnqReset(t)
  \/ SlowDeqLoad(t) \/ SlowDeqNote(t) \/ SlowDeqCas(t) \/ SlowDeqTail(t)
  \/ SlowDeqThreshold(t) \/ SlowDeqFin(t)

(***************************************************************************)
(* help_threads, help_enqueue, help_dequeue                                *)
(***************************************************************************)
HelpPending(t) ==
  /\ At(t, "help_pending")
  /\ IF req[turn[t].next].pending THEN GoTo(t, "help_kind") /\ UNCHANGED turn ELSE HelpEnds(t)
  /\ UNCHANGED <<ctr, threshold, entry, records>>

HelpKind(t) ==
  /\ At(t, "help_kind")
  /\ me' = [me EXCEPT ![t].pc = "help_seq2", ![t].job.rec = turn[t].next,
                      ![t].job.side = IF req[turn[t].next].enq THEN "tail" ELSE "head"]
  /\ UNCHANGED <<ctr, threshold, entry, records, turn>>

HelpSeq2(t) ==
  /\ At(t, "help_seq2")
  /\ me' = [me EXCEPT ![t].pc = "help_fields", ![t].job.seq = req[Job(t).rec].seq2]
  /\ UNCHANGED <<ctr, threshold, entry, records, turn>>

HelpFields(t) ==
  /\ At(t, "help_fields")
  /\ LET r == req[Job(t).rec]
         side == Job(t).side
     IN IF r.enq = (side = "tail")
        THEN /\ me' = [me EXCEPT ![t].pc = "help_seq1", ![t].job.v = Word(r.start[side]),
                                 ![t].job.index = IF side = "tail" THEN r.index ELSE Bot]
             /\ UNCHANGED turn
        ELSE HelpEnds(t)
  /\ UNCHANGED <<ctr, threshold, entry, records>>

HelpSeq1(t) ==
  /\ At(t, "help_seq1")
  /\ IF req[Job(t).rec].seq1 = Job(t).seq
     THEN me' = [me EXCEPT ![t].pc = "faa_local", ![t].job.seq = 0] /\ UNCHANGED turn
     ELSE HelpEnds(t)
  /\ UNCHANGED <<ctr, threshold, entry, records>>

RequestStep(t) ==
  \/ PublishLocal(t) \/ PublishFields(t) \/ PublishSeq(t) \/ PublishPending(t)
  \/ CloseRequest(t) \/ RetireRequest(t) \/ GatherLocal(t) \/ GatherEntry(t)
  \/ HelpPending(t) \/ HelpKind(t) \/ HelpSeq2(t) \/ HelpFields(t) \/ HelpSeq1(t)

CallStep(t) == FastStep(t) \/ RequestStep(t) \/ FaaStep(t) \/ TrySlowStep(t)
===============================================================================
