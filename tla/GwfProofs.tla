------------------------------- MODULE GwfProofs ------------------------------
(***************************************************************************)
(* Machine-checked proofs about a GWFQ ring with its slow path, for every  *)
(* number of threads and indices, every width of cycles and every knob.    *)
(*                                                                         *)
(* A step of t is shown to change no more of what the others rely on than  *)
(* StepOK(t) allows: counters and local words go forward, and the records  *)
(* of t in the order of their sequence numbers.  Whatever changes no more  *)
(* keeps what the other threads know (OthersKeep).  What is left for each  *)
(* action is what t itself knows afterwards.                               *)
(***************************************************************************)
EXTENDS GwfUse, ModArith

-----------------------------------------------------------------------------
(***************************************************************************)
(* Where a thread can be                                                   *)
(***************************************************************************)
FastPcs ==
  {"enq_faa", "enq_load", "enq_head", "enq_cas", "enq_threshold", "enq_reset",
   "deq_faa", "deq_load", "fin_load", "fin_cas", "deq_consume", "deq_cas",
   "deq_tail", "deq_retry", "deq_empty"}
CatchupPcs == {"cu_load", "cu_head", "cu_cas", "cu_again", "cu_tail"}
RequestPcs ==
  {"req_local", "req_fields", "req_seq2", "req_pending", "req_close", "req_seq1",
   "gather_local", "gather_entry"}
HelpPcs == {"help_pending", "help_kind", "help_seq2", "help_fields", "help_seq1"}
Phase2Pcs == {"p2_seq2", "p2_fields", "p2_seq1", "p2_inc", "p2_clear"}
ClaimedPcs ==
  {"pub_seq1", "pub_fields", "pub_seq2", "faa_add", "faa_threshold", "faa_done", "faa_free"}
FaaPcs == {"faa_local", "faa_global", "faa_claim"} \cup Phase2Pcs \cup ClaimedPcs
SlowPcs ==
  {"se_load", "se_head", "se_skip", "se_put", "se_fin", "se_flag", "se_threshold",
   "se_reset", "sd_load", "sd_note", "sd_cas", "sd_tail", "sd_threshold", "sd_fin"}
Pcs == {"idle"} \cup FastPcs \cup CatchupPcs \cup RequestPcs \cup HelpPcs \cup FaaPcs \cup SlowPcs

Words == [cnt : Nat, inc : BOOLEAN, fin : BOOLEAN]
Entries ==
  [note : 0 .. CycleMod - 1, cycle : 0 .. CycleMod - 1, safe : BOOLEAN, enq : BOOLEAN,
   index : 0 .. N + 1]
Goals == [tail : Nat, head : Nat, tid : Threads \cup {NoTid}, tries : Nat]
Jobs ==
  [rec : Threads \cup {NoTid}, side : Sides \cup {"none"}, index : 0 .. N + 1, v : Words,
   cnt : Nat, seq : Nat]
Deps ==
  [rec : Threads \cup {NoTid}, cnt : Nat, seq : Nat, side : Sides \cup {"none"},
   of : Threads \cup {NoTid}, v : Nat]
Calls ==
  [pc : Pcs, kind : {"none", "enq", "deq"}, index : 0 .. N + 1,
   tries : 0 .. EnqTries + DeqTries, tkt : Nat, ent : Entries, goal : Goals, job : Jobs,
   dep : Deps]
Requests ==
  [seq1 : Nat, seq2 : Nat, enq : BOOLEAN, pending : BOOLEAN, index : 0 .. N + 1,
   start : [Sides -> Nat]]
Phases ==
  [seq1 : Nat, seq2 : Nat, side : Sides \cup {"none"}, of : Threads \cup {NoTid}, v : Nat]

Types ==
  /\ ctr \in [Sides -> [cnt : Nat, tid : Threads \cup {NoTid}]]
  /\ threshold \in Int /\ threshold <= ThreshMax
  /\ entry \in [Slots -> Entries]
  /\ loc \in [Sides -> [Threads -> Words]]
  /\ req \in [Threads -> Requests]
  /\ p2 \in [Threads -> Phases]
  /\ turn \in [Threads -> [left : 0 .. HelpDelay, next : Threads]]
  /\ me \in [Threads -> Calls]

-----------------------------------------------------------------------------
(***************************************************************************)
(* The inductive invariant, in parts                                       *)
(***************************************************************************)
\* The thread works on a request, its own or another's; it is in help_threads.
Working(t) ==
  me[t].pc \in FaaPcs \cup SlowPcs \/ (me[t].pc \in CatchupPcs /\ me[t].job # NoJob)
ForItself(t) == Working(t) /\ me[t].job.rec = t
Helping(t) == me[t].pc \in HelpPcs \/ (Working(t) /\ me[t].job.rec # t)

\* seq2 of the request is that of seq1: what is published is the current request.
Opened(t) == me[t].pc \in {"req_pending", "req_close", "req_seq1"} \/ ForItself(t)

\* The thread's locals, by where it is.
TriesInv(t) ==
  /\ Helping(t) \/ me[t].pc \in {"enq_faa", "deq_faa"} => me[t].tries >= 1
  /\ ~Helping(t) => turn[t].left >= 1
  /\ me[t].pc # "idle" => me[t].kind # "none"
  /\ me[t].pc \in {"enq_faa", "deq_faa"} => me[t].pc = FastPath(me[t].kind)

JobInv(t) ==
  /\ Working(t) \/ me[t].pc \in RequestPcs \cup {"help_seq2", "help_fields", "help_seq1"} =>
       me[t].job.rec \in Threads /\ me[t].job.side \in Sides
  /\ me[t].pc \in RequestPcs => me[t].job.rec = t
  /\ me[t].pc \in {"deq_faa", "deq_load", "deq_cas", "deq_tail"} => me[t].job = NoJob
  /\ me[t].pc = "help_kind" => turn[t].next # t
  /\ me[t].pc \in {"help_seq2", "help_fields", "help_seq1"} => me[t].job.rec # t
  /\ me[t].pc \in Phase2Pcs \cup {"fin_load", "fin_cas"} => me[t].dep.rec \in Threads
  /\ me[t].pc = "p2_inc" => me[t].dep.side \in Sides /\ me[t].dep.of \in Threads
  /\ me[t].pc = "cu_cas" => me[t].goal.tail < me[t].goal.head

\* No ticket that a thread has in hand is ahead of its counter.
KindSide(t) == IF me[t].kind = "enq" THEN "tail" ELSE "head"
TicketInv(t) ==
  /\ me[t].pc \in {"enq_load", "enq_head", "enq_cas", "deq_load", "deq_cas", "deq_tail",
                   "deq_retry"} =>
       me[t].tkt <= ctr[KindSide(t)].cnt
  /\ Working(t) \/ me[t].pc \in {"req_local", "req_fields", "req_seq2", "req_pending",
                                 "help_seq1"} =>
       me[t].job.v.cnt <= ctr[me[t].job.side].cnt /\ ~me[t].job.v.fin
  /\ me[t].pc \in {"faa_claim"} \cup Phase2Pcs \cup ClaimedPcs =>
       me[t].job.cnt <= ctr[me[t].job.side].cnt
  /\ me[t].pc \in {"faa_claim"} \cup Phase2Pcs => me[t].job.v.cnt <= me[t].job.cnt

\* The records of the thread.
RecordInv(t) ==
  /\ \A s \in Sides : loc[s][t].cnt <= ctr[s].cnt /\ req[t].start[s] <= ctr[s].cnt
  /\ IF Opened(t) THEN req[t].seq2 = req[t].seq1 ELSE req[t].seq2 + 1 = req[t].seq1
  /\ req[t].pending => ForItself(t) \/ me[t].pc = "req_close"
  /\ p2[t].seq1 >= 1 /\ p2[t].seq2 <= p2[t].seq1
  /\ me[t].pc \in {"pub_fields", "pub_seq2"} => p2[t].seq2 < p2[t].seq1
  /\ p2[t].seq2 >= 1 \/ me[t].pc = "pub_seq2" => p2[t].side \in Sides /\ p2[t].of \in Threads

\* A thread that reads the fields of a record between its two sequence numbers.
SnapshotInv(t) ==
  LET job == me[t].job
      r == req[job.rec]
      dep == me[t].dep
      p == p2[dep.rec]
  IN /\ me[t].pc \in {"help_fields", "help_seq1"} => job.seq <= r.seq2
     /\ me[t].pc = "help_seq1" /\ r.seq1 = job.seq =>
          /\ r.enq = (job.side = "tail") /\ job.v = Word(r.start[job.side])
          /\ job.index = IF r.enq THEN r.index ELSE Bot
     /\ me[t].pc \in {"p2_fields", "p2_seq1"} => dep.seq <= p.seq2
     /\ me[t].pc = "p2_seq1" /\ p.seq1 = dep.seq =>
          dep.side = p.side /\ dep.of = p.of /\ dep.v = p.v

CallInv(t) == TriesInv(t) /\ JobInv(t) /\ TicketInv(t) /\ RecordInv(t) /\ SnapshotInv(t)

RingInv == Types /\ \A t \in Threads : CallInv(t)

IInv == RingInv /\ spare \subseteq Indices

-----------------------------------------------------------------------------
(***************************************************************************)
(* Constants                                                               *)
(***************************************************************************)
LEMMA Sizes ==
  /\ N \in Nat \ {0} /\ NumThreads \in Nat \ {0} /\ NumSlots \in Nat \ {0}
  /\ CycleMod \in Nat \ {0} /\ ThreshMax \in Nat
  /\ EnqTries \in Nat \ {0} /\ DeqTries \in Nat \ {0} /\ HelpDelay \in Nat \ {0}
  /\ Catchups \in Nat \ {0} /\ NoTid \notin Threads
<1>1. N \in Nat \ {0} /\ NumThreads \in Nat \ {0} BY SizesAssumption
<1>2. CycleMod \in Nat \ {0}
  <2>1. 2 * N \in Nat \ {0} /\ HelpDelay * NumThreads \in Nat BY <1>1, KnobsAssumption
  <2>2. (HelpDelay * NumThreads) \div (2 * N) \in Nat BY <2>1, DivMod
  <2>3. QED BY <2>2, SizesAssumption
<1>3. QED BY <1>1, <1>2, KnobsAssumption DEF NumSlots, ThreshMax, NoTid, Threads

LEMMA CycleType ==
  ASSUME NEW n \in Nat
  PROVE  CycleOf(n) \in 0 .. CycleMod - 1 /\ Slot(n) \in Slots
<1>1. n \div NumSlots \in Nat /\ n % NumSlots \in 0 .. NumSlots - 1 BY Sizes, DivMod
<1>2. (n \div NumSlots) % CycleMod \in 0 .. CycleMod - 1 BY <1>1, Sizes, DivMod
<1>3. QED BY <1>1, <1>2 DEF CycleOf, Slot, Slots

LEMMA NextTidType ==
  ASSUME NEW t \in Threads
  PROVE  NextTid(t) \in Threads
<1>1. t + 1 \in Nat /\ NumThreads \in Nat \ {0} BY Sizes DEF Threads
<1>2. (t + 1) % NumThreads \in 0 .. NumThreads - 1 BY <1>1, DivMod
<1>3. QED BY <1>2 DEF NextTid, Threads

\* The records that stand for nothing.
LEMMA Blanks ==
  /\ Fresh \in Entries /\ NoGoal \in Goals /\ NoJob \in Jobs /\ NoDep \in Deps
  /\ Idle \in Calls /\ \A n \in Nat : Word(n) \in Words
<1>1. CycleMod - 1 \in 0 .. CycleMod - 1 /\ 0 \in 0 .. CycleMod - 1 /\ N \in 0 .. N + 1
      /\ 0 \in 0 .. EnqTries + DeqTries
  BY Sizes
<1>2. Fresh \in Entries BY <1>1 DEF Fresh, Entries, Bot
<1>3. \A n \in Nat : Word(n) \in Words BY DEF Word, Words
<1>4. NoGoal \in Goals BY DEF NoGoal, Goals
<1>5. NoJob \in Jobs BY <1>1, <1>3 DEF NoJob, Jobs, Bot
<1>6. NoDep \in Deps BY DEF NoDep, Deps
<1>7. Idle \in Calls BY <1>1, <1>2, <1>4, <1>5, <1>6 DEF Idle, Calls, Bot, Pcs
<1>8. QED BY <1>2, <1>3, <1>4, <1>5, <1>6, <1>7

-----------------------------------------------------------------------------
(***************************************************************************)
(* What a step of t leaves to the others                                   *)
(***************************************************************************)
Others(t) ==
  \A u \in Threads \ {t} :
    me'[u] = me[u] /\ turn'[u] = turn[u] /\ req'[u] = req[u] /\ p2'[u] = p2[u]

Forward(t) ==
  /\ \A s \in Sides : ctr'[s].cnt >= ctr[s].cnt
  /\ \A s \in Sides, r \in Threads : loc'[s][r] # loc[s][r] =>
       /\ loc'[s][r].cnt <= ctr'[s].cnt
       /\ (r = t /\ At(t, "req_local")) \/ (~loc[s][r].fin /\ loc'[s][r].cnt >= loc[s][r].cnt)

\* Whoever has seen seq2 either finds the fields as they were or seq1 gone on.
RecordMoves(t) ==
  /\ req'[t].seq2 >= req[t].seq2 /\ p2'[t].seq2 >= p2[t].seq2
  /\ \/ /\ req'[t].seq1 = req[t].seq1 /\ req'[t].enq = req[t].enq
        /\ req'[t].index = req[t].index /\ req'[t].start = req[t].start
     \/ req'[t].seq1 > req[t].seq2
  /\ \/ /\ p2'[t].seq1 = p2[t].seq1 /\ p2'[t].side = p2[t].side
        /\ p2'[t].of = p2[t].of /\ p2'[t].v = p2[t].v
     \/ p2'[t].seq1 > p2[t].seq2

StepOK(t) == Types' /\ Others(t) /\ Forward(t) /\ RecordMoves(t) /\ CallInv(t)'

LEMMA OthersKeep ==
  ASSUME RingInv, NEW t \in Threads, StepOK(t), NEW u \in Threads, u # t
  PROVE  CallInv(u)'
<1>1. CallInv(u) /\ Types BY DEF RingInv
<1>2. me'[u] = me[u] /\ turn'[u] = turn[u] /\ req'[u] = req[u] /\ p2'[u] = p2[u]
  BY DEF StepOK, Others
<1>3. \A s \in Sides : ctr'[s].cnt >= ctr[s].cnt /\ ctr[s].cnt \in Nat /\ ctr'[s].cnt \in Nat
  BY <1>1 DEF StepOK, Forward, Types
<1>4. (Working(u)' <=> Working(u)) /\ (ForItself(u)' <=> ForItself(u))
      /\ (Helping(u)' <=> Helping(u)) /\ (Opened(u)' <=> Opened(u)) /\ KindSide(u)' = KindSide(u)
  BY <1>2 DEF Working, ForItself, Helping, Opened, KindSide
<1>5. me[u].job.v.cnt \in Nat /\ me[u].job.cnt \in Nat /\ me[u].tkt \in Nat
      /\ KindSide(u) \in Sides /\ me[u].job \in Jobs /\ me[u].dep \in Deps
  BY <1>1 DEF Types, Calls, Jobs, Words, KindSide, Sides
<1>6. TriesInv(u)' BY <1>1, <1>2, <1>4 DEF CallInv, TriesInv
<1>7. JobInv(u)' BY <1>1, <1>2, <1>4 DEF CallInv, JobInv
<1>8. TicketInv(u)'
  <2>1. Working(u) \/ me[u].pc \in {"req_local", "req_fields", "req_seq2", "req_pending",
                                    "help_seq1"} => me[u].job.side \in Sides
    BY <1>1 DEF CallInv, JobInv, RequestPcs
  <2>2. me[u].pc \in {"faa_claim"} \cup Phase2Pcs \cup ClaimedPcs => Working(u)
    BY DEF Working, FaaPcs
  <2> HIDE DEF Phase2Pcs, ClaimedPcs
  <2>3. QED BY <1>1, <1>2, <1>3, <1>4, <1>5, <2>1, <2>2 DEF CallInv, TicketInv
<1>9. RecordInv(u)'
  <2>1. ASSUME NEW s \in Sides
        PROVE  loc'[s][u].cnt <= ctr'[s].cnt /\ req'[u].start[s] <= ctr'[s].cnt
    <3>1. loc[s][u].cnt <= ctr[s].cnt /\ req[u].start[s] <= ctr[s].cnt
      BY <1>1 DEF CallInv, RecordInv
    <3>2. loc[s][u].cnt \in Nat /\ req[u].start[s] \in Nat
      BY <1>1 DEF Types, Words, Requests
    <3>3. loc'[s][u] # loc[s][u] => loc'[s][u].cnt <= ctr'[s].cnt BY DEF StepOK, Forward
    <3>4. QED BY <1>2, <1>3, <3>1, <3>2, <3>3
  <2>2. QED BY <1>1, <1>2, <1>4, <2>1 DEF CallInv, RecordInv
<1>10. SnapshotInv(u)'
  <2> DEFINE job == me[u].job
             dep == me[u].dep
  <2>0. SnapshotInv(u) BY <1>1 DEF CallInv
  <2>1. me[u].pc \in {"help_fields", "help_seq1"} => job.rec \in Threads
    BY <1>1 DEF CallInv, JobInv
  <2>2. me[u].pc \in {"p2_fields", "p2_seq1"} => dep.rec \in Threads
    BY <1>1 DEF CallInv, JobInv, Phase2Pcs
  <2>3. job.seq \in Nat /\ dep.seq \in Nat BY <1>5 DEF Jobs, Deps
  <2>4. \A r \in Threads :
          /\ req[r].seq2 \in Nat /\ req'[r].seq2 >= req[r].seq2 /\ req'[r].seq2 \in Nat
          /\ req'[r].seq1 \in Nat
          /\ \/ /\ req'[r].seq1 = req[r].seq1 /\ req'[r].enq = req[r].enq
                /\ req'[r].index = req[r].index /\ req'[r].start = req[r].start
             \/ req'[r].seq1 > req[r].seq2
    <3> TAKE r \in Threads
    <3>1. req[r].seq2 \in Nat /\ req'[r].seq2 \in Nat /\ req'[r].seq1 \in Nat
      BY <1>1 DEF StepOK, Types, Requests
    <3>2. CASE r = t BY <3>1, <3>2 DEF StepOK, RecordMoves
    <3>3. CASE r # t BY <3>1, <3>3 DEF StepOK, Others
    <3>4. QED BY <3>2, <3>3
  <2>5. \A r \in Threads :
          /\ p2[r].seq2 \in Nat /\ p2'[r].seq2 >= p2[r].seq2 /\ p2'[r].seq2 \in Nat
          /\ p2'[r].seq1 \in Nat
          /\ \/ /\ p2'[r].seq1 = p2[r].seq1 /\ p2'[r].side = p2[r].side
                /\ p2'[r].of = p2[r].of /\ p2'[r].v = p2[r].v
             \/ p2'[r].seq1 > p2[r].seq2
    <3> TAKE r \in Threads
    <3>1. p2[r].seq2 \in Nat /\ p2'[r].seq2 \in Nat /\ p2'[r].seq1 \in Nat
      BY <1>1 DEF StepOK, Types, Phases
    <3>2. CASE r = t BY <3>1, <3>2 DEF StepOK, RecordMoves
    <3>3. CASE r # t BY <3>1, <3>3 DEF StepOK, Others
    <3>4. QED BY <3>2, <3>3
  <2>6. ASSUME me[u].pc \in {"help_fields", "help_seq1"}
        PROVE  /\ job.seq <= req'[job.rec].seq2
               /\ me[u].pc = "help_seq1" /\ req'[job.rec].seq1 = job.seq =>
                    /\ req'[job.rec].enq = (job.side = "tail")
                    /\ job.v = Word(req'[job.rec].start[job.side])
                    /\ job.index = IF req'[job.rec].enq THEN req'[job.rec].index ELSE Bot
    <3>1. job.seq <= req[job.rec].seq2 BY <2>0, <2>6 DEF SnapshotInv
    <3>2. PICK r \in Threads : r = job.rec BY <2>1, <2>6
    <3>3. job.seq <= req'[r].seq2 BY <2>3, <2>4, <3>1, <3>2
    <3>4. req'[r].seq1 > req[r].seq2 => req'[r].seq1 # job.seq BY <2>3, <2>4, <3>1, <3>2
    <3> HIDE DEF job
    <3>5. me[u].pc = "help_seq1" /\ req[r].seq1 = job.seq =>
            /\ req[r].enq = (job.side = "tail") /\ job.v = Word(req[r].start[job.side])
            /\ job.index = IF req[r].enq THEN req[r].index ELSE Bot
      BY <2>0, <3>2 DEF SnapshotInv, job
    <3>6. QED BY <2>4, <3>2, <3>3, <3>4, <3>5
  <2>7. ASSUME me[u].pc \in {"p2_fields", "p2_seq1"}
        PROVE  /\ dep.seq <= p2'[dep.rec].seq2
               /\ me[u].pc = "p2_seq1" /\ p2'[dep.rec].seq1 = dep.seq =>
                    /\ dep.side = p2'[dep.rec].side /\ dep.of = p2'[dep.rec].of
                    /\ dep.v = p2'[dep.rec].v
    <3>1. dep.seq <= p2[dep.rec].seq2 BY <2>0, <2>7 DEF SnapshotInv
    <3>2. PICK r \in Threads : r = dep.rec BY <2>2, <2>7
    <3>3. dep.seq <= p2'[r].seq2 BY <2>3, <2>5, <3>1, <3>2
    <3>4. p2'[r].seq1 > p2[r].seq2 => p2'[r].seq1 # dep.seq BY <2>3, <2>5, <3>1, <3>2
    <3> HIDE DEF dep
    <3>5. me[u].pc = "p2_seq1" /\ p2[r].seq1 = dep.seq =>
            dep.side = p2[r].side /\ dep.of = p2[r].of /\ dep.v = p2[r].v
      BY <2>0, <3>2 DEF SnapshotInv, dep
    <3>6. QED BY <2>5, <3>2, <3>3, <3>4, <3>5
  <2>8. QED BY <1>2, <2>6, <2>7 DEF SnapshotInv
<1>11. QED BY <1>6, <1>7, <1>8, <1>9, <1>10 DEF CallInv

-----------------------------------------------------------------------------
(***************************************************************************)
(* Steps that leave the requests and the phases as they are                *)
(***************************************************************************)
Mild(t) ==
  /\ ctr' \in [Sides -> [cnt : Nat, tid : Threads \cup {NoTid}]]
  /\ threshold' \in Int /\ threshold' <= ThreshMax
  /\ entry' \in [Slots -> Entries]
  /\ loc' \in [Sides -> [Threads -> Words]]
  /\ turn' \in [Threads -> [left : 0 .. HelpDelay, next : Threads]]
  /\ \A u \in Threads \ {t} : turn'[u] = turn[u]
  /\ UNCHANGED <<req, p2>>
  /\ Forward(t)

LEMMA QuietIsMild ==
  ASSUME RingInv, NEW t \in Threads, UNCHANGED <<ctr, records, turn>>,
         threshold' \in Int, threshold' <= ThreshMax, entry' \in [Slots -> Entries]
  PROVE  Mild(t)
<1>1. Types BY DEF RingInv
<1>2. ctr' = ctr /\ loc' = loc /\ req' = req /\ p2' = p2 /\ turn' = turn BY DEF records
<1>3. \A s \in Sides : ctr[s].cnt \in Nat BY <1>1 DEF Types
<1>4. Forward(t) BY <1>2, <1>3 DEF Forward
<1>5. QED BY <1>1, <1>2, <1>4 DEF Mild, Types

\* A step of t that moves nothing but its own locals and turn.
LEMMA StillIsMild ==
  ASSUME RingInv, NEW t \in Threads, UNCHANGED <<ctr, threshold, entry, records, turn>>
  PROVE  Mild(t)
<1>1. threshold' \in Int /\ threshold' <= ThreshMax /\ entry' \in [Slots -> Entries]
  BY DEF RingInv, Types
<1>2. QED BY <1>1, QuietIsMild

LEMMA CallType ==
  ASSUME RingInv, NEW t \in Threads
  PROVE  /\ me[t] \in Calls /\ me[t].ent \in Entries /\ me[t].goal \in Goals
         /\ me[t].job \in Jobs /\ me[t].job.v \in Words /\ me[t].dep \in Deps
         /\ me[t].tkt \in Nat /\ me[t].index \in 0 .. N + 1 /\ me[t].tries \in Nat
         /\ me[t].job.index \in 0 .. N + 1 /\ me[t].job.cnt \in Nat /\ me[t].job.v.cnt \in Nat
         /\ DOMAIN me = Threads
<1>1. me \in [Threads -> Calls] BY DEF RingInv, Types
<1>2. me[t] \in Calls BY <1>1
<1>3. QED BY <1>1, <1>2, Sizes DEF Calls, Jobs, Words

LEMMA MildStep ==
  ASSUME RingInv, NEW t \in Threads, Mild(t), NEW m \in Calls, me' = [me EXCEPT ![t] = m],
         CallInv(t)'
  PROVE  StepOK(t)
<1>1. Types BY DEF RingInv
<1>2. me' \in [Threads -> Calls] /\ \A u \in Threads \ {t} : me'[u] = me[u]
  BY <1>1 DEF Types
<1>3. Types' BY <1>1, <1>2 DEF Mild, Types
<1>4. Others(t) BY <1>2 DEF Others, Mild
<1>5. RecordMoves(t)
  <2>1. req[t] \in Requests /\ p2[t] \in Phases BY <1>1 DEF Types
  <2>2. req[t].seq2 \in Nat /\ p2[t].seq2 \in Nat BY <2>1 DEF Requests, Phases
  <2>3. QED BY <2>2 DEF Mild, RecordMoves
<1>6. QED BY <1>3, <1>4, <1>5 DEF StepOK, Mild

LEMMA LocStays ==
  ASSUME RingInv, NEW t \in Threads, Mild(t)
  PROVE  \A s \in Sides : loc'[s][t].cnt <= ctr'[s].cnt /\ req'[t].start[s] <= ctr'[s].cnt
<1>1. CallInv(t) /\ Types BY DEF RingInv
<1>2. TAKE s \in Sides
<1>3. loc[s][t].cnt <= ctr[s].cnt /\ req[t].start[s] <= ctr[s].cnt
  BY <1>1 DEF CallInv, RecordInv
<1>4. /\ loc[s][t].cnt \in Nat /\ req[t].start[s] \in Nat /\ ctr[s].cnt \in Nat
      /\ ctr'[s].cnt \in Nat /\ ctr'[s].cnt >= ctr[s].cnt
  BY <1>1 DEF Types, Words, Requests, Mild, Forward
<1>5. loc'[s][t] # loc[s][t] => loc'[s][t].cnt <= ctr'[s].cnt BY DEF Mild, Forward
<1>6. QED BY <1>3, <1>4, <1>5 DEF Mild

-----------------------------------------------------------------------------
(***************************************************************************)
(* Steps of the fast path                                                  *)
(***************************************************************************)
\* Locals of a thread that works on no request.
Plain(m) ==
  /\ m \in Calls /\ m.pc \in {"idle"} \cup FastPcs \cup CatchupPcs
  /\ m.pc \in CatchupPcs \cup {"deq_faa", "deq_load", "deq_cas", "deq_tail"} => m.job = NoJob
  /\ m.pc # "idle" => m.kind # "none"
  /\ m.pc \in {"enq_faa", "deq_faa"} => m.tries >= 1 /\ m.pc = FastPath(m.kind)
  /\ m.pc \in {"enq_load", "enq_head", "enq_cas", "deq_load", "deq_cas", "deq_tail",
               "deq_retry"} =>
       m.tkt <= ctr'[IF m.kind = "enq" THEN "tail" ELSE "head"].cnt
  /\ m.pc \in {"fin_load", "fin_cas"} => m.dep.rec \in Threads
  /\ m.pc = "cu_cas" => m.goal.tail < m.goal.head

\* Not yet published, or closed.
LEMMA PlainStep ==
  ASSUME RingInv, NEW t \in Threads, Mild(t), turn'[t].left >= 1, ~Opened(t),
         NEW m, Plain(m), me' = [me EXCEPT ![t] = m]
  PROVE  StepOK(t)
<1>1. CallInv(t) /\ Types BY DEF RingInv
<1>2. me'[t] = m /\ m \in Calls BY <1>1 DEF Types, Plain
<1>3. ~Working(t)' /\ ~Helping(t)' /\ ~ForItself(t)' /\ ~Opened(t)'
      /\ m.pc \notin RequestPcs /\ m.pc \notin HelpPcs /\ m.pc \notin Phase2Pcs
      /\ m.pc \notin ClaimedPcs
  BY <1>2 DEF Plain, Working, Helping, ForItself, Opened, FastPcs, CatchupPcs, RequestPcs,
              HelpPcs, FaaPcs, SlowPcs, Phase2Pcs, ClaimedPcs
<1>4. TriesInv(t)' BY <1>2, <1>3 DEF TriesInv, Plain
<1>5. JobInv(t)' BY <1>2, <1>3 DEF JobInv, Plain, HelpPcs, Phase2Pcs
<1>6. TicketInv(t)'
  BY <1>2, <1>3 DEF TicketInv, Plain, KindSide, RequestPcs, HelpPcs, FastPcs, CatchupPcs
<1>7. RecordInv(t)'
  <2>1. m.pc \notin {"pub_fields", "pub_seq2", "req_close"}
    BY <1>3 DEF ClaimedPcs, RequestPcs
  <2>2. req'[t] = req[t] /\ p2'[t] = p2[t] BY DEF Mild
  <2>3. RecordInv(t) BY <1>1 DEF CallInv
  <2>4. ~req[t].pending BY <2>3 DEF RecordInv, Opened
  <2>5. \A s \in Sides : loc'[s][t].cnt <= ctr'[s].cnt /\ req'[t].start[s] <= ctr'[s].cnt
    BY LocStays
  <2>6. QED BY <1>2, <1>3, <2>1, <2>2, <2>3, <2>4, <2>5 DEF RecordInv
<1>8. SnapshotInv(t)' BY <1>2, <1>3 DEF SnapshotInv, HelpPcs, Phase2Pcs
<1>9. CallInv(t)' BY <1>4, <1>5, <1>6, <1>7, <1>8 DEF CallInv
<1>10. QED BY <1>2, <1>9, MildStep

-----------------------------------------------------------------------------
(***************************************************************************)
(* Steps on the way to a request, and of help_threads                      *)
(***************************************************************************)
LEMMA RequestMildStep ==
  ASSUME RingInv, NEW t \in Threads, Mild(t), turn'[t].left >= 1, NEW m \in Calls,
         me' = [me EXCEPT ![t] = m],
         m.pc \in {"req_local", "req_fields", "req_close", "gather_entry"},
         Opened(t) <=> m.pc = "req_close",
         m.kind # "none", m.job.rec = t, m.job.side \in Sides,
         m.pc \in {"req_local", "req_fields"} =>
           m.job.v.cnt <= ctr'[m.job.side].cnt /\ ~m.job.v.fin
  PROVE  StepOK(t)
<1>1. CallInv(t) /\ Types BY DEF RingInv
<1>2. me'[t] = m BY <1>1 DEF Types
<1>3. ~Working(t)' /\ ~Helping(t)' /\ ~ForItself(t)' /\ (Opened(t)' <=> m.pc = "req_close")
      /\ m.pc \in RequestPcs /\ m.pc \notin HelpPcs /\ m.pc \notin Phase2Pcs
      /\ m.pc \notin ClaimedPcs
  BY <1>2 DEF Working, Helping, ForItself, Opened, FastPcs, CatchupPcs, RequestPcs,
              HelpPcs, FaaPcs, SlowPcs, Phase2Pcs, ClaimedPcs
<1>4. TriesInv(t)' BY <1>2, <1>3 DEF TriesInv
<1>5. JobInv(t)' BY <1>2, <1>3 DEF JobInv, HelpPcs, Phase2Pcs
<1>6. TicketInv(t)' BY <1>2, <1>3 DEF TicketInv, HelpPcs
<1>7. RecordInv(t)'
  <2>1. m.pc \notin {"pub_fields", "pub_seq2"} OBVIOUS
  <2>2. req'[t] = req[t] /\ p2'[t] = p2[t] BY DEF Mild
  <2>3. RecordInv(t) BY <1>1 DEF CallInv
  <2>4. req[t].pending => Opened(t) BY <2>3 DEF RecordInv, Opened
  <2>5. \A s \in Sides : loc'[s][t].cnt <= ctr'[s].cnt /\ req'[t].start[s] <= ctr'[s].cnt
    BY LocStays
  <2>6. QED BY <1>2, <1>3, <2>1, <2>2, <2>3, <2>4, <2>5 DEF RecordInv
<1>8. SnapshotInv(t)' BY <1>2, <1>3 DEF SnapshotInv, HelpPcs, Phase2Pcs
<1>9. CallInv(t)' BY <1>4, <1>5, <1>6, <1>7, <1>8 DEF CallInv
<1>10. QED BY <1>9, MildStep

LEMMA HelpMildStep ==
  ASSUME RingInv, NEW t \in Threads, Mild(t), ~Opened(t), NEW m \in Calls,
         me' = [me EXCEPT ![t] = m], m.pc \in HelpPcs, m.kind # "none", m.tries >= 1,
         m.pc = "help_kind" => turn'[t].next # t,
         m.pc \in {"help_seq2", "help_fields", "help_seq1"} =>
           m.job.rec \in Threads /\ m.job.side \in Sides /\ m.job.rec # t,
         m.pc \in {"help_fields", "help_seq1"} => m.job.seq <= req[m.job.rec].seq2,
         m.pc = "help_seq1" =>
           m.job.v.cnt <= ctr'[m.job.side].cnt /\ ~m.job.v.fin,
         m.pc = "help_seq1" /\ req[m.job.rec].seq1 = m.job.seq =>
           /\ req[m.job.rec].enq = (m.job.side = "tail")
           /\ m.job.v = Word(req[m.job.rec].start[m.job.side])
           /\ m.job.index = IF req[m.job.rec].enq THEN req[m.job.rec].index ELSE Bot
  PROVE  StepOK(t)
<1>1. CallInv(t) /\ Types BY DEF RingInv
<1>2. me'[t] = m BY <1>1 DEF Types
<1>3. ~Working(t)' /\ Helping(t)' /\ ~ForItself(t)' /\ ~Opened(t)'
      /\ m.pc \notin RequestPcs /\ m.pc \notin Phase2Pcs /\ m.pc \notin ClaimedPcs
  BY <1>2 DEF Working, Helping, ForItself, Opened, FastPcs, CatchupPcs, RequestPcs,
              HelpPcs, FaaPcs, SlowPcs, Phase2Pcs, ClaimedPcs
<1>4. TriesInv(t)' BY <1>2, <1>3 DEF TriesInv, HelpPcs
<1>5. JobInv(t)' BY <1>2, <1>3 DEF JobInv, HelpPcs, Phase2Pcs
<1>6. TicketInv(t)' BY <1>2, <1>3 DEF TicketInv, HelpPcs
<1>7. RecordInv(t)'
  <2>1. m.pc \notin {"pub_fields", "pub_seq2", "req_close"} BY DEF HelpPcs
  <2>2. req'[t] = req[t] /\ p2'[t] = p2[t] BY DEF Mild
  <2>3. RecordInv(t) BY <1>1 DEF CallInv
  <2>4. req[t].pending => Opened(t) BY <2>3 DEF RecordInv, Opened
  <2>5. \A s \in Sides : loc'[s][t].cnt <= ctr'[s].cnt /\ req'[t].start[s] <= ctr'[s].cnt
    BY LocStays
  <2>6. QED BY <1>2, <1>3, <2>1, <2>2, <2>3, <2>4, <2>5 DEF RecordInv
<1>8. SnapshotInv(t)'
  <2>1. req' = req BY DEF Mild
  <2>2. QED BY <1>2, <1>3, <2>1 DEF SnapshotInv, Phase2Pcs
<1>9. CallInv(t)' BY <1>4, <1>5, <1>6, <1>7, <1>8 DEF CallInv
<1>10. QED BY <1>9, MildStep

-----------------------------------------------------------------------------
(***************************************************************************)
(* Steps of slow_faa, try_enq_slow and try_deq_slow                        *)
(***************************************************************************)
\* Locals of a thread that works on the request that t works on.
Work(t, m) ==
  /\ m \in Calls /\ m.pc \in (FaaPcs \ {"pub_fields", "pub_seq2"}) \cup SlowPcs \cup CatchupPcs
  /\ m.job.rec = me[t].job.rec /\ m.job.side = me[t].job.side
  /\ m.kind = me[t].kind /\ m.tries = me[t].tries
  /\ m.job.v.cnt <= ctr'[m.job.side].cnt /\ ~m.job.v.fin
  /\ m.pc \in {"faa_claim"} \cup Phase2Pcs \cup ClaimedPcs =>
       m.job.cnt <= ctr'[m.job.side].cnt
  /\ m.pc \in {"faa_claim"} \cup Phase2Pcs => m.job.v.cnt <= m.job.cnt
  /\ m.pc \in Phase2Pcs => m.dep.rec \in Threads
  /\ m.pc = "p2_inc" => m.dep.side \in Sides /\ m.dep.of \in Threads
  /\ m.pc = "cu_cas" => m.goal.tail < m.goal.head
  /\ m.pc \in {"p2_fields", "p2_seq1"} => m.dep.seq <= p2[m.dep.rec].seq2
  /\ m.pc = "p2_seq1" /\ p2[m.dep.rec].seq1 = m.dep.seq =>
       /\ m.dep.side = p2[m.dep.rec].side /\ m.dep.of = p2[m.dep.rec].of
       /\ m.dep.v = p2[m.dep.rec].v

LEMMA WorkStep ==
  ASSUME RingInv, NEW t \in Threads, Mild(t), turn' = turn,
         Working(t) \/ At(t, "help_seq1"), NEW m, Work(t, m), me' = [me EXCEPT ![t] = m]
  PROVE  StepOK(t)
<1>1. CallInv(t) /\ Types BY DEF RingInv
<1>2. me'[t] = m /\ m \in Calls BY <1>1 DEF Types, Work
<1>3. me[t].job.rec \in Threads /\ me[t].job.side \in Sides /\ m.job.rec \in Threads
      /\ (At(t, "help_seq1") => m.job.rec # t)
  BY <1>1 DEF CallInv, JobInv, Work, At
<1>4. m.job # NoJob
  <2>1. m.job.rec # NoTid BY <1>3, Sizes
  <2>2. QED BY <2>1 DEF NoJob
<1>5. /\ Working(t)' /\ (ForItself(t)' <=> m.job.rec = t) /\ (Helping(t)' <=> m.job.rec # t)
      /\ (Opened(t)' <=> m.job.rec = t) /\ m.pc \notin RequestPcs /\ m.pc \notin HelpPcs
      /\ m.pc \notin FastPcs /\ m.pc # "idle"
  BY <1>2, <1>4 DEF Work, Working, Helping, ForItself, Opened, FastPcs, CatchupPcs, RequestPcs,
              HelpPcs, FaaPcs, SlowPcs, Phase2Pcs, ClaimedPcs
<1>6. (ForItself(t) <=> m.job.rec = t) /\ (Helping(t) <=> m.job.rec # t)
      /\ (Opened(t) <=> m.job.rec = t) /\ me[t].pc # "idle" /\ me[t].pc # "req_close"
  BY <1>3 DEF Work, Working, Helping, ForItself, Opened, FastPcs, CatchupPcs, RequestPcs,
              HelpPcs, FaaPcs, SlowPcs, Phase2Pcs, ClaimedPcs, At
<1>7. TriesInv(t)'
  <2>1. m.pc \notin {"enq_faa", "deq_faa"} BY <1>5 DEF FastPcs
  <2>2. TriesInv(t) BY <1>1 DEF CallInv
  <2>3. QED BY <1>2, <1>5, <1>6, <2>1, <2>2 DEF TriesInv, Work
<1>8. JobInv(t)' BY <1>2, <1>3, <1>5 DEF JobInv, Work, HelpPcs, FastPcs
<1>9. TicketInv(t)' BY <1>2, <1>5 DEF TicketInv, Work, HelpPcs, FastPcs
<1>10. RecordInv(t)'
  <2>1. m.pc \notin {"pub_fields", "pub_seq2"}
    BY DEF Work, SlowPcs, CatchupPcs
  <2>2. req'[t] = req[t] /\ p2'[t] = p2[t] BY DEF Mild
  <2>3. RecordInv(t) BY <1>1 DEF CallInv
  <2>5. \A s \in Sides : loc'[s][t].cnt <= ctr'[s].cnt /\ req'[t].start[s] <= ctr'[s].cnt
    BY LocStays
  <2>6. QED BY <1>2, <1>5, <1>6, <2>1, <2>2, <2>3, <2>5 DEF RecordInv
<1>11. SnapshotInv(t)'
  <2>1. p2' = p2 BY DEF Mild
  <2>2. QED BY <1>2, <1>5, <2>1 DEF SnapshotInv, Work, HelpPcs
<1>12. CallInv(t)' BY <1>7, <1>8, <1>9, <1>10, <1>11 DEF CallInv
<1>13. QED BY <1>2, <1>12, MildStep

-----------------------------------------------------------------------------
(***************************************************************************)
(* What actions are made of                                                *)
(***************************************************************************)
LEMMA AtFast ==
  ASSUME RingInv, NEW t \in Threads, me[t].pc \in {"idle"} \cup FastPcs
  PROVE  ~Opened(t) /\ ~Helping(t) /\ ~Working(t) /\ turn[t].left >= 1
<1>1. ~Opened(t) /\ ~Helping(t) /\ ~Working(t)
  BY DEF Opened, ForItself, Helping, Working, FastPcs, CatchupPcs, HelpPcs, FaaPcs, SlowPcs,
         Phase2Pcs, ClaimedPcs
<1>2. TriesInv(t) BY DEF RingInv, CallInv
<1>3. QED BY <1>1, <1>2 DEF TriesInv

LEMMA AnewType ==
  ASSUME NEW m \in Calls, NEW next \in Pcs
  PROVE  /\ Anew(m, next) \in Calls /\ Anew(m, next).pc = next
         /\ Anew(m, next).kind = m.kind /\ Anew(m, next).index = m.index
         /\ Anew(m, next).tries = m.tries /\ Anew(m, next).job = NoJob
         /\ Anew(m, next).dep = NoDep
<1>1. Idle \in Calls BY Blanks
<1>2. m.kind \in {"none", "enq", "deq"} /\ m.index \in 0 .. N + 1
      /\ m.tries \in 0 .. EnqTries + DeqTries
  BY DEF Calls
<1>3. Idle.job = NoJob /\ Idle.dep = NoDep BY DEF Idle
<1>4. QED BY <1>1, <1>2, <1>3 DEF Anew, Calls

LEMMA EntryTypes ==
  ASSUME NEW e \in Entries, NEW n \in Nat
  PROVE  /\ \A i \in 0 .. N + 1, b \in BOOLEAN : Produced(e, n, i, b) \in Entries
         /\ Noted(e, n) \in Entries /\ Spoiled(e, n) \in Entries
         /\ SlowSpoiled(e, n) \in Entries
<1>1. CycleOf(n) \in 0 .. CycleMod - 1 /\ Bot \in 0 .. N + 1 BY CycleType, Sizes DEF Bot
<1>2. \A i \in 0 .. N + 1, b \in BOOLEAN : Produced(e, n, i, b) \in Entries
  BY <1>1 DEF Produced, Entries
<1>3. \A d \in Entries : Noted(d, n) \in Entries BY <1>1 DEF Noted, Entries
<1>4. Spoiled(e, n) \in Entries BY <1>1 DEF Spoiled, Entries
<1>5. SlowSpoiled(e, n) \in Entries BY <1>3, <1>4 DEF SlowSpoiled
<1>6. QED BY <1>2, <1>3, <1>4, <1>5

LEMMA ReplaceIsMild ==
  ASSUME RingInv, NEW t \in Threads, NEW e \in Entries, Replaces(t, e) \/ Missed(t),
         UNCHANGED <<ctr, threshold, records, turn>>
  PROVE  Mild(t)
<1>1. entry \in [Slots -> Entries] /\ threshold \in Int /\ threshold <= ThreshMax
  BY DEF RingInv, Types
<1>2. entry' \in [Slots -> Entries] BY <1>1 DEF Replaces, Missed
<1>3. QED BY <1>1, <1>2, QuietIsMild

LEMMA EntryHere ==
  ASSUME RingInv, NEW t \in Threads
  PROVE  entry[Slot(me[t].tkt)] \in Entries /\ Slot(me[t].tkt) \in Slots
<1>1. Slot(me[t].tkt) \in Slots BY CallType, CycleType
<1>2. QED BY <1>1 DEF RingInv, Types

LEMMA ReturnStep ==
  ASSUME RingInv, NEW t \in Threads, Mild(t), turn'[t].left >= 1, ~Opened(t),
         NEW r \in 0 .. N + 1, Return(t, r)
  PROVE  StepOK(t)
<1> DEFINE m == [Idle EXCEPT !.index = r]
<1>1. m \in Calls /\ m.pc = "idle" BY Blanks DEF Idle, Calls
<1>2. me' = [me EXCEPT ![t] = m] BY DEF Return
<1> HIDE DEF m
<1>3. Plain(m) BY <1>1 DEF Plain, CatchupPcs
<1>4. QED BY <1>2, <1>3, PlainStep

LEMMA ConsumeStep ==
  ASSUME RingInv, NEW t \in Threads, Mild(t), turn'[t].left >= 1, ~Opened(t),
         me[t].kind # "none", NEW e \in Entries, Consume(t, e)
  PROVE  StepOK(t)
<1> DEFINE next == IF e.enq \/ NextTid(t) = t THEN "deq_consume" ELSE "fin_load"
           r == IF e.enq THEN NoTid ELSE NextTid(t)
           dep == [me[t].dep EXCEPT !.rec = r]
           m == [me[t] EXCEPT !.index = e.index, !.ent = e, !.pc = next, !.dep = dep]
<1>1. me[t] \in Calls /\ me[t].dep \in Deps BY CallType
<1>2. me' = [me EXCEPT ![t] = m] BY <1>1, CallType DEF Consume
<1>3. NextTid(t) \in Threads BY NextTidType
<1>4. dep \in Deps /\ dep.rec = r BY <1>1, <1>3 DEF Deps
<1>5. e.index \in 0 .. N + 1 BY DEF Entries
<1>6. next \in {"deq_consume", "fin_load"} /\ (next = "fin_load" => r \in Threads) BY <1>3
<1> HIDE DEF dep, r, next
<1>7. m \in Calls /\ m.pc = next /\ m.kind = me[t].kind /\ m.dep = dep
  BY <1>1, <1>4, <1>5, <1>6 DEF Calls, Pcs, FastPcs
<1> HIDE DEF m
<1>8. Plain(m) BY <1>4, <1>6, <1>7 DEF Plain, FastPcs, CatchupPcs
<1>9. QED BY <1>2, <1>8, PlainStep

\* The next try, or the slow path.
LEMMA NextTryStep ==
  ASSUME RingInv, NEW t \in Threads, Mild(t), turn' = turn,
         me[t].pc \in {"enq_load", "enq_head", "enq_cas", "deq_retry"}, NextTry(t)
  PROVE  StepOK(t)
<1>1. me[t] \in Calls /\ me[t].tkt \in Nat /\ me[t].tries \in Nat /\ me[t].index \in 0 .. N + 1
  BY CallType
<1>2. ~Opened(t) /\ turn'[t].left >= 1 BY AtFast DEF FastPcs
<1>3. TriesInv(t) /\ TicketInv(t) BY DEF RingInv, CallInv
<1>4. me[t].kind \in {"enq", "deq"} BY <1>1, <1>3 DEF TriesInv, Calls
<1>5. CASE me[t].tries # 0
  <2> DEFINE m == Anew(me[t], FastPath(me[t].kind))
  <2>1. FastPath(me[t].kind) \in {"enq_faa", "deq_faa"} BY DEF FastPath
  <2>2. m \in Calls /\ m.pc \in {"enq_faa", "deq_faa"} /\ m.kind = me[t].kind
        /\ m.tries = me[t].tries /\ m.pc = FastPath(m.kind) /\ m.job = NoJob
    BY <1>1, <2>1, AnewType DEF Pcs, FastPcs
  <2>3. me' = [me EXCEPT ![t] = m] BY <1>5 DEF NextTry
  <2> HIDE DEF m
  <2>4. Plain(m) BY <1>1, <1>4, <1>5, <2>2 DEF Plain, FastPcs, CatchupPcs
  <2>5. QED BY <1>2, <2>3, <2>4, PlainStep
<1>6. CASE me[t].tries = 0
  <2> DEFINE side == IF me[t].kind = "enq" THEN "tail" ELSE "head"
             job == [NoJob EXCEPT !.rec = t, !.index = me[t].index, !.v = Word(me[t].tkt),
                                  !.side = side]
             m == [Anew(me[t], "req_local") EXCEPT !.job = job]
  <2>1. side \in Sides /\ side = KindSide(t) BY DEF Sides, KindSide
  <2>2. Word(me[t].tkt) \in Words /\ Word(me[t].tkt).cnt = me[t].tkt /\ ~Word(me[t].tkt).fin
    BY <1>1, Blanks DEF Word
  <2>3. job \in Jobs /\ job.rec = t /\ job.side = side /\ job.v = Word(me[t].tkt)
    BY <1>1, <2>1, <2>2, Blanks DEF Jobs, NoJob
  <2>4. me' = [me EXCEPT ![t] = m] BY <1>6 DEF NextTry
  <2> HIDE DEF job
  <2>5. m \in Calls /\ m.pc = "req_local" /\ m.kind = me[t].kind /\ m.job = job
    <3>1. "req_local" \in Pcs BY DEF Pcs, RequestPcs
    <3>2. Anew(me[t], "req_local") \in Calls /\ Anew(me[t], "req_local").pc = "req_local"
          /\ Anew(me[t], "req_local").kind = me[t].kind
      BY <1>1, <3>1, AnewType
    <3>3. QED BY <2>3, <3>2 DEF Calls
  <2> HIDE DEF m, side
  <2>6. me[t].tkt <= ctr'[side].cnt
    <3>1. me[t].tkt <= ctr[side].cnt BY <1>3, <2>1 DEF TicketInv
    <3>2. ctr[side].cnt \in Nat /\ ctr'[side].cnt \in Nat /\ ctr'[side].cnt >= ctr[side].cnt
      BY <2>1 DEF RingInv, Types, Mild, Forward
    <3>3. QED BY <1>1, <3>1, <3>2
  <2>7. QED BY <1>2, <1>4, <2>1, <2>2, <2>3, <2>4, <2>5, <2>6, RequestMildStep
<1>7. QED BY <1>5, <1>6

\* A step that only goes on.
LEMMA GoToFacts ==
  ASSUME RingInv, NEW t \in Threads, NEW next \in Pcs, GoTo(t, next)
  PROVE  /\ [me[t] EXCEPT !.pc = next] \in Calls
         /\ me' = [me EXCEPT ![t] = [me[t] EXCEPT !.pc = next]]
         /\ [me[t] EXCEPT !.pc = next].pc = next
         /\ \A f \in {"kind", "index", "tries", "tkt", "ent", "goal", "job", "dep"} :
              [me[t] EXCEPT !.pc = next][f] = me[t][f]
<1>1. me[t] \in Calls /\ DOMAIN me = Threads BY CallType
<1>2. QED BY <1>1 DEF GoTo, Calls

-----------------------------------------------------------------------------
(***************************************************************************)
(* The fast path, action by action                                         *)
(***************************************************************************)
LEMMA BeginStep ==
  ASSUME RingInv, NEW t \in Threads, At(t, "idle"), NEW kind \in {"enq", "deq"},
         NEW i \in 0 .. N + 1, Begin(t, kind, i), UNCHANGED <<ctr, threshold, entry, records>>
  PROVE  StepOK(t)
<1>1. ~Opened(t) /\ turn[t].left >= 1 BY AtFast DEF At
<1>2. Types BY DEF RingInv
<1> DEFINE w == [turn[t] EXCEPT !.left = @ - 1]
<1>3. w \in [left : 0 .. HelpDelay, next : Threads] /\ w.left = turn[t].left - 1
  BY <1>1, <1>2, Sizes DEF Types
<1>4. turn' = [turn EXCEPT ![t] = w] BY <1>2 DEF Begin, Types
<1> HIDE DEF w
<1>5. turn' \in [Threads -> [left : 0 .. HelpDelay, next : Threads]] /\ turn'[t] = w
      /\ \A u \in Threads \ {t} : turn'[u] = turn[u]
  BY <1>2, <1>3, <1>4 DEF Types
<1>6. Mild(t)
  <2>1. ctr' = ctr /\ loc' = loc /\ req' = req /\ p2' = p2 /\ threshold' = threshold
        /\ entry' = entry
    BY DEF records
  <2>2. \A s \in Sides : ctr[s].cnt \in Nat BY <1>2 DEF Types
  <2>3. Forward(t) BY <2>1, <2>2 DEF Forward
  <2>4. QED BY <1>2, <1>5, <2>1, <2>3 DEF Mild, Types
<1> DEFINE next == IF turn[t].left = 1 THEN "help_pending" ELSE FastPath(kind)
           tries == IF kind = "enq" THEN EnqTries ELSE DeqTries
           m == [Idle EXCEPT !.pc = next, !.kind = kind, !.index = i, !.tries = tries]
<1>7. me' = [me EXCEPT ![t] = m] BY DEF Begin
<1>8. tries \in 0 .. EnqTries + DeqTries /\ tries >= 1 BY Sizes
<1>9. next \in Pcs BY DEF FastPath, Pcs, HelpPcs, FastPcs
<1>10. turn[t].left = 1 => next = "help_pending" OBVIOUS
<1>11. turn[t].left # 1 => next = FastPath(kind) OBVIOUS
<1> HIDE DEF next, tries
<1>12. m \in Calls /\ m.pc = next /\ m.kind = kind /\ m.tries = tries /\ m.job = NoJob
  <2>1. Idle.job = NoJob BY DEF Idle
  <2>2. QED BY <1>8, <1>9, <2>1, Blanks DEF Calls
<1> HIDE DEF m
<1>13. CASE turn[t].left = 1
  <2>1. m.pc = "help_pending" BY <1>10, <1>12, <1>13
  <2>2. QED BY <1>1, <1>6, <1>7, <1>8, <1>12, <2>1, HelpMildStep DEF HelpPcs
<1>14. CASE turn[t].left # 1
  <2>1. m.pc = FastPath(kind) BY <1>11, <1>12, <1>14
  <2>2. m.pc \in {"enq_faa", "deq_faa"} BY <2>1 DEF FastPath
  <2>3. Plain(m) BY <1>8, <1>12, <2>1, <2>2 DEF Plain, FastPcs, CatchupPcs
  <2>4. turn[t].left \in Nat BY <1>2, Sizes DEF Types
  <2>5. turn'[t].left >= 1 BY <1>1, <1>3, <1>5, <1>14, <2>4
  <2>6. QED BY <1>1, <1>6, <1>7, <2>3, <2>5, PlainStep
<1>15. QED BY <1>13, <1>14

LEMMA StartSteps ==
  ASSUME RingInv, NEW t \in Threads, (\E i \in Indices : EnqStart(t, i)) \/ DeqStart(t)
  PROVE  StepOK(t)
<1>1. ASSUME NEW i \in Indices, EnqStart(t, i)
      PROVE  StepOK(t)
  <2>1. i \in 0 .. N + 1 BY Sizes DEF Indices
  <2>2. QED BY <1>1, <2>1, BeginStep DEF EnqStart
<1>2. ASSUME DeqStart(t)
      PROVE  StepOK(t)
  <2>1. Bot \in 0 .. N + 1 BY Sizes DEF Bot
  <2>2. CASE threshold < 0
    <3>1. UNCHANGED <<ctr, threshold, entry, records, turn>> /\ Return(t, Bot) /\ At(t, "idle")
      BY <1>2, <2>2 DEF DeqStart
    <3>2. Mild(t) BY <3>1, StillIsMild
    <3>3. ~Opened(t) /\ turn'[t].left >= 1 BY <3>1, AtFast DEF At
    <3>4. QED BY <2>1, <3>1, <3>2, <3>3, ReturnStep
  <2>3. CASE ~(threshold < 0)
    <3>1. UNCHANGED <<ctr, threshold, entry, records>> /\ Begin(t, "deq", Bot) /\ At(t, "idle")
      BY <1>2, <2>3 DEF DeqStart
    <3>2. QED BY <2>1, <3>1, BeginStep
  <2>4. QED BY <2>2, <2>3
<1>3. QED BY <1>1, <1>2

\* A counter that moves forward.
LEMMA CounterIsMild ==
  ASSUME RingInv, NEW t \in Threads, NEW side \in Sides,
         NEW c \in [cnt : Nat, tid : Threads \cup {NoTid}], c.cnt >= ctr[side].cnt,
         ctr' = [ctr EXCEPT ![side] = c], UNCHANGED <<threshold, entry, records, turn>>
  PROVE  Mild(t) /\ ctr'[side] = c
<1>1. Types BY DEF RingInv
<1>2. threshold' = threshold /\ entry' = entry /\ loc' = loc /\ req' = req /\ p2' = p2
      /\ turn' = turn
  BY DEF records
<1>3. ctr' \in [Sides -> [cnt : Nat, tid : Threads \cup {NoTid}]] /\ ctr'[side] = c
  BY <1>1 DEF Types
<1>4. \A s \in Sides : ctr'[s].cnt >= ctr[s].cnt
  <2> TAKE s \in Sides
  <2>1. ctr[s].cnt \in Nat BY <1>1 DEF Types
  <2>2. CASE s = side BY <1>3, <2>2
  <2>3. CASE s # side
    <3>1. ctr'[s] = ctr[s] BY <1>1, <2>3 DEF Types
    <3>2. QED BY <2>1, <3>1
  <2>4. QED BY <2>2, <2>3
<1>5. Forward(t) BY <1>2, <1>4 DEF Forward
<1>6. QED BY <1>1, <1>2, <1>3, <1>5 DEF Mild, Types

LEMMA TicketSteps ==
  ASSUME RingInv, NEW t \in Threads, EnqTicket(t) \/ DeqTicket(t)
  PROVE  StepOK(t)
<1>1. PICK side \in Sides, at \in {"enq_faa", "deq_faa"}, next \in {"enq_load", "deq_load"} :
        /\ TakeTicket(t, side, at, next) /\ side = IF at = "enq_faa" THEN "tail" ELSE "head"
        /\ next = IF at = "enq_faa" THEN "enq_load" ELSE "deq_load"
  BY DEF EnqTicket, DeqTicket, Sides
<1>2. Types /\ TriesInv(t) BY DEF RingInv, CallInv
<1>3. me[t].pc = at BY <1>1 DEF TakeTicket, At
<1>4. ~Opened(t) /\ turn[t].left >= 1 BY <1>3, AtFast DEF FastPcs
<1>5. me[t].tries >= 1 /\ at = FastPath(me[t].kind) /\ me[t].kind # "none"
  BY <1>2, <1>3 DEF TriesInv
<1>6. me[t].kind \in {"enq", "deq"} /\ me[t] \in Calls BY <1>5, CallType DEF Calls
<1>7. side = IF me[t].kind = "enq" THEN "tail" ELSE "head" BY <1>1, <1>5, <1>6 DEF FastPath
<1> DEFINE c == [ctr[side] EXCEPT !.cnt = @ + 1]
           m == [me[t] EXCEPT !.pc = next, !.tkt = ctr[side].cnt, !.tries = @ - 1]
<1>8. c \in [cnt : Nat, tid : Threads \cup {NoTid}] /\ c.cnt = ctr[side].cnt + 1
      /\ ctr[side].cnt \in Nat
  <2>1. ctr[side] \in [cnt : Nat, tid : Threads \cup {NoTid}] BY <1>2 DEF Types
  <2>2. QED BY <2>1
<1>9. ctr' = [ctr EXCEPT ![side] = c] /\ me' = [me EXCEPT ![t] = m]
      /\ UNCHANGED <<threshold, entry, records, turn>>
  BY <1>1, <1>2, CallType DEF TakeTicket, Types
<1>10. me[t].tries \in 1 .. EnqTries + DeqTries /\ EnqTries \in Nat /\ DeqTries \in Nat
  BY <1>5, <1>6, Sizes DEF Calls
<1>11. me[t].tries - 1 \in 0 .. EnqTries + DeqTries BY <1>10
<1>12. m \in Calls /\ m.pc = next /\ m.kind = me[t].kind /\ m.tkt = ctr[side].cnt
       /\ m.job = me[t].job
  BY <1>6, <1>8, <1>11 DEF Calls, Pcs, FastPcs
<1> HIDE DEF c, m
<1>13. Mild(t) /\ ctr'[side] = c
  <2>1. c.cnt >= ctr[side].cnt BY <1>8
  <2>2. QED BY <1>8, <1>9, <2>1, CounterIsMild
<1>14. m.tkt <= ctr'[side].cnt BY <1>8, <1>12, <1>13
<1>15. m.pc = "deq_load" => m.job = NoJob
  <2>1. JobInv(t) BY DEF RingInv, CallInv
  <2>2. QED BY <1>1, <1>3, <1>12, <2>1 DEF JobInv
<1>16. Plain(m) BY <1>5, <1>7, <1>12, <1>14, <1>15 DEF Plain, FastPcs, CatchupPcs
<1>17. turn' = turn BY <1>9
<1>18. QED BY <1>4, <1>9, <1>13, <1>16, <1>17, PlainStep

\* A step of the fast path that goes on, with its locals as they are.
LEMMA FastGoStep ==
  ASSUME RingInv, NEW t \in Threads, Mild(t), turn' = turn, me[t].pc \in FastPcs,
         NEW next \in FastPcs, GoTo(t, next),
         next \notin {"enq_faa", "deq_faa", "deq_load", "deq_cas", "fin_load", "fin_cas"},
         next = "deq_tail" => me[t].pc = "deq_cas",
         me[t].pc \in {"enq_load", "enq_head", "enq_cas", "deq_load", "deq_cas", "deq_tail",
                       "deq_retry"}
           \/ next \notin {"enq_load", "enq_head", "enq_cas", "deq_load", "deq_cas",
                           "deq_tail", "deq_retry"}
  PROVE  StepOK(t)
<1>1. ~Opened(t) /\ turn'[t].left >= 1 BY AtFast
<1>2. TriesInv(t) /\ TicketInv(t) /\ Types BY DEF RingInv, CallInv
<1> DEFINE m == [me[t] EXCEPT !.pc = next]
<1>3. next \in Pcs BY DEF Pcs
<1>4. m \in Calls /\ me' = [me EXCEPT ![t] = m] /\ m.pc = next /\ m.kind = me[t].kind
      /\ m.tkt = me[t].tkt /\ m.job = me[t].job
  BY <1>3, GoToFacts
<1> HIDE DEF m
<1>5. m.kind # "none" BY <1>2, <1>4 DEF TriesInv, FastPcs
<1>6. m.pc \in {"enq_load", "enq_head", "enq_cas", "deq_load", "deq_cas", "deq_tail",
                "deq_retry"} =>
        m.tkt <= ctr'[KindSide(t)].cnt
  <2>1. KindSide(t) \in Sides BY DEF KindSide, Sides
  <2>2. ctr[KindSide(t)].cnt \in Nat /\ ctr'[KindSide(t)].cnt \in Nat
        /\ ctr'[KindSide(t)].cnt >= ctr[KindSide(t)].cnt /\ me[t].tkt \in Nat
    BY <1>2, <2>1, CallType DEF Types, Mild, Forward
  <2>3. QED BY <1>2, <1>4, <2>2 DEF TicketInv
<1>7. m.pc = "deq_tail" => m.job = NoJob
  <2>1. JobInv(t) BY DEF RingInv, CallInv
  <2>2. QED BY <1>4, <2>1 DEF JobInv
<1>8. Plain(m) BY <1>4, <1>5, <1>6, <1>7 DEF Plain, KindSide, FastPcs, CatchupPcs
<1>9. QED BY <1>1, <1>4, <1>8, PlainStep

LEMMA EnqLookStep ==
  ASSUME RingInv, NEW t \in Threads, Mild(t), turn' = turn, me[t].pc \in {"enq_load", "enq_cas"},
         EnqLook(t)
  PROVE  StepOK(t)
<1> DEFINE e == entry[Slot(me[t].tkt)]
           next == AfterEnqLook(e, me[t].tkt)
<1>1. CASE next = "enq_fail"
  <2>1. NextTry(t) BY <1>1 DEF EnqLook
  <2>2. QED BY <2>1, NextTryStep
<1>2. CASE next # "enq_fail"
  <2>1. ~Opened(t) /\ turn'[t].left >= 1 BY AtFast DEF FastPcs
  <2>2. TriesInv(t) /\ TicketInv(t) /\ Types BY DEF RingInv, CallInv
  <2>3. next \in {"enq_head", "enq_cas"} BY <1>2 DEF AfterEnqLook
  <2>4. e \in Entries /\ me[t] \in Calls /\ me[t].tkt \in Nat BY EntryHere, CallType
  <2> DEFINE m == [me[t] EXCEPT !.pc = next, !.ent = e]
  <2>5. me' = [me EXCEPT ![t] = m] BY <1>2, CallType DEF EnqLook
  <2> HIDE DEF e, next
  <2>6. m \in Calls /\ m.pc = next /\ m.kind = me[t].kind /\ m.tkt = me[t].tkt
    BY <2>3, <2>4 DEF Calls, Pcs, FastPcs
  <2> HIDE DEF m
  <2>7. m.tkt <= ctr'[KindSide(t)].cnt
    <3>1. KindSide(t) \in Sides BY DEF KindSide, Sides
    <3>2. ctr[KindSide(t)].cnt \in Nat /\ ctr'[KindSide(t)].cnt \in Nat
          /\ ctr'[KindSide(t)].cnt >= ctr[KindSide(t)].cnt
      BY <2>2, <3>1 DEF Types, Mild, Forward
    <3>3. me[t].tkt <= ctr[KindSide(t)].cnt BY <2>2 DEF TicketInv
    <3>4. QED BY <2>4, <2>6, <3>2, <3>3
  <2>8. m.kind # "none" BY <2>2, <2>6 DEF TriesInv
  <2>9. Plain(m) BY <2>3, <2>6, <2>7, <2>8 DEF Plain, KindSide, FastPcs, CatchupPcs
  <2>10. QED BY <2>1, <2>5, <2>9, PlainStep
<1>3. QED BY <1>1, <1>2

LEMMA ThresholdIsMild ==
  ASSUME RingInv, NEW t \in Threads,
         threshold' = ThreshMax \/ threshold' = threshold - 1 \/ threshold' = threshold,
         UNCHANGED <<ctr, entry, records, turn>>
  PROVE  Mild(t)
<1>1. threshold \in Int /\ threshold <= ThreshMax /\ entry \in [Slots -> Entries]
  BY DEF RingInv, Types
<1>2. threshold' \in Int /\ threshold' <= ThreshMax BY <1>1, Sizes
<1>3. entry' \in [Slots -> Entries] BY <1>1
<1>4. QED BY <1>2, <1>3, QuietIsMild

LEMMA EnqueueSteps ==
  ASSUME RingInv, NEW t \in Threads,
         EnqLoad(t) \/ EnqHead(t) \/ EnqCas(t) \/ EnqThreshold(t) \/ EnqReset(t)
  PROVE  StepOK(t)
<1>0. Bot \in 0 .. N + 1 BY Sizes DEF Bot
<1>1. CASE EnqLoad(t)
  <2>1. Mild(t) /\ turn' = turn BY <1>1, StillIsMild DEF EnqLoad
  <2>2. QED BY <1>1, <2>1, EnqLookStep DEF EnqLoad, At
<1>2. CASE EnqHead(t)
  <2>1. Mild(t) /\ turn' = turn BY <1>2, StillIsMild DEF EnqHead
  <2>2. me[t].pc = "enq_head" BY <1>2 DEF EnqHead, At
  <2>3. CASE GoTo(t, "enq_cas") BY <2>1, <2>2, <2>3, FastGoStep DEF FastPcs
  <2>4. CASE NextTry(t) BY <2>1, <2>2, <2>4, NextTryStep
  <2>5. QED BY <1>2, <2>3, <2>4 DEF EnqHead
<1>3. CASE EnqCas(t)
  <2>1. me[t].pc = "enq_cas" /\ turn' = turn /\ UNCHANGED <<ctr, threshold, records, turn>>
    BY <1>3 DEF EnqCas, At
  <2> DEFINE e == Produced(me[t].ent, me[t].tkt, me[t].index, TRUE)
  <2>2. e \in Entries BY CallType, EntryTypes
  <2>3. CASE Replaces(t, e) /\ GoTo(t, "enq_threshold")
    <3>1. Mild(t)
      <4> HIDE DEF e
      <4>1. QED BY <2>1, <2>2, <2>3, ReplaceIsMild
    <3>2. QED BY <2>1, <2>3, <3>1, FastGoStep DEF FastPcs
  <2>4. CASE Missed(t) /\ EnqLook(t)
    <3>1. Mild(t)
      <4> HIDE DEF e
      <4>1. QED BY <2>1, <2>2, <2>4, ReplaceIsMild
    <3>2. QED BY <2>1, <2>4, <3>1, EnqLookStep
  <2>5. QED BY <1>3, <2>3, <2>4 DEF EnqCas
<1>4. CASE EnqThreshold(t)
  <2>1. Mild(t) /\ turn' = turn BY <1>4, StillIsMild DEF EnqThreshold
  <2>2. me[t].pc = "enq_threshold" BY <1>4 DEF EnqThreshold, At
  <2>3. CASE GoTo(t, "enq_reset") BY <2>1, <2>2, <2>3, FastGoStep DEF FastPcs
  <2>4. CASE Return(t, Bot)
    <3>1. ~Opened(t) /\ turn'[t].left >= 1 BY <2>1, <2>2, AtFast DEF FastPcs
    <3>2. QED BY <1>0, <2>1, <2>4, <3>1, ReturnStep
  <2>5. QED BY <1>4, <2>3, <2>4 DEF EnqThreshold
<1>5. CASE EnqReset(t)
  <2>1. Mild(t) /\ turn' = turn BY <1>5, ThresholdIsMild DEF EnqReset
  <2>2. me[t].pc = "enq_reset" /\ Return(t, Bot) BY <1>5 DEF EnqReset, At
  <2>3. ~Opened(t) /\ turn'[t].left >= 1 BY <2>1, <2>2, AtFast DEF FastPcs
  <2>4. QED BY <1>0, <2>1, <2>2, <2>3, ReturnStep
<1>6. QED BY <1>1, <1>2, <1>3, <1>4, <1>5

\* A store of one local word, or a successful compare-and-swap of it.
LEMMA LocIsMild ==
  ASSUME RingInv, NEW t \in Threads, NEW side \in Sides, NEW r \in Threads, NEW w \in Words,
         loc' = [loc EXCEPT ![side][r] = w], UNCHANGED <<ctr, threshold, entry, req, p2>>,
         w # loc[side][r] => /\ w.cnt <= ctr[side].cnt
                             /\ \/ r = t /\ At(t, "req_local")
                                \/ ~loc[side][r].fin /\ w.cnt >= loc[side][r].cnt,
         turn' \in [Threads -> [left : 0 .. HelpDelay, next : Threads]],
         \A u \in Threads \ {t} : turn'[u] = turn[u]
  PROVE  Mild(t) /\ loc'[side][r] = w
<1>1. Types BY DEF RingInv
<1>2. loc[side] \in [Threads -> Words] /\ loc \in [Sides -> [Threads -> Words]]
  BY <1>1 DEF Types
<1>3. loc' = [loc EXCEPT ![side] = [loc[side] EXCEPT ![r] = w]] BY <1>2
<1>4. loc' \in [Sides -> [Threads -> Words]] BY <1>2, <1>3
<1>5. ASSUME NEW s \in Sides, NEW x \in Threads
      PROVE  loc'[s][x] = IF s = side /\ x = r THEN w ELSE loc[s][x]
  BY <1>2, <1>3
<1>6. \A s \in Sides : ctr'[s].cnt = ctr[s].cnt /\ ctr[s].cnt \in Nat BY <1>1 DEF Types
<1>7. Forward(t) BY <1>5, <1>6 DEF Forward
<1>8. QED BY <1>1, <1>4, <1>5, <1>7 DEF Mild, Types

LEMMA FinishIsMild ==
  ASSUME RingInv, NEW t \in Threads, NEW side \in Sides, NEW r \in Threads, NEW n \in Nat,
         Finish(side, r, n), UNCHANGED <<ctr, threshold, entry, req, p2>>,
         turn' \in [Threads -> [left : 0 .. HelpDelay, next : Threads]],
         \A u \in Threads \ {t} : turn'[u] = turn[u]
  PROVE  Mild(t)
<1>1. Types /\ RecordInv(r) BY DEF RingInv, CallInv
<1>2. loc[side][r] \in Words /\ loc[side][r].cnt <= ctr[side].cnt
  BY <1>1 DEF Types, RecordInv
<1>3. CASE loc[side][r] = Word(n)
  <2> DEFINE w == WithFin(n)
  <2>1. w \in Words /\ w.cnt = n BY DEF WithFin, Word, Words
  <2>2. loc[side][r].cnt = n /\ ~loc[side][r].fin BY <1>3 DEF Word
  <2>3. loc' = [loc EXCEPT ![side][r] = w] BY <1>3 DEF Finish
  <2> HIDE DEF w
  <2>4. w.cnt <= ctr[side].cnt /\ w.cnt >= loc[side][r].cnt BY <1>2, <2>1, <2>2
  <2>5. QED BY <2>1, <2>2, <2>3, <2>4, LocIsMild
<1>4. CASE loc[side][r] # Word(n)
  <2>1. loc' = loc BY <1>4 DEF Finish
  <2>2. \A s \in Sides : ctr'[s].cnt = ctr[s].cnt /\ ctr[s].cnt \in Nat BY <1>1 DEF Types
  <2>3. Forward(t) BY <2>1, <2>2 DEF Forward
  <2>4. QED BY <1>1, <2>1, <2>3 DEF Mild, Types
<1>5. QED BY <1>3, <1>4

\* Nothing of turn changes.
LEMMA TurnStays ==
  ASSUME RingInv, NEW t \in Threads, turn' = turn
  PROVE  /\ turn' \in [Threads -> [left : 0 .. HelpDelay, next : Threads]]
         /\ \A u \in Threads \ {t} : turn'[u] = turn[u]
BY DEF RingInv, Types

LEMMA DeqLookStep ==
  ASSUME RingInv, NEW t \in Threads, Mild(t), turn' = turn, me[t].pc \in {"deq_load", "deq_cas"},
         DeqLook(t)
  PROVE  StepOK(t)
<1> DEFINE e == entry[Slot(me[t].tkt)]
           next == AfterDeqLook(e, me[t].tkt)
<1>1. ~Opened(t) /\ turn'[t].left >= 1 BY AtFast DEF FastPcs
<1>2. TriesInv(t) /\ JobInv(t) /\ TicketInv(t) /\ Types BY DEF RingInv, CallInv
<1>3. e \in Entries /\ me[t] \in Calls /\ me[t].tkt \in Nat BY EntryHere, CallType
<1>4. me[t].kind # "none" /\ me[t].job = NoJob BY <1>2 DEF TriesInv, JobInv
<1>5. CASE next = "deq_consume"
  <2>1. Consume(t, e) BY <1>5 DEF DeqLook
  <2> HIDE DEF e
  <2>2. QED BY <1>1, <1>3, <1>4, <2>1, ConsumeStep
<1>6. CASE next # "deq_consume"
  <2>3. next \in {"deq_cas", "deq_tail"} BY <1>6 DEF AfterDeqLook
  <2> DEFINE m == [me[t] EXCEPT !.pc = next, !.ent = e]
  <2>5. me' = [me EXCEPT ![t] = m] BY <1>6, CallType DEF DeqLook
  <2> HIDE DEF e, next
  <2>6. m \in Calls /\ m.pc = next /\ m.kind = me[t].kind /\ m.tkt = me[t].tkt
        /\ m.job = me[t].job
    BY <1>3, <2>3 DEF Calls, Pcs, FastPcs
  <2> HIDE DEF m
  <2>7. m.tkt <= ctr'[KindSide(t)].cnt
    <3>1. KindSide(t) \in Sides BY DEF KindSide, Sides
    <3>2. ctr[KindSide(t)].cnt \in Nat /\ ctr'[KindSide(t)].cnt \in Nat
          /\ ctr'[KindSide(t)].cnt >= ctr[KindSide(t)].cnt
      BY <1>2, <3>1 DEF Types, Mild, Forward
    <3>3. me[t].tkt <= ctr[KindSide(t)].cnt BY <1>2 DEF TicketInv
    <3>4. QED BY <1>3, <2>6, <3>2, <3>3
  <2>9. Plain(m) BY <1>4, <2>3, <2>6, <2>7 DEF Plain, KindSide, FastPcs, CatchupPcs
  <2>10. QED BY <1>1, <2>5, <2>9, PlainStep
<1>7. QED BY <1>5, <1>6

\* What LookTail leaves, on either path.
LEMMA LookTailFacts ==
  ASSUME RingInv, NEW t \in Threads, NEW next \in Pcs, LookTail(t, next)
  PROVE  \E m \in Calls :
           /\ me' = [me EXCEPT ![t] = m] /\ m.pc \in {"cu_load", next}
           /\ m.kind = me[t].kind /\ m.tries = me[t].tries /\ m.job = me[t].job
           /\ m.tkt = me[t].tkt /\ m.dep = me[t].dep
<1>1. me[t] \in Calls /\ me[t].tkt \in Nat /\ ctr["tail"].cnt \in Nat
  BY CallType DEF RingInv, Types, Sides
<1> DEFINE g == [NoGoal EXCEPT !.tail = ctr["tail"].cnt, !.head = me[t].tkt + 1]
           m1 == [me[t] EXCEPT !.pc = "cu_load", !.goal = g]
           m2 == [me[t] EXCEPT !.pc = next]
<1>2. me' = [me EXCEPT ![t] = m1] \/ me' = [me EXCEPT ![t] = m2]
  BY CallType DEF LookTail
<1>3. g \in Goals
  <2>1. NoGoal \in Goals BY Blanks
  <2>2. me[t].tkt + 1 \in Nat BY <1>1
  <2>3. QED BY <1>1, <2>1, <2>2 DEF Goals
<1> HIDE DEF g
<1>4. m1 \in Calls /\ m1.pc = "cu_load" /\ m1.kind = me[t].kind /\ m1.tries = me[t].tries
      /\ m1.job = me[t].job /\ m1.tkt = me[t].tkt /\ m1.dep = me[t].dep
  BY <1>1, <1>3 DEF Calls, Pcs, CatchupPcs
<1>5. m2 \in Calls /\ m2.pc = next /\ m2.kind = me[t].kind /\ m2.tries = me[t].tries
      /\ m2.job = me[t].job /\ m2.tkt = me[t].tkt /\ m2.dep = me[t].dep
  BY <1>1 DEF Calls
<1> HIDE DEF m1, m2
<1>6. QED BY <1>2, <1>4, <1>5

LEMMA FinishSteps ==
  ASSUME RingInv, NEW t \in Threads, FinLoad(t) \/ FinCas(t)
  PROVE  StepOK(t)
<1>1. TriesInv(t) /\ JobInv(t) /\ Types BY DEF RingInv, CallInv
<1>2. CASE FinLoad(t)
  <2>1. me[t].pc = "fin_load" BY <1>2 DEF FinLoad, At
  <2>2. Mild(t) /\ turn' = turn BY <1>2, StillIsMild DEF FinLoad
  <2>3. ~Opened(t) /\ turn'[t].left >= 1 BY <2>1, <2>2, AtFast DEF FastPcs
  <2>4. me[t].dep.rec \in Threads /\ me[t].kind # "none" BY <1>1, <2>1 DEF JobInv, TriesInv
  <2> DEFINE r == me[t].dep.rec
             found == loc["tail"][r].cnt = me[t].tkt
             next == IF found THEN "fin_cas"
                     ELSE IF NextTid(r) = t THEN "deq_consume" ELSE "fin_load"
             x == IF found THEN r ELSE NextTid(r)
             dep == [me[t].dep EXCEPT !.rec = x]
             m == [me[t] EXCEPT !.pc = next, !.dep = dep]
  <2>5. me' = [me EXCEPT ![t] = m] BY <1>2, CallType DEF FinLoad
  <2>6. x \in Threads BY <2>4, NextTidType
  <2>7. next \in {"fin_cas", "deq_consume", "fin_load"} OBVIOUS
  <2> HIDE DEF x, next
  <2>8. dep \in Deps /\ dep.rec = x BY <2>6, CallType DEF Deps
  <2> HIDE DEF dep
  <2>9. m \in Calls /\ m.pc = next /\ m.kind = me[t].kind /\ m.dep = dep
    BY <2>7, <2>8, CallType DEF Calls, Pcs, FastPcs
  <2> HIDE DEF m
  <2>10. Plain(m) BY <2>4, <2>6, <2>7, <2>8, <2>9 DEF Plain, FastPcs, CatchupPcs
  <2>11. QED BY <2>2, <2>3, <2>5, <2>10, PlainStep
<1>3. CASE FinCas(t)
  <2>1. me[t].pc = "fin_cas" /\ turn' = turn /\ GoTo(t, "deq_consume")
        /\ UNCHANGED <<ctr, threshold, entry, req, p2>>
        /\ Finish("tail", me[t].dep.rec, me[t].tkt)
    BY <1>3 DEF FinCas, At
  <2>2. me[t].dep.rec \in Threads BY <1>1, <2>1 DEF JobInv
  <2>3. "tail" \in Sides /\ me[t].tkt \in Nat BY CallType DEF Sides
  <2>4. Mild(t) BY <2>1, <2>2, <2>3, TurnStays, FinishIsMild
  <2>5. QED BY <2>1, <2>4, FastGoStep DEF FastPcs
<1>4. QED BY <1>2, <1>3

LEMMA EntryIsMild ==
  ASSUME RingInv, NEW t \in Threads, NEW s \in Slots, NEW e \in Entries,
         entry' = [entry EXCEPT ![s] = e], UNCHANGED <<ctr, threshold, records, turn>>
  PROVE  Mild(t)
<1>1. threshold \in Int /\ threshold <= ThreshMax /\ entry \in [Slots -> Entries]
  BY DEF RingInv, Types
<1>2. entry' \in [Slots -> Entries] BY <1>1
<1>3. QED BY <1>1, <1>2, QuietIsMild

LEMMA DequeueSteps ==
  ASSUME RingInv, NEW t \in Threads,
         DeqLoad(t) \/ DeqConsume(t) \/ DeqCas(t) \/ DeqTail(t) \/ DeqRetry(t) \/ DeqEmpty(t)
  PROVE  StepOK(t)
<1>0. Bot \in 0 .. N + 1 /\ BotC \in 0 .. N + 1 BY Sizes DEF Bot, BotC
<1>1. CASE DeqLoad(t)
  <2>1. Mild(t) /\ turn' = turn BY <1>1, StillIsMild DEF DeqLoad
  <2>2. QED BY <1>1, <2>1, DeqLookStep DEF DeqLoad, At
<1>2. CASE DeqConsume(t)
  <2>1. me[t].pc = "deq_consume" /\ Return(t, me[t].index)
        /\ UNCHANGED <<ctr, threshold, records, turn>>
    BY <1>2 DEF DeqConsume, At
  <2> DEFINE s == Slot(me[t].tkt)
             e == [entry[s] EXCEPT !.index = BotC, !.enq = TRUE]
  <2>2. s \in Slots /\ entry[s] \in Entries BY EntryHere
  <2>3. entry' = [entry EXCEPT ![s] = e] BY <1>2, <2>2 DEF DeqConsume, RingInv, Types
  <2> HIDE DEF s
  <2>4. e \in Entries BY <1>0, <2>2 DEF Entries
  <2> HIDE DEF e
  <2>5. Mild(t) BY <2>1, <2>2, <2>3, <2>4, EntryIsMild
  <2>6. ~Opened(t) /\ turn'[t].left >= 1 BY <2>1, AtFast DEF FastPcs
  <2>7. QED BY <2>1, <2>5, <2>6, CallType, ReturnStep
<1>3. CASE DeqCas(t)
  <2>1. me[t].pc = "deq_cas" /\ turn' = turn /\ UNCHANGED <<ctr, threshold, records, turn>>
    BY <1>3 DEF DeqCas, At
  <2> DEFINE e == Spoiled(me[t].ent, me[t].tkt)
  <2>2. e \in Entries BY CallType, EntryTypes
  <2>3. CASE Replaces(t, e) /\ GoTo(t, "deq_tail")
    <3>1. Mild(t)
      <4> HIDE DEF e
      <4>1. QED BY <2>1, <2>2, <2>3, ReplaceIsMild
    <3>2. QED BY <2>1, <2>3, <3>1, FastGoStep DEF FastPcs
  <2>4. CASE Missed(t) /\ DeqLook(t)
    <3>1. Mild(t)
      <4> HIDE DEF e
      <4>1. QED BY <2>1, <2>2, <2>4, ReplaceIsMild
    <3>2. QED BY <2>1, <2>4, <3>1, DeqLookStep
  <2>5. QED BY <1>3, <2>3, <2>4 DEF DeqCas
<1>4. CASE DeqTail(t)
  <2>1. Mild(t) /\ turn' = turn BY <1>4, StillIsMild DEF DeqTail
  <2>2. me[t].pc = "deq_tail" /\ LookTail(t, "deq_retry") BY <1>4 DEF DeqTail, At
  <2>3. ~Opened(t) /\ turn'[t].left >= 1 BY <2>1, <2>2, AtFast DEF FastPcs
  <2>4. TriesInv(t) /\ JobInv(t) /\ TicketInv(t) /\ Types BY DEF RingInv, CallInv
  <2>5. "deq_retry" \in Pcs BY DEF Pcs, FastPcs
  <2>6. PICK m \in Calls :
           /\ me' = [me EXCEPT ![t] = m] /\ m.pc \in {"cu_load", "deq_retry"}
           /\ m.kind = me[t].kind /\ m.tries = me[t].tries /\ m.job = me[t].job
           /\ m.tkt = me[t].tkt /\ m.dep = me[t].dep
    BY <2>2, <2>5, LookTailFacts
  <2>7. m.job = NoJob /\ m.kind # "none" BY <2>2, <2>4, <2>6 DEF TriesInv, JobInv
  <2>8. m.tkt <= ctr'[KindSide(t)].cnt
    <3>1. ctr' = ctr BY <1>4 DEF DeqTail
    <3>2. QED BY <2>2, <2>4, <2>6, <3>1 DEF TicketInv
  <2>9. Plain(m) BY <2>6, <2>7, <2>8 DEF Plain, KindSide, FastPcs, CatchupPcs
  <2>10. QED BY <2>1, <2>3, <2>6, <2>9, PlainStep
<1>5. CASE DeqRetry(t)
  <2>1. Mild(t) /\ turn' = turn BY <1>5, ThresholdIsMild DEF DeqRetry
  <2>2. me[t].pc = "deq_retry" BY <1>5 DEF DeqRetry, At
  <2>3. CASE Return(t, Bot)
    <3>1. ~Opened(t) /\ turn'[t].left >= 1 BY <2>1, <2>2, AtFast DEF FastPcs
    <3>2. QED BY <1>0, <2>1, <2>3, <3>1, ReturnStep
  <2>4. CASE NextTry(t) BY <2>1, <2>2, <2>4, NextTryStep
  <2>5. QED BY <1>5, <2>3, <2>4 DEF DeqRetry
<1>6. CASE DeqEmpty(t)
  <2>1. Mild(t) /\ turn' = turn BY <1>6, ThresholdIsMild DEF DeqEmpty
  <2>2. me[t].pc = "deq_empty" /\ Return(t, Bot) BY <1>6 DEF DeqEmpty, At
  <2>3. ~Opened(t) /\ turn'[t].left >= 1 BY <2>1, <2>2, AtFast DEF FastPcs
  <2>4. QED BY <1>0, <2>1, <2>2, <2>3, ReturnStep
<1>7. QED BY <1>1, <1>2, <1>3, <1>4, <1>5, <1>6

-----------------------------------------------------------------------------
(***************************************************************************)
(* catchup, on either path                                                 *)
(***************************************************************************)
\* Locals of a thread that goes on working on the same request.
LEMMA WorkKeeps ==
  ASSUME RingInv, NEW t \in Threads, Mild(t), Working(t), NEW m \in Calls,
         m.pc \in (FaaPcs \ {"pub_fields", "pub_seq2"}) \cup SlowPcs \cup CatchupPcs,
         m.job = me[t].job, m.kind = me[t].kind, m.tries = me[t].tries,
         m.pc \in Phase2Pcs => me[t].pc \in Phase2Pcs,
         m.pc = "faa_claim" => me[t].pc \in Phase2Pcs,
         m.pc \in ClaimedPcs => me[t].pc \in ClaimedPcs,
         m.pc \in Phase2Pcs => m.dep.rec \in Threads,
         m.pc = "p2_inc" => m.dep.side \in Sides /\ m.dep.of \in Threads,
         m.pc = "cu_cas" => m.goal.tail < m.goal.head,
         m.pc \in {"p2_fields", "p2_seq1"} => m.dep.seq <= p2[m.dep.rec].seq2,
         m.pc = "p2_seq1" /\ p2[m.dep.rec].seq1 = m.dep.seq =>
           /\ m.dep.side = p2[m.dep.rec].side /\ m.dep.of = p2[m.dep.rec].of
           /\ m.dep.v = p2[m.dep.rec].v
  PROVE  Work(t, m)
<1>1. CallInv(t) /\ Types BY DEF RingInv
<1>2. JobInv(t) /\ TicketInv(t) BY <1>1 DEF CallInv
<1>3. me[t].job.side \in Sides BY <1>2 DEF JobInv
<1> DEFINE side == me[t].job.side
           v == me[t].job.v.cnt
           c == me[t].job.cnt
<1>4. v \in Nat /\ c \in Nat BY CallType
<1>5. ctr[side].cnt \in Nat /\ ctr'[side].cnt \in Nat /\ ctr'[side].cnt >= ctr[side].cnt
  BY <1>1, <1>3 DEF Types, Mild, Forward
<1>6. v <= ctr[side].cnt /\ ~me[t].job.v.fin BY <1>2 DEF TicketInv
<1>7. me[t].pc \in {"faa_claim"} \cup Phase2Pcs \cup ClaimedPcs => c <= ctr[side].cnt
  BY <1>2 DEF TicketInv
<1>8. me[t].pc \in Phase2Pcs => v <= c BY <1>2 DEF TicketInv
<1> HIDE DEF side, v, c
<1>9. v <= ctr'[side].cnt BY <1>4, <1>5, <1>6
<1>10. c <= ctr[side].cnt => c <= ctr'[side].cnt BY <1>4, <1>5
<1>11. m.pc \in {"faa_claim"} \cup Phase2Pcs \cup ClaimedPcs => c <= ctr'[side].cnt
  BY <1>7, <1>10
<1>12. m.pc \in {"faa_claim"} \cup Phase2Pcs => v <= c BY <1>8
<1>13. QED BY <1>6, <1>9, <1>11, <1>12 DEF Work, side, v, c

\* Where catchup can leave a thread, with the goal it has then.
LEMMA CatchupGoes ==
  ASSUME RingInv, NEW t \in Threads, Mild(t), turn' = turn, me[t].pc \in CatchupPcs,
         NEW next, next \in CatchupPcs \/ next = AfterCatchup(t), NEW g \in Goals,
         next = "cu_cas" => g.tail < g.head,
         me' = [me EXCEPT ![t].pc = next, ![t].goal = g]
  PROVE  StepOK(t)
<1>1. TriesInv(t) BY DEF RingInv, CallInv
<1>2. me[t] \in Calls BY CallType
<1> DEFINE m == [me[t] EXCEPT !.pc = next, !.goal = g]
<1>3. me' = [me EXCEPT ![t] = m] BY CallType
<1>4. next \in Pcs /\ next \in CatchupPcs \cup {"deq_empty", "sd_threshold"}
  BY DEF AfterCatchup, Pcs, CatchupPcs, FastPcs, SlowPcs
<1>5. m \in Calls /\ m.pc = next /\ m.goal = g /\ m.kind = me[t].kind /\ m.tries = me[t].tries
      /\ m.job = me[t].job
  BY <1>2, <1>4 DEF Calls
<1> HIDE DEF m
<1>6. me[t].kind # "none" BY <1>1 DEF TriesInv, CatchupPcs
<1>7. CASE me[t].job = NoJob
  <2>1. ~Working(t) /\ ~Helping(t) /\ ~Opened(t)
    BY <1>7 DEF Working, Helping, Opened, ForItself, CatchupPcs, FaaPcs, SlowPcs, HelpPcs,
                Phase2Pcs, ClaimedPcs
  <2>2. turn'[t].left >= 1 BY <1>1, <2>1 DEF TriesInv
  <2>3. next \in CatchupPcs \cup {"deq_empty"} BY <1>7 DEF AfterCatchup
  <2>4. Plain(m) BY <1>5, <1>6, <1>7, <2>3 DEF Plain, CatchupPcs, FastPcs
  <2>5. QED BY <1>3, <2>1, <2>2, <2>4, PlainStep
<1>8. CASE me[t].job # NoJob
  <2>1. Working(t) BY <1>8 DEF Working
  <2>2. next \in CatchupPcs \cup {"sd_threshold"} BY <1>8 DEF AfterCatchup
  <2>3. /\ m.pc \in (FaaPcs \ {"pub_fields", "pub_seq2"}) \cup SlowPcs \cup CatchupPcs
        /\ m.pc \notin Phase2Pcs /\ m.pc \notin ClaimedPcs
        /\ m.pc \notin {"faa_claim", "p2_inc", "p2_fields", "p2_seq1"}
    BY <1>5, <2>2 DEF CatchupPcs, SlowPcs, Phase2Pcs, ClaimedPcs
  <2>4. m.pc = "cu_cas" => m.goal.tail < m.goal.head BY <1>5
  <2>5. Work(t, m) BY <1>5, <2>1, <2>3, <2>4, WorkKeeps
  <2>6. QED BY <1>3, <2>1, <2>5, WorkStep
<1>9. QED BY <1>7, <1>8

LEMMA CatchupSteps ==
  ASSUME RingInv, NEW t \in Threads,
         CatchupLoad(t) \/ CatchupHead(t) \/ CatchupCas(t) \/ CatchupAgain(t) \/ CatchupTail(t)
  PROVE  StepOK(t)
<1>0. /\ me[t].goal \in Goals /\ Types /\ JobInv(t) /\ NoGoal \in Goals
      /\ \A s \in Sides : ctr[s] \in [cnt : Nat, tid : Threads \cup {NoTid}]
      /\ "tail" \in Sides /\ "head" \in Sides
  BY CallType, Blanks DEF RingInv, CallInv, Types, Sides
<1> DEFINE after == AfterCatchup(t)
           goal == me[t].goal
<1>1. CASE CatchupLoad(t)
  <2>1. Mild(t) /\ turn' = turn BY <1>1, StillIsMild DEF CatchupLoad
  <2>2. me[t].pc \in CatchupPcs BY <1>1 DEF CatchupLoad, At, CatchupPcs
  <2> DEFINE cur == ctr["tail"]
             next == IF cur.cnt >= goal.head THEN after
                     ELSE IF cur.cnt # goal.tail THEN "cu_head" ELSE "cu_cas"
             g == IF cur.cnt >= goal.head THEN NoGoal
                  ELSE [goal EXCEPT !.tail = cur.cnt, !.tid = cur.tid]
  <2>3. me' = [me EXCEPT ![t].pc = next, ![t].goal = g] BY <1>1 DEF CatchupLoad
  <2>4. g \in Goals BY <1>0 DEF Goals
  <2>5. next \in CatchupPcs \/ next = after BY DEF CatchupPcs
  <2>6. next = "cu_cas" => g.tail < g.head
    <3>1. goal.head \in Nat /\ cur.cnt \in Nat BY <1>0 DEF Goals
    <3>2. after # "cu_cas" BY DEF AfterCatchup
    <3>3. QED BY <3>1, <3>2, <1>0 DEF Goals
  <2> HIDE DEF next, g
  <2>7. QED BY <2>1, <2>2, <2>3, <2>4, <2>5, <2>6, CatchupGoes
<1>2. ASSUME NEW h \in Goals, CatchupRound(t, h), me[t].pc \in CatchupPcs,
             UNCHANGED <<ctr, threshold, entry, records, turn>>
      PROVE  StepOK(t)
  <2>1. Mild(t) /\ turn' = turn BY <1>2, StillIsMild
  <2> DEFINE over == h.tail >= h.head \/ h.tries + 1 = Catchups
             next == IF over THEN after ELSE "cu_load"
             g == IF over THEN NoGoal ELSE [h EXCEPT !.tries = @ + 1, !.tid = NoTid]
  <2>2. me' = [me EXCEPT ![t].pc = next, ![t].goal = g] BY <1>2 DEF CatchupRound
  <2>3. g \in Goals
    <3>1. h.tries + 1 \in Nat BY <1>2 DEF Goals
    <3>2. [h EXCEPT !.tries = @ + 1, !.tid = NoTid] \in Goals BY <1>2, <3>1 DEF Goals
    <3>3. QED BY <1>0, <3>2
  <2>4. next \in CatchupPcs \/ next = after BY DEF CatchupPcs
  <2>5. next # "cu_cas" BY DEF AfterCatchup
  <2> HIDE DEF next, g
  <2>6. QED BY <1>2, <2>1, <2>2, <2>3, <2>4, <2>5, CatchupGoes
<1>3. CASE CatchupHead(t)
  <2> DEFINE h == [goal EXCEPT !.head = ctr["head"].cnt]
  <2>1. h \in Goals BY <1>0 DEF Goals
  <2>2. CatchupRound(t, h) /\ me[t].pc \in CatchupPcs
        /\ UNCHANGED <<ctr, threshold, entry, records, turn>>
    BY <1>3 DEF CatchupHead, At, CatchupPcs
  <2> HIDE DEF h
  <2>3. QED BY <1>2, <2>1, <2>2
<1>4. CASE CatchupCas(t)
  <2>1. me[t].pc = "cu_cas" /\ me[t].pc \in CatchupPcs BY <1>4 DEF CatchupCas, At, CatchupPcs
  <2>2. goal.tail < goal.head BY <1>0, <2>1 DEF JobInv
  <2>3. CASE ctr["tail"] = Global(goal.tail, goal.tid)
    <3> DEFINE c == [ctr["tail"] EXCEPT !.cnt = goal.head]
    <3>1. goal.head \in Nat /\ goal.tail \in Nat BY <1>0 DEF Goals
    <3>2. c \in [cnt : Nat, tid : Threads \cup {NoTid}] /\ c.cnt = goal.head
      BY <1>0, <3>1
    <3>3. ctr["tail"].cnt = goal.tail BY <2>3 DEF Global
    <3>4. ctr' = [ctr EXCEPT !["tail"] = c] /\ UNCHANGED <<threshold, entry, records, turn>>
          /\ me' = [me EXCEPT ![t].pc = after, ![t].goal = NoGoal]
      BY <1>0, <1>4, <2>3 DEF CatchupCas, Types
    <3>5. c.cnt >= ctr["tail"].cnt BY <2>2, <3>1, <3>2, <3>3
    <3> HIDE DEF c
    <3>6. Mild(t) /\ turn' = turn BY <1>0, <3>2, <3>4, <3>5, CounterIsMild
    <3>7. after # "cu_cas" BY DEF AfterCatchup
    <3> HIDE DEF after
    <3>8. QED BY <1>0, <2>1, <3>4, <3>6, <3>7, CatchupGoes DEF after
  <2>4. CASE ctr["tail"] # Global(goal.tail, goal.tid)
    <3>1. GoTo(t, "cu_again") /\ UNCHANGED <<ctr, threshold, entry, records, turn>>
      BY <1>4, <2>4 DEF CatchupCas
    <3>2. Mild(t) /\ turn' = turn BY <3>1, StillIsMild
    <3>3. me' = [me EXCEPT ![t].pc = "cu_again", ![t].goal = goal]
      <4>1. me[t] \in Calls /\ DOMAIN me = Threads BY CallType
      <4>2. [me[t] EXCEPT !.pc = "cu_again"] = [me[t] EXCEPT !.pc = "cu_again", !.goal = goal]
        BY <4>1 DEF Calls
      <4>3. QED BY <3>1, <4>1, <4>2 DEF GoTo
    <3> DEFINE next == "cu_again"
    <3>4. next \in CatchupPcs /\ next # "cu_cas" BY DEF CatchupPcs
    <3>5. me' = [me EXCEPT ![t].pc = next, ![t].goal = goal] BY <3>3
    <3>6. goal \in Goals BY <1>0
    <3> HIDE DEF next, goal
    <3>7. next \in CatchupPcs \/ next = AfterCatchup(t) BY <3>4
    <3>8. next = "cu_cas" => goal.tail < goal.head BY <3>4
    <3>9. me[t].pc \in CatchupPcs BY <2>1
    <3>10. QED BY <3>2, <3>5, <3>6, <3>7, <3>8, <3>9, CatchupGoes
  <2>5. QED BY <2>3, <2>4
<1>5. CASE CatchupAgain(t)
  <2>1. Mild(t) /\ turn' = turn BY <1>5, StillIsMild DEF CatchupAgain
  <2>2. me[t].pc \in CatchupPcs BY <1>5 DEF CatchupAgain, At, CatchupPcs
  <2> DEFINE g == [goal EXCEPT !.head = ctr["head"].cnt]
  <2>3. g \in Goals BY <1>0 DEF Goals
  <2>4. me' = [me EXCEPT ![t].pc = "cu_tail", ![t].goal = g]
    BY <1>5, CallType DEF CatchupAgain
  <2> DEFINE next == "cu_tail"
  <2>5. next \in CatchupPcs /\ next # "cu_cas" BY DEF CatchupPcs
  <2>6. me' = [me EXCEPT ![t].pc = next, ![t].goal = g] BY <2>4
  <2> HIDE DEF next, g
  <2>7. QED BY <2>1, <2>2, <2>3, <2>5, <2>6, CatchupGoes
<1>6. CASE CatchupTail(t)
  <2> DEFINE h == [goal EXCEPT !.tail = ctr["tail"].cnt]
  <2>1. h \in Goals BY <1>0 DEF Goals
  <2>2. CatchupRound(t, h) /\ me[t].pc \in CatchupPcs
        /\ UNCHANGED <<ctr, threshold, entry, records, turn>>
    BY <1>6 DEF CatchupTail, At, CatchupPcs
  <2> HIDE DEF h
  <2>3. QED BY <1>2, <2>1, <2>2
<1>7. QED BY <1>1, <1>3, <1>4, <1>5, <1>6

-----------------------------------------------------------------------------
(***************************************************************************)
(* A job ends                                                              *)
(***************************************************************************)
LEMMA HelpEndsTurn ==
  ASSUME RingInv, NEW t \in Threads, HelpEnds(t)
  PROVE  /\ turn' \in [Threads -> [left : 0 .. HelpDelay, next : Threads]]
         /\ \A u \in Threads \ {t} : turn'[u] = turn[u]
         /\ turn'[t].left >= 1
<1>1. turn \in [Threads -> [left : 0 .. HelpDelay, next : Threads]] BY DEF RingInv, Types
<1> DEFINE w == [left |-> HelpDelay, next |-> NextTid(turn[t].next)]
<1>2. w \in [left : 0 .. HelpDelay, next : Threads] /\ w.left >= 1
  <2>1. NextTid(turn[t].next) \in Threads BY <1>1, NextTidType
  <2>2. QED BY <2>1, Sizes
<1>3. turn' = [turn EXCEPT ![t] = w] BY <1>1 DEF HelpEnds
<1> HIDE DEF w
<1>4. QED BY <1>1, <1>2, <1>3

LEMMA HelpEndsStep ==
  ASSUME RingInv, NEW t \in Threads, Mild(t), ~Opened(t), me[t].tries >= 1,
         me[t].kind # "none", HelpEnds(t)
  PROVE  StepOK(t)
<1>1. turn'[t].left >= 1 BY HelpEndsTurn
<1> DEFINE m == Anew(me[t], FastPath(me[t].kind))
<1>2. me' = [me EXCEPT ![t] = m] BY CallType DEF HelpEnds
<1>3. FastPath(me[t].kind) \in {"enq_faa", "deq_faa"} BY DEF FastPath
<1>4. m \in Calls /\ m.pc = FastPath(me[t].kind) /\ m.kind = me[t].kind
      /\ m.tries = me[t].tries /\ m.job = NoJob
  BY <1>3, CallType, AnewType DEF Pcs, FastPcs
<1> HIDE DEF m
<1>5. Plain(m) BY <1>3, <1>4 DEF Plain, FastPcs, CatchupPcs
<1>6. QED BY <1>1, <1>2, <1>5, PlainStep

LEMMA JobEndsTurn ==
  ASSUME RingInv, NEW t \in Threads, JobEnds(t)
  PROVE  /\ turn' \in [Threads -> [left : 0 .. HelpDelay, next : Threads]]
         /\ \A u \in Threads \ {t} : turn'[u] = turn[u]
BY HelpEndsTurn DEF JobEnds, RingInv, Types

LEMMA JobEndsStep ==
  ASSUME RingInv, NEW t \in Threads, Mild(t), me[t].pc \in FaaPcs \cup SlowPcs, JobEnds(t)
  PROVE  StepOK(t)
<1>1. TriesInv(t) /\ JobInv(t) BY DEF RingInv, CallInv
<1>2. Working(t) BY DEF Working
<1>3. me[t].pc # "idle" /\ me[t].pc \notin HelpPcs
      /\ me[t].pc \notin {"req_pending", "req_close", "req_seq1"}
  BY DEF FaaPcs, SlowPcs, Phase2Pcs, ClaimedPcs, HelpPcs
<1>4. me[t].kind # "none" BY <1>1, <1>3 DEF TriesInv
<1>5. CASE me[t].job.rec = t
  <2>1. GoTo(t, "req_close") /\ turn' = turn BY <1>5 DEF JobEnds, Job
  <2> DEFINE next == "req_close"
             m == [me[t] EXCEPT !.pc = next]
  <2>2. next \in Pcs /\ GoTo(t, next) BY <2>1 DEF Pcs, RequestPcs
  <2>3. m \in Calls /\ me' = [me EXCEPT ![t] = m] /\ m.pc = next /\ m.kind = me[t].kind
        /\ m.job = me[t].job
    <3> HIDE DEF next
    <3>1. QED BY <2>2, GoToFacts
  <2>4. m.pc = "req_close" BY <2>3
  <2> HIDE DEF m
  <2>5. Opened(t) /\ ~Helping(t) BY <1>2, <1>3, <1>5 DEF Opened, ForItself, Helping
  <2>6. turn'[t].left >= 1 BY <1>1, <2>1, <2>5 DEF TriesInv
  <2>7. m.job.rec = t /\ m.job.side \in Sides BY <1>1, <1>2, <1>5, <2>3 DEF JobInv
  <2>8. m.pc \notin {"req_local", "req_fields"} BY <2>4
  <2>9. m.kind # "none" BY <1>4, <2>3
  <2>10. QED BY <2>3, <2>4, <2>5, <2>6, <2>7, <2>8, <2>9, RequestMildStep
<1>6. CASE me[t].job.rec # t
  <2>1. HelpEnds(t) BY <1>6 DEF JobEnds, Job
  <2>2. ~Opened(t) /\ Helping(t) BY <1>2, <1>3, <1>6 DEF Opened, ForItself, Helping
  <2>3. me[t].tries >= 1 BY <1>1, <2>2 DEF TriesInv
  <2>4. QED BY <1>4, <2>1, <2>2, <2>3, HelpEndsStep
<1>7. QED BY <1>5, <1>6

\* A step of help_threads or of the slow path that goes on, its locals as they are.
LEMMA WorkGoStep ==
  ASSUME RingInv, NEW t \in Threads, Mild(t), turn' = turn, me[t].pc \in FaaPcs \cup SlowPcs,
         NEW next \in (FaaPcs \ {"pub_fields", "pub_seq2"}) \cup SlowPcs, GoTo(t, next),
         next \notin Phase2Pcs, next = "faa_claim" => me[t].pc \in Phase2Pcs,
         next \in ClaimedPcs => me[t].pc \in ClaimedPcs
  PROVE  StepOK(t)
<1> DEFINE m == [me[t] EXCEPT !.pc = next]
<1>1. next \in Pcs BY DEF Pcs
<1>2. m \in Calls /\ me' = [me EXCEPT ![t] = m] /\ m.pc = next /\ m.kind = me[t].kind
      /\ m.tries = me[t].tries /\ m.job = me[t].job
  BY <1>1, GoToFacts
<1> HIDE DEF m
<1>3. Working(t) BY DEF Working
<1>4. next \notin {"p2_inc", "p2_fields", "p2_seq1"} BY DEF Phase2Pcs
<1>5. next # "cu_cas" BY DEF FaaPcs, SlowPcs, Phase2Pcs, ClaimedPcs
<1>6. Work(t, m) BY <1>2, <1>3, <1>4, <1>5, WorkKeeps
<1>7. QED BY <1>2, <1>3, <1>6, WorkStep

-----------------------------------------------------------------------------
(***************************************************************************)
(* A request, from publishing to gathering                                 *)
(***************************************************************************)
LEMMA AtRequest ==
  ASSUME RingInv, NEW t \in Threads, me[t].pc \in RequestPcs
  PROVE  /\ ~Helping(t) /\ ~Working(t) /\ turn[t].left >= 1 /\ me[t].kind # "none"
         /\ me[t].job.rec = t /\ me[t].job.side \in Sides
         /\ (Opened(t) <=> me[t].pc \in {"req_pending", "req_close", "req_seq1"})
<1>1. TriesInv(t) /\ JobInv(t) BY DEF RingInv, CallInv
<1>2. ~Working(t) /\ me[t].pc \notin HelpPcs /\ me[t].pc # "idle"
  BY DEF Working, RequestPcs, CatchupPcs, FaaPcs, SlowPcs, Phase2Pcs, ClaimedPcs, HelpPcs
<1>3. ~Helping(t) /\ (Opened(t) <=> me[t].pc \in {"req_pending", "req_close", "req_seq1"})
  BY <1>2 DEF Helping, Opened, ForItself
<1>4. QED BY <1>1, <1>2, <1>3 DEF TriesInv, JobInv

\* The owner stores a part of its request.
LEMMA RequestOwnStep ==
  ASSUME RingInv, NEW t \in Threads, me[t].pc \in RequestPcs,
         UNCHANGED <<ctr, threshold, entry, loc, p2, turn>>,
         NEW q \in Requests, req' = [req EXCEPT ![t] = q],
         NEW m \in Calls, me' = [me EXCEPT ![t] = m],
         m.pc \in {"req_seq2", "req_pending", "faa_local", "req_seq1", "gather_local", "idle"},
         m.pc # "idle" => m.job = me[t].job /\ m.kind = me[t].kind,
         m.pc \in {"req_seq2", "req_pending", "faa_local"} =>
           me[t].pc \in {"req_fields", "req_seq2", "req_pending"},
         \A s \in Sides : q.start[s] <= ctr[s].cnt,
         q.seq2 >= req[t].seq2,
         IF m.pc \in {"req_pending", "faa_local", "req_seq1"}
         THEN q.seq2 = q.seq1 ELSE q.seq2 + 1 = q.seq1,
         q.pending => m.pc = "faa_local",
         \/ /\ q.seq1 = req[t].seq1 /\ q.enq = req[t].enq
            /\ q.index = req[t].index /\ q.start = req[t].start
         \/ q.seq1 > req[t].seq2
  PROVE  StepOK(t)
<1>1. CallInv(t) /\ Types BY DEF RingInv
<1>2. me'[t] = m /\ (\A u \in Threads \ {t} : me'[u] = me[u]) /\ me' \in [Threads -> Calls]
  BY <1>1 DEF Types
<1>3. req'[t] = q /\ (\A u \in Threads \ {t} : req'[u] = req[u])
      /\ req' \in [Threads -> Requests]
  BY <1>1 DEF Types
<1>4. /\ turn[t].left >= 1 /\ me[t].kind # "none"
      /\ me[t].job.rec = t /\ me[t].job.side \in Sides
  BY AtRequest
<1>5. Types' BY <1>1, <1>2, <1>3 DEF Types
<1>6. Others(t) BY <1>2, <1>3 DEF Others
<1>7. Forward(t)
  <2>1. \A s \in Sides : ctr[s].cnt \in Nat BY <1>1 DEF Types
  <2>2. QED BY <2>1 DEF Forward
<1>8. RecordMoves(t)
  <2>1. p2[t].seq2 \in Nat BY <1>1 DEF Types, Phases
  <2>2. QED BY <1>3, <2>1 DEF RecordMoves
<1>9. /\ (m.pc = "faa_local" => m.job.rec = t) /\ ~Helping(t)'
      /\ (Working(t)' <=> m.pc = "faa_local") /\ (ForItself(t)' <=> m.pc = "faa_local")
      /\ (Opened(t)' <=> m.pc \in {"req_pending", "faa_local", "req_seq1"})
  BY <1>2, <1>4 DEF Working, Helping, ForItself, Opened, CatchupPcs, HelpPcs, FaaPcs, SlowPcs,
              Phase2Pcs, ClaimedPcs
<1>10. TriesInv(t)' BY <1>2, <1>4, <1>9 DEF TriesInv
<1>11. JobInv(t)' BY <1>2, <1>4, <1>9 DEF JobInv, HelpPcs, Phase2Pcs, RequestPcs
<1>12. TicketInv(t)'
  <2>1. m.pc \in {"req_seq2", "req_pending", "faa_local"} =>
          me[t].job.v.cnt <= ctr[me[t].job.side].cnt /\ ~me[t].job.v.fin
    BY <1>1 DEF CallInv, TicketInv
  <2>2. QED BY <1>2, <1>9, <2>1 DEF TicketInv, Phase2Pcs, ClaimedPcs
<1>13. RecordInv(t)'
  <2>1. RecordInv(t) BY <1>1 DEF CallInv
  <2>2. m.pc \notin {"pub_fields", "pub_seq2"} OBVIOUS
  <2>3. QED BY <1>2, <1>3, <1>9, <2>1, <2>2 DEF RecordInv
<1>14. SnapshotInv(t)' BY <1>2 DEF SnapshotInv
<1>15. CallInv(t)' BY <1>10, <1>11, <1>12, <1>13, <1>14 DEF CallInv
<1>16. QED BY <1>5, <1>6, <1>7, <1>8, <1>15 DEF StepOK

LEMMA PublishSteps ==
  ASSUME RingInv, NEW t \in Threads,
         PublishLocal(t) \/ PublishFields(t) \/ PublishSeq(t) \/ PublishPending(t)
  PROVE  StepOK(t)
<1>1. /\ Types /\ TicketInv(t) /\ RecordInv(t) /\ me[t] \in Calls /\ me[t].job \in Jobs
      /\ req[t] \in Requests /\ me[t].job.v \in Words
  BY CallType DEF RingInv, CallInv, Types
<1>2. CASE PublishLocal(t)
  <2>1. me[t].pc = "req_local" /\ At(t, "req_local") BY <1>2 DEF PublishLocal, At
  <2>2. /\ turn[t].left >= 1 /\ me[t].kind # "none" /\ ~Opened(t)
        /\ me[t].job.rec = t /\ me[t].job.side \in Sides
    BY <2>1, AtRequest DEF RequestPcs
  <2>3. me[t].job.v.cnt <= ctr[me[t].job.side].cnt /\ ~me[t].job.v.fin
    BY <1>1, <2>1 DEF TicketInv
  <2> DEFINE side == me[t].job.side
             w == me[t].job.v
  <2>4. loc' = [loc EXCEPT ![side][t] = w] /\ GoTo(t, "req_fields")
        /\ UNCHANGED <<ctr, threshold, entry, req, p2>> /\ turn' = turn
    BY <1>2 DEF PublishLocal, Job
  <2>5. side \in Sides /\ w \in Words /\ w.cnt <= ctr[side].cnt BY <1>1, <2>2, <2>3
  <2> HIDE DEF side, w
  <2>6. Mild(t) BY <2>1, <2>4, <2>5, TurnStays, LocIsMild
  <2> DEFINE next == "req_fields"
             m == [me[t] EXCEPT !.pc = next]
  <2>7. next \in Pcs /\ GoTo(t, next) BY <2>4 DEF Pcs, RequestPcs
  <2>8. m \in Calls /\ me' = [me EXCEPT ![t] = m] /\ m.pc = next /\ m.kind = me[t].kind
        /\ m.job = me[t].job
    <3> HIDE DEF next
    <3>1. QED BY <2>7, GoToFacts
  <2>9. m.pc = "req_fields" BY <2>8
  <2> HIDE DEF m
  <2>10. m.job.v.cnt <= ctr'[m.job.side].cnt /\ ~m.job.v.fin BY <2>3, <2>4, <2>8
  <2>11. turn'[t].left >= 1 BY <2>2, <2>4
  <2>12. QED BY <2>2, <2>6, <2>8, <2>9, <2>10, <2>11, RequestMildStep
<1>3. CASE PublishFields(t)
  <2>1. me[t].pc = "req_fields" BY <1>3 DEF PublishFields, At
  <2>2. ~Opened(t) /\ me[t].job.side \in Sides /\ me[t].pc \in RequestPcs
    BY <2>1, AtRequest DEF RequestPcs
  <2>3. me[t].job.v.cnt <= ctr[me[t].job.side].cnt /\ me[t].job.v.cnt \in Nat
        /\ me[t].job.index \in 0 .. N + 1
    BY <1>1, <2>1, CallType DEF TicketInv
  <2> DEFINE side == me[t].job.side
             n == me[t].job.v.cnt
             start == [req[t].start EXCEPT ![side] = n]
             i == IF side = "tail" THEN me[t].job.index ELSE req[t].index
             q == [req[t] EXCEPT !.start = start, !.index = i, !.enq = (side = "tail")]
             next == "req_seq2"
             m == [me[t] EXCEPT !.pc = next]
  <2>4. req' = [req EXCEPT ![t] = q] BY <1>1, <1>3 DEF PublishFields, Job, Types, Requests
  <2>5. start \in [Sides -> Nat] /\ i \in 0 .. N + 1 BY <1>1, <2>2, <2>3 DEF Requests
  <2>6. \A s \in Sides : start[s] <= ctr[s].cnt
    BY <1>1, <2>2, <2>3 DEF RecordInv, Requests
  <2> HIDE DEF start, i
  <2>7. q \in Requests /\ q.start = start /\ q.seq1 = req[t].seq1 /\ q.seq2 = req[t].seq2
        /\ q.pending = req[t].pending
    BY <1>1, <2>5 DEF Requests
  <2> HIDE DEF q
  <2>8. next \in Pcs /\ GoTo(t, next) BY <1>3 DEF Pcs, RequestPcs, PublishFields
  <2>9. m \in Calls /\ me' = [me EXCEPT ![t] = m] /\ m.pc = next /\ m.kind = me[t].kind
        /\ m.job = me[t].job
    <3> HIDE DEF next
    <3>1. QED BY <2>8, GoToFacts
  <2>10. m.pc = "req_seq2" BY <2>9
  <2> HIDE DEF m
  <2>11. ~q.pending BY <1>1, <2>1, <2>2, <2>7 DEF RecordInv, Opened
  <2>12. q.seq2 + 1 = q.seq1 /\ q.seq1 > req[t].seq2 /\ q.seq2 >= req[t].seq2
    BY <1>1, <2>2, <2>7 DEF RecordInv, Requests
  <2>13. \A s \in Sides : q.start[s] <= ctr[s].cnt BY <2>6, <2>7
  <2>14. UNCHANGED <<ctr, threshold, entry, loc, p2, turn>> BY <1>3 DEF PublishFields
  <2>15. QED BY <2>1, <2>2, <2>4, <2>7, <2>9, <2>10, <2>11, <2>12, <2>13, <2>14,
                RequestOwnStep
<1>4. CASE PublishSeq(t)
  <2>1. me[t].pc = "req_seq2" BY <1>4 DEF PublishSeq, At
  <2>2. ~Opened(t) /\ me[t].pc \in RequestPcs BY <2>1, AtRequest DEF RequestPcs
  <2> DEFINE q == [req[t] EXCEPT !.seq2 = req[t].seq1]
             next == "req_pending"
             m == [me[t] EXCEPT !.pc = next]
  <2>3. req' = [req EXCEPT ![t] = q] BY <1>1, <1>4 DEF PublishSeq, Types
  <2>4. q \in Requests /\ q.start = req[t].start /\ q.seq1 = req[t].seq1
        /\ q.seq2 = req[t].seq1 /\ q.pending = req[t].pending /\ q.enq = req[t].enq
        /\ q.index = req[t].index
    BY <1>1 DEF Requests
  <2> HIDE DEF q
  <2>5. next \in Pcs /\ GoTo(t, next) BY <1>4 DEF Pcs, RequestPcs, PublishSeq
  <2>6. m \in Calls /\ me' = [me EXCEPT ![t] = m] /\ m.pc = next /\ m.kind = me[t].kind
        /\ m.job = me[t].job
    <3> HIDE DEF next
    <3>1. QED BY <2>5, GoToFacts
  <2>7. m.pc = "req_pending" BY <2>6
  <2> HIDE DEF m
  <2>8. ~q.pending BY <1>1, <2>1, <2>2, <2>4 DEF RecordInv, Opened
  <2>9. q.seq2 >= req[t].seq2 /\ q.seq2 = q.seq1
    BY <1>1, <2>2, <2>4 DEF RecordInv, Requests
  <2>10. \A s \in Sides : q.start[s] <= ctr[s].cnt BY <1>1, <2>4 DEF RecordInv
  <2>11. UNCHANGED <<ctr, threshold, entry, loc, p2, turn>> BY <1>4 DEF PublishSeq
  <2>12. QED BY <2>1, <2>2, <2>3, <2>4, <2>6, <2>7, <2>8, <2>9, <2>10, <2>11, RequestOwnStep
<1>5. CASE PublishPending(t)
  <2>1. me[t].pc = "req_pending" BY <1>5 DEF PublishPending, At
  <2>2. Opened(t) /\ me[t].pc \in RequestPcs BY <2>1, AtRequest DEF RequestPcs
  <2> DEFINE q == [req[t] EXCEPT !.pending = TRUE]
             next == "faa_local"
             m == [me[t] EXCEPT !.pc = next]
  <2>3. req' = [req EXCEPT ![t] = q] BY <1>1, <1>5 DEF PublishPending, Types
  <2>4. q \in Requests /\ q.start = req[t].start /\ q.seq1 = req[t].seq1
        /\ q.seq2 = req[t].seq2 /\ q.enq = req[t].enq /\ q.index = req[t].index
    BY <1>1 DEF Requests
  <2> HIDE DEF q
  <2>5. next \in Pcs /\ GoTo(t, next) BY <1>5 DEF Pcs, FaaPcs, PublishPending
  <2>6. m \in Calls /\ me' = [me EXCEPT ![t] = m] /\ m.pc = next /\ m.kind = me[t].kind
        /\ m.job = me[t].job
    <3> HIDE DEF next
    <3>1. QED BY <2>5, GoToFacts
  <2>7. m.pc = "faa_local" BY <2>6
  <2> HIDE DEF m
  <2>9. q.seq2 >= req[t].seq2 /\ q.seq2 = q.seq1
    BY <1>1, <2>2, <2>4 DEF RecordInv, Requests
  <2>10. \A s \in Sides : q.start[s] <= ctr[s].cnt BY <1>1, <2>4 DEF RecordInv
  <2>11. UNCHANGED <<ctr, threshold, entry, loc, p2, turn>> BY <1>5 DEF PublishPending
  <2>12. QED BY <2>1, <2>2, <2>3, <2>4, <2>6, <2>7, <2>9, <2>10, <2>11, RequestOwnStep
<1>6. QED BY <1>2, <1>3, <1>4, <1>5

LEMMA CloseSteps ==
  ASSUME RingInv, NEW t \in Threads, CloseRequest(t) \/ RetireRequest(t)
  PROVE  StepOK(t)
<1>1. /\ Types /\ RecordInv(t) /\ me[t] \in Calls /\ req[t] \in Requests
  BY CallType DEF RingInv, CallInv, Types
<1>2. \A s \in Sides : req[t].start[s] <= ctr[s].cnt BY <1>1 DEF RecordInv
<1>3. CASE CloseRequest(t)
  <2>1. me[t].pc = "req_close" BY <1>3 DEF CloseRequest, At
  <2>2. Opened(t) /\ me[t].pc \in RequestPcs BY <2>1, AtRequest DEF RequestPcs
  <2> DEFINE q == [req[t] EXCEPT !.pending = FALSE]
             next == "req_seq1"
             m == [me[t] EXCEPT !.pc = next]
  <2>3. req' = [req EXCEPT ![t] = q] BY <1>1, <1>3 DEF CloseRequest, Types
  <2>4. q \in Requests /\ q.start = req[t].start /\ q.seq1 = req[t].seq1 /\ ~q.pending
        /\ q.seq2 = req[t].seq2 /\ q.enq = req[t].enq /\ q.index = req[t].index
    BY <1>1 DEF Requests
  <2> HIDE DEF q
  <2>5. next \in Pcs /\ GoTo(t, next) BY <1>3 DEF Pcs, RequestPcs, CloseRequest
  <2>6. m \in Calls /\ me' = [me EXCEPT ![t] = m] /\ m.pc = next /\ m.kind = me[t].kind
        /\ m.job = me[t].job
    <3> HIDE DEF next
    <3>1. QED BY <2>5, GoToFacts
  <2>7. m.pc = "req_seq1" BY <2>6
  <2> HIDE DEF m
  <2>8. q.seq2 >= req[t].seq2 /\ q.seq2 = q.seq1
    BY <1>1, <2>2, <2>4 DEF RecordInv, Requests
  <2>9. \A s \in Sides : q.start[s] <= ctr[s].cnt BY <1>2, <2>4
  <2>10. UNCHANGED <<ctr, threshold, entry, loc, p2, turn>> BY <1>3 DEF CloseRequest
  <2>11. QED BY <2>2, <2>3, <2>4, <2>6, <2>7, <2>8, <2>9, <2>10, RequestOwnStep
<1>4. CASE RetireRequest(t)
  <2>1. me[t].pc = "req_seq1" BY <1>4 DEF RetireRequest, At
  <2>2. Opened(t) /\ me[t].pc \in RequestPcs BY <2>1, AtRequest DEF RequestPcs
  <2> DEFINE q == [req[t] EXCEPT !.seq1 = @ + 1]
  <2>3. req' = [req EXCEPT ![t] = q] BY <1>1, <1>4 DEF RetireRequest, Types
  <2>4. q \in Requests /\ q.start = req[t].start /\ q.seq1 = req[t].seq1 + 1
        /\ q.seq2 = req[t].seq2 /\ q.pending = req[t].pending
    BY <1>1 DEF Requests
  <2> HIDE DEF q
  <2>5. ~q.pending BY <1>1, <2>1, <2>2, <2>4, AtRequest DEF RecordInv, ForItself
  <2>6. q.seq2 >= req[t].seq2 /\ q.seq2 + 1 = q.seq1 /\ q.seq1 > req[t].seq2
    BY <1>1, <2>2, <2>4 DEF RecordInv, Requests
  <2>7. \A s \in Sides : q.start[s] <= ctr[s].cnt BY <1>2, <2>4
  <2>8. UNCHANGED <<ctr, threshold, entry, loc, p2, turn>> BY <1>4 DEF RetireRequest
  <2>9. CASE Return(t, Bot)
    <3> DEFINE m == [Idle EXCEPT !.index = Bot]
    <3>1. m \in Calls /\ m.pc = "idle" BY Blanks, Sizes DEF Idle, Calls, Bot
    <3>2. me' = [me EXCEPT ![t] = m] BY <2>9 DEF Return
    <3> HIDE DEF m
    <3>3. QED BY <2>2, <2>3, <2>4, <2>5, <2>6, <2>7, <2>8, <3>1, <3>2, RequestOwnStep
  <2>10. CASE GoTo(t, "gather_local")
    <3> DEFINE next == "gather_local"
               m == [me[t] EXCEPT !.pc = next]
    <3>1. next \in Pcs /\ GoTo(t, next) BY <2>10 DEF Pcs, RequestPcs
    <3>2. m \in Calls /\ me' = [me EXCEPT ![t] = m] /\ m.pc = next /\ m.kind = me[t].kind
          /\ m.job = me[t].job
      <4> HIDE DEF next
      <4>1. QED BY <3>1, GoToFacts
    <3>3. m.pc = "gather_local" BY <3>2
    <3> HIDE DEF m
    <3>4. QED BY <2>2, <2>3, <2>4, <2>5, <2>6, <2>7, <2>8, <3>2, <3>3, RequestOwnStep
  <2>11. QED BY <1>4, <2>9, <2>10 DEF RetireRequest
<1>5. QED BY <1>3, <1>4

LEMMA GatherSteps ==
  ASSUME RingInv, NEW t \in Threads, GatherLocal(t) \/ GatherEntry(t)
  PROVE  StepOK(t)
<1>1. Types BY DEF RingInv
<1>2. CASE GatherLocal(t)
  <2>1. me[t].pc = "gather_local" BY <1>2 DEF GatherLocal, At
  <2>2. /\ turn[t].left >= 1 /\ me[t].kind # "none" /\ ~Opened(t)
        /\ me[t].job.rec = t /\ me[t].job.side \in Sides
    BY <2>1, AtRequest DEF RequestPcs
  <2>3. Mild(t) /\ turn' = turn BY <1>2, StillIsMild DEF GatherLocal
  <2> DEFINE n == loc["head"][t].cnt
             m == [me[t] EXCEPT !.pc = "gather_entry", !.tkt = n]
  <2>4. me' = [me EXCEPT ![t] = m] BY <1>2, CallType DEF GatherLocal
  <2>5. n \in Nat BY <1>1 DEF Types, Words, Sides
  <2> HIDE DEF n
  <2>6. m \in Calls /\ m.pc = "gather_entry" /\ m.kind = me[t].kind /\ m.job = me[t].job
    BY <2>5, CallType DEF Calls, Pcs, RequestPcs
  <2> HIDE DEF m
  <2>7. m.pc \notin {"req_local", "req_fields"} BY <2>6
  <2>8. turn'[t].left >= 1 BY <2>2, <2>3
  <2>9. QED BY <2>2, <2>3, <2>4, <2>6, <2>7, <2>8, RequestMildStep
<1>3. CASE GatherEntry(t)
  <2>1. me[t].pc = "gather_entry" BY <1>3 DEF GatherEntry, At
  <2>2. /\ turn[t].left >= 1 /\ me[t].kind # "none" /\ ~Opened(t)
    BY <2>1, AtRequest DEF RequestPcs
  <2>3. Mild(t) /\ turn' = turn BY <1>3, StillIsMild DEF GatherEntry
  <2>4. turn'[t].left >= 1 BY <2>2, <2>3
  <2> DEFINE e == entry[Slot(me[t].tkt)]
  <2>5. Consume(t, e) \/ Return(t, Bot) BY <1>3 DEF GatherEntry
  <2>6. e \in Entries /\ Bot \in 0 .. N + 1 BY EntryHere, Sizes DEF Bot
  <2> HIDE DEF e
  <2>7. CASE Consume(t, e) BY <2>2, <2>3, <2>4, <2>6, <2>7, ConsumeStep
  <2>8. CASE Return(t, Bot) BY <2>2, <2>3, <2>4, <2>6, <2>8, ReturnStep
  <2>9. QED BY <2>5, <2>7, <2>8
<1>4. QED BY <1>2, <1>3

-----------------------------------------------------------------------------
(***************************************************************************)
(* help_threads                                                            *)
(***************************************************************************)
LEMMA AtHelp ==
  ASSUME RingInv, NEW t \in Threads, me[t].pc \in HelpPcs
  PROVE  /\ ~Opened(t) /\ Helping(t) /\ me[t].kind # "none" /\ me[t].tries >= 1
<1>1. TriesInv(t) BY DEF RingInv, CallInv
<1>2. ~Opened(t) /\ Helping(t) /\ me[t].pc # "idle"
  BY DEF Working, Opened, ForItself, Helping, CatchupPcs, FaaPcs, SlowPcs, Phase2Pcs,
         ClaimedPcs, HelpPcs
<1>3. QED BY <1>1, <1>2 DEF TriesInv

\* help_threads gives up, or there is nothing to do.
LEMMA HelpGivesUp ==
  ASSUME RingInv, NEW t \in Threads, me[t].pc \in HelpPcs, HelpEnds(t),
         UNCHANGED <<ctr, threshold, entry, records>>
  PROVE  StepOK(t)
<1>1. Types BY DEF RingInv
<1>2. turn' \in [Threads -> [left : 0 .. HelpDelay, next : Threads]]
      /\ \A u \in Threads \ {t} : turn'[u] = turn[u]
  BY HelpEndsTurn
<1>3. ctr' = ctr /\ loc' = loc /\ req' = req /\ p2' = p2 /\ threshold' = threshold
      /\ entry' = entry
  BY DEF records
<1>4. \A s \in Sides : ctr[s].cnt \in Nat BY <1>1 DEF Types
<1>5. Forward(t) BY <1>3, <1>4 DEF Forward
<1>6. Mild(t) BY <1>1, <1>2, <1>3, <1>5 DEF Mild, Types
<1>7. QED BY <1>6, AtHelp, HelpEndsStep

LEMMA LookSteps ==
  ASSUME RingInv, NEW t \in Threads, HelpPending(t) \/ HelpKind(t) \/ HelpSeq2(t)
  PROVE  StepOK(t)
<1>1. Types /\ JobInv(t) /\ RecordInv(t) /\ me[t] \in Calls /\ me[t].job \in Jobs
  BY CallType DEF RingInv, CallInv
<1>2. turn[t].next \in Threads BY <1>1 DEF Types
<1>3. CASE HelpPending(t)
  <2>1. me[t].pc = "help_pending" /\ me[t].pc \in HelpPcs BY <1>3 DEF HelpPending, At, HelpPcs
  <2>2. ~Opened(t) /\ me[t].kind # "none" /\ me[t].tries >= 1 BY <2>1, AtHelp
  <2>3. CASE req[turn[t].next].pending
    <3>1. GoTo(t, "help_kind") /\ UNCHANGED <<ctr, threshold, entry, records, turn>>
      BY <1>3, <2>3 DEF HelpPending
    <3>2. Mild(t) /\ turn' = turn BY <3>1, StillIsMild
    <3> DEFINE next == "help_kind"
               m == [me[t] EXCEPT !.pc = next]
    <3>3. next \in Pcs /\ GoTo(t, next) BY <3>1 DEF Pcs, HelpPcs
    <3>4. m \in Calls /\ me' = [me EXCEPT ![t] = m] /\ m.pc = next /\ m.kind = me[t].kind
          /\ m.tries = me[t].tries
      <4> HIDE DEF next
      <4>1. QED BY <3>3, GoToFacts
    <3>5. m.pc = "help_kind" /\ m.pc \in HelpPcs BY <3>4 DEF HelpPcs
    <3> HIDE DEF m
    <3>6. turn'[t].next # t
      <4>1. ~req[t].pending BY <1>1, <2>1, <2>2 DEF RecordInv, Opened
      <4>2. QED BY <2>3, <3>2, <4>1
    <3>7. m.pc \notin {"help_seq2", "help_fields", "help_seq1"} BY <3>5
    <3>8. m.kind # "none" /\ m.tries >= 1 BY <2>2, <3>4
    <3>9. QED BY <2>2, <3>2, <3>4, <3>5, <3>6, <3>7, <3>8, HelpMildStep
  <2>4. CASE ~req[turn[t].next].pending
    <3>1. HelpEnds(t) /\ UNCHANGED <<ctr, threshold, entry, records>>
      BY <1>3, <2>4 DEF HelpPending
    <3>2. QED BY <2>1, <3>1, HelpGivesUp
  <2>5. QED BY <2>3, <2>4
<1>4. CASE HelpKind(t)
  <2>1. me[t].pc = "help_kind" /\ me[t].pc \in HelpPcs BY <1>4 DEF HelpKind, At, HelpPcs
  <2>2. ~Opened(t) /\ me[t].kind # "none" /\ me[t].tries >= 1 BY <2>1, AtHelp
  <2>3. Mild(t) /\ turn' = turn BY <1>4, StillIsMild DEF HelpKind
  <2>4. turn[t].next # t BY <1>1, <2>1 DEF JobInv
  <2> DEFINE r == turn[t].next
             side == IF req[r].enq THEN "tail" ELSE "head"
             job == [me[t].job EXCEPT !.rec = r, !.side = side]
             m == [me[t] EXCEPT !.pc = "help_seq2", !.job = job]
  <2>5. me' = [me EXCEPT ![t] = m] BY <1>4, CallType DEF HelpKind
  <2>6. side \in Sides BY DEF Sides
  <2> HIDE DEF r, side
  <2>7. job \in Jobs /\ job.rec = r /\ job.side = side BY <1>1, <1>2, <2>6 DEF Jobs, r
  <2> HIDE DEF job
  <2>8. m \in Calls /\ m.pc = "help_seq2" /\ m.kind = me[t].kind /\ m.tries = me[t].tries
        /\ m.job = job
    BY <1>1, <2>7 DEF Calls, Pcs, HelpPcs
  <2> HIDE DEF m
  <2>9. m.pc \in HelpPcs /\ m.pc \notin {"help_kind", "help_fields", "help_seq1"}
    BY <2>8 DEF HelpPcs
  <2>10. m.job.rec \in Threads /\ m.job.side \in Sides /\ m.job.rec # t
    BY <1>2, <2>4, <2>6, <2>7, <2>8 DEF r
  <2>11. m.kind # "none" /\ m.tries >= 1 BY <2>2, <2>8
  <2>12. QED BY <2>2, <2>3, <2>5, <2>8, <2>9, <2>10, <2>11, HelpMildStep
<1>5. CASE HelpSeq2(t)
  <2>1. me[t].pc = "help_seq2" /\ me[t].pc \in HelpPcs BY <1>5 DEF HelpSeq2, At, HelpPcs
  <2>2. ~Opened(t) /\ me[t].kind # "none" /\ me[t].tries >= 1 BY <2>1, AtHelp
  <2>3. Mild(t) /\ turn' = turn BY <1>5, StillIsMild DEF HelpSeq2
  <2>4. me[t].job.rec \in Threads /\ me[t].job.side \in Sides /\ me[t].job.rec # t
    BY <1>1, <2>1 DEF JobInv
  <2> DEFINE n == req[me[t].job.rec].seq2
             job == [me[t].job EXCEPT !.seq = n]
             m == [me[t] EXCEPT !.pc = "help_fields", !.job = job]
  <2>5. me' = [me EXCEPT ![t] = m] BY <1>5, CallType DEF HelpSeq2, Job
  <2>6. n \in Nat BY <1>1, <2>4 DEF Types, Requests
  <2> HIDE DEF n
  <2>7. job \in Jobs /\ job.rec = me[t].job.rec /\ job.side = me[t].job.side /\ job.seq = n
    BY <1>1, <2>6 DEF Jobs
  <2> HIDE DEF job
  <2>8. m \in Calls /\ m.pc = "help_fields" /\ m.kind = me[t].kind /\ m.tries = me[t].tries
        /\ m.job = job
    BY <1>1, <2>7 DEF Calls, Pcs, HelpPcs
  <2> HIDE DEF m
  <2>9. m.pc \in HelpPcs /\ m.pc \notin {"help_kind", "help_seq1"} BY <2>8 DEF HelpPcs
  <2>10. m.job.rec \in Threads /\ m.job.side \in Sides /\ m.job.rec # t
    BY <2>4, <2>7, <2>8
  <2>11. m.kind # "none" /\ m.tries >= 1 BY <2>2, <2>8
  <2>12. m.job.seq <= req[m.job.rec].seq2 BY <2>6, <2>7, <2>8 DEF n
  <2>13. QED BY <2>2, <2>3, <2>5, <2>8, <2>9, <2>10, <2>11, <2>12, HelpMildStep
<1>6. QED BY <1>3, <1>4, <1>5

LEMMA HelpFieldsStep ==
  ASSUME RingInv, NEW t \in Threads, HelpFields(t)
  PROVE  StepOK(t)
<1>1. Types /\ JobInv(t) /\ me[t] \in Calls /\ me[t].job \in Jobs /\ SnapshotInv(t)
  BY CallType DEF RingInv, CallInv
<1>2. me[t].pc = "help_fields" /\ me[t].pc \in HelpPcs BY DEF HelpFields, At, HelpPcs
<1>3. ~Opened(t) /\ me[t].kind # "none" /\ me[t].tries >= 1 BY <1>2, AtHelp
<1>4. me[t].job.rec \in Threads /\ me[t].job.side \in Sides /\ me[t].job.rec # t
  BY <1>1, <1>2 DEF JobInv
<1> DEFINE x == me[t].job.rec
           r == req[x]
           side == me[t].job.side
<1>5. CASE r.enq = (side = "tail")
  <2> DEFINE i == IF side = "tail" THEN r.index ELSE Bot
             v == Word(r.start[side])
             job == [me[t].job EXCEPT !.v = v, !.index = i]
             m == [me[t] EXCEPT !.pc = "help_seq1", !.job = job]
  <2>1. me' = [me EXCEPT ![t] = m] /\ UNCHANGED <<ctr, threshold, entry, records, turn>>
    <3>1. me' = [me EXCEPT ![t].pc = "help_seq1", ![t].job.v = v, ![t].job.index = i]
          /\ UNCHANGED <<ctr, threshold, entry, records, turn>>
      BY <1>5 DEF HelpFields, Job
    <3> HIDE DEF i, v
    <3>2. QED BY <3>1, CallType
  <2>2. Mild(t) /\ turn' = turn BY <2>1, StillIsMild
  <2>3. r \in Requests BY <1>1, <1>4 DEF Types
  <2>4. r.start[side] \in Nat /\ i \in 0 .. N + 1 BY <1>4, <2>3, Sizes DEF Requests, Bot
  <2>5. r.start[side] <= ctr[side].cnt BY <1>4 DEF RingInv, CallInv, RecordInv
  <2>6. v \in Words /\ v.cnt = r.start[side] /\ ~v.fin BY <2>4 DEF Word, Words
  <2>7. v.cnt <= ctr'[side].cnt BY <2>1, <2>5, <2>6
  <2>8. i = IF r.enq THEN r.index ELSE Bot BY <1>5
  <2>9. me[t].job.seq <= r.seq2 BY <1>1, <1>2 DEF SnapshotInv
  <2> HIDE DEF i
  <2>10. job \in Jobs /\ job.rec = x /\ job.side = side /\ job.v = v /\ job.index = i
         /\ job.seq = me[t].job.seq
    BY <1>1, <2>4, <2>6 DEF Jobs
  <2> HIDE DEF job
  <2>11. m \in Calls /\ m.pc = "help_seq1" /\ m.kind = me[t].kind /\ m.tries = me[t].tries
         /\ m.job = job
    BY <1>1, <2>10 DEF Calls, Pcs, HelpPcs
  <2> HIDE DEF m
  <2>12. m.pc \in HelpPcs /\ m.pc # "help_kind" BY <2>11 DEF HelpPcs
  <2>13. m.job.rec \in Threads /\ m.job.side \in Sides /\ m.job.rec # t
    BY <1>4, <2>10, <2>11
  <2>14. m.kind # "none" /\ m.tries >= 1 BY <1>3, <2>11
  <2>15. m.job.seq <= req[m.job.rec].seq2 BY <2>9, <2>10, <2>11
  <2>16. m.job.v.cnt <= ctr'[m.job.side].cnt /\ ~m.job.v.fin BY <2>6, <2>7, <2>10, <2>11
  <2>17. /\ req[m.job.rec].enq = (m.job.side = "tail")
         /\ m.job.v = Word(req[m.job.rec].start[m.job.side])
         /\ m.job.index = IF req[m.job.rec].enq THEN req[m.job.rec].index ELSE Bot
    BY <1>5, <2>8, <2>10, <2>11
  <2>18. QED BY <1>3, <2>1, <2>2, <2>11, <2>12, <2>13, <2>14, <2>15, <2>16, <2>17,
                HelpMildStep
<1>6. CASE r.enq # (side = "tail")
  <2>1. HelpEnds(t) /\ UNCHANGED <<ctr, threshold, entry, records>>
    BY <1>6 DEF HelpFields, Job
  <2>2. QED BY <1>2, <2>1, HelpGivesUp
<1>7. QED BY <1>5, <1>6

LEMMA HelpSeq1Step ==
  ASSUME RingInv, NEW t \in Threads, HelpSeq1(t)
  PROVE  StepOK(t)
<1>1. Types /\ JobInv(t) /\ TicketInv(t) /\ me[t] \in Calls /\ me[t].job \in Jobs
  BY CallType DEF RingInv, CallInv
<1>2. me[t].pc = "help_seq1" /\ me[t].pc \in HelpPcs /\ At(t, "help_seq1")
  BY DEF HelpSeq1, At, HelpPcs
<1>3. CASE req[me[t].job.rec].seq1 = me[t].job.seq
  <2> DEFINE job == [me[t].job EXCEPT !.seq = 0]
             m == [me[t] EXCEPT !.pc = "faa_local", !.job = job]
  <2>1. me' = [me EXCEPT ![t] = m] /\ UNCHANGED <<ctr, threshold, entry, records, turn>>
    <3>1. me' = [me EXCEPT ![t].pc = "faa_local", ![t].job.seq = 0]
          /\ UNCHANGED <<ctr, threshold, entry, records, turn>>
      BY <1>3 DEF HelpSeq1, Job
    <3>2. QED BY <3>1, CallType
  <2>2. Mild(t) /\ turn' = turn /\ ctr' = ctr BY <2>1, StillIsMild
  <2>3. job \in Jobs /\ job.rec = me[t].job.rec /\ job.side = me[t].job.side
        /\ job.v = me[t].job.v
    BY <1>1 DEF Jobs
  <2> HIDE DEF job
  <2>4. m \in Calls /\ m.pc = "faa_local" /\ m.kind = me[t].kind /\ m.tries = me[t].tries
        /\ m.job = job
    BY <1>1, <2>3 DEF Calls, Pcs, FaaPcs
  <2> HIDE DEF m
  <2>5. m.job.v.cnt <= ctr'[m.job.side].cnt /\ ~m.job.v.fin
    BY <1>1, <1>2, <2>2, <2>3, <2>4 DEF TicketInv
  <2>6. Work(t, m) BY <2>3, <2>4, <2>5 DEF Work, FaaPcs, Phase2Pcs, ClaimedPcs
  <2>7. QED BY <1>2, <2>1, <2>2, <2>6, WorkStep
<1>4. CASE req[me[t].job.rec].seq1 # me[t].job.seq
  <2>1. HelpEnds(t) /\ UNCHANGED <<ctr, threshold, entry, records>>
    BY <1>4 DEF HelpSeq1, Job
  <2>2. QED BY <1>2, <2>1, HelpGivesUp
<1>5. QED BY <1>3, <1>4

LEMMA RequestSteps ==
  ASSUME RingInv, NEW t \in Threads, RequestStep(t)
  PROVE  StepOK(t)
<1>1. CASE PublishLocal(t) \/ PublishFields(t) \/ PublishSeq(t) \/ PublishPending(t)
  BY <1>1, PublishSteps
<1>2. CASE CloseRequest(t) \/ RetireRequest(t) BY <1>2, CloseSteps
<1>3. CASE GatherLocal(t) \/ GatherEntry(t) BY <1>3, GatherSteps
<1>4. CASE HelpPending(t) \/ HelpKind(t) \/ HelpSeq2(t) BY <1>4, LookSteps
<1>5. CASE HelpFields(t) BY <1>5, HelpFieldsStep
<1>6. CASE HelpSeq1(t) BY <1>6, HelpSeq1Step
<1>7. QED BY <1>1, <1>2, <1>3, <1>4, <1>5, <1>6 DEF RequestStep

-----------------------------------------------------------------------------
(***************************************************************************)
(* slow_faa                                                                *)
(***************************************************************************)
LEMMA AtWork ==
  ASSUME RingInv, NEW t \in Threads, me[t].pc \in FaaPcs \cup SlowPcs
  PROVE  /\ Working(t) /\ me[t].job.rec \in Threads /\ me[t].job.side \in Sides
         /\ me[t].job.v.cnt <= ctr[me[t].job.side].cnt /\ ~me[t].job.v.fin
         /\ me[t].job.v.cnt \in Nat /\ me[t].job.cnt \in Nat
         /\ me[t].pc \in {"faa_claim"} \cup Phase2Pcs \cup ClaimedPcs =>
              me[t].job.cnt <= ctr[me[t].job.side].cnt
         /\ me[t].pc \in {"faa_claim"} \cup Phase2Pcs => me[t].job.v.cnt <= me[t].job.cnt
<1>1. JobInv(t) /\ TicketInv(t) BY DEF RingInv, CallInv
<1>2. Working(t) BY DEF Working
<1>3. QED BY <1>1, <1>2, CallType DEF JobInv, TicketInv

LEMMA FaaReads ==
  ASSUME RingInv, NEW t \in Threads, FaaLocal(t) \/ FaaGlobal(t)
  PROVE  StepOK(t)
<1>1. Types /\ me[t] \in Calls /\ me[t].job \in Jobs /\ me[t].dep \in Deps
  BY CallType DEF RingInv
<1>2. CASE FaaLocal(t)
  <2>1. me[t].pc = "faa_local" /\ me[t].pc \in FaaPcs BY <1>2 DEF FaaLocal, At, FaaPcs
  <2>2. CASE loc[me[t].job.side][me[t].job.rec].fin
    <3>1. JobEnds(t) /\ UNCHANGED <<ctr, threshold, entry, records>>
      BY <1>2, <2>2 DEF FaaLocal, Job
    <3>2. turn' \in [Threads -> [left : 0 .. HelpDelay, next : Threads]]
          /\ \A u \in Threads \ {t} : turn'[u] = turn[u]
      BY <3>1, JobEndsTurn
    <3>3. ctr' = ctr /\ loc' = loc /\ req' = req /\ p2' = p2 /\ threshold' = threshold
          /\ entry' = entry
      BY <3>1 DEF records
    <3>4. \A s \in Sides : ctr[s].cnt \in Nat BY <1>1 DEF Types
    <3>5. Forward(t) BY <3>3, <3>4 DEF Forward
    <3>6. Mild(t) BY <1>1, <3>2, <3>3, <3>5 DEF Mild, Types
    <3>7. QED BY <2>1, <3>1, <3>6, JobEndsStep
  <2>3. CASE ~loc[me[t].job.side][me[t].job.rec].fin
    <3> DEFINE m == [me[t] EXCEPT !.pc = "faa_global", !.tkt = 0, !.ent = Fresh]
    <3>1. me' = [me EXCEPT ![t] = m] /\ UNCHANGED <<ctr, threshold, entry, records, turn>>
      BY <1>2, <2>3, CallType DEF FaaLocal, Job
    <3>2. Mild(t) /\ turn' = turn BY <3>1, StillIsMild
    <3>3. m \in Calls /\ m.pc = "faa_global" /\ m.kind = me[t].kind /\ m.tries = me[t].tries
          /\ m.job = me[t].job
      BY <1>1, Blanks DEF Calls, Pcs, FaaPcs
    <3> HIDE DEF m
    <3>4. Working(t) BY <2>1 DEF Working
    <3>5. /\ m.pc \in (FaaPcs \ {"pub_fields", "pub_seq2"}) \cup SlowPcs \cup CatchupPcs
          /\ m.pc \notin Phase2Pcs /\ m.pc \notin ClaimedPcs
          /\ m.pc \notin {"faa_claim", "p2_inc", "p2_fields", "p2_seq1", "cu_cas"}
      BY <3>3 DEF FaaPcs, Phase2Pcs, ClaimedPcs
    <3>6. Work(t, m) BY <3>2, <3>3, <3>4, <3>5, WorkKeeps
    <3>7. QED BY <3>1, <3>2, <3>4, <3>6, WorkStep
  <2>4. QED BY <2>2, <2>3
<1>3. CASE FaaGlobal(t)
  <2>1. me[t].pc = "faa_global" /\ me[t].pc \in FaaPcs BY <1>3 DEF FaaGlobal, At, FaaPcs
  <2>2. /\ Working(t) /\ me[t].job.side \in Sides
        /\ me[t].job.v.cnt <= ctr[me[t].job.side].cnt /\ ~me[t].job.v.fin
    BY <2>1, AtWork
  <2> DEFINE g == ctr[me[t].job.side]
             next == IF g.tid = NoTid THEN "faa_claim" ELSE "p2_seq2"
             job == [me[t].job EXCEPT !.cnt = g.cnt]
             dep == [me[t].dep EXCEPT !.rec = g.tid]
             m == [me[t] EXCEPT !.pc = next, !.job = job, !.dep = dep]
  <2>3. me' = [me EXCEPT ![t] = m] /\ UNCHANGED <<ctr, threshold, entry, records, turn>>
    <3>1. me' = [me EXCEPT ![t].pc = next, ![t].job.cnt = g.cnt, ![t].dep.rec = g.tid]
          /\ UNCHANGED <<ctr, threshold, entry, records, turn>>
      BY <1>3 DEF FaaGlobal, Job
    <3> HIDE DEF next, g
    <3>2. QED BY <3>1, CallType
  <2>4. Mild(t) /\ turn' = turn /\ ctr' = ctr BY <2>3, StillIsMild
  <2>5. g.cnt \in Nat /\ g.tid \in Threads \cup {NoTid} BY <1>1, <2>2 DEF Types
  <2>6. next \in {"faa_claim", "p2_seq2"} /\ (next = "p2_seq2" => g.tid \in Threads)
    BY <2>5
  <2> HIDE DEF next
  <2>7. job \in Jobs /\ job.rec = me[t].job.rec /\ job.side = me[t].job.side
        /\ job.v = me[t].job.v /\ job.cnt = g.cnt
    BY <1>1, <2>5 DEF Jobs
  <2>8. dep \in Deps /\ dep.rec = g.tid BY <1>1, <2>5 DEF Deps
  <2> HIDE DEF job, dep
  <2>9. m \in Calls /\ m.pc = next /\ m.kind = me[t].kind /\ m.tries = me[t].tries
        /\ m.job = job /\ m.dep = dep
    BY <1>1, <2>6, <2>7, <2>8 DEF Calls, Pcs, FaaPcs, Phase2Pcs
  <2> HIDE DEF m
  <2>10. m.job.v.cnt <= ctr'[m.job.side].cnt /\ ~m.job.v.fin /\ m.job.v.cnt <= m.job.cnt
         /\ m.job.cnt <= ctr'[m.job.side].cnt
    BY <2>2, <2>4, <2>5, <2>7, <2>9
  <2>11. m.pc = "p2_seq2" => m.dep.rec \in Threads BY <2>6, <2>8, <2>9
  <2>12. m.pc \in {"faa_claim", "p2_seq2"} BY <2>6, <2>9
  <2>13. Work(t, m) BY <2>7, <2>9, <2>10, <2>11, <2>12 DEF Work, FaaPcs, Phase2Pcs
  <2>14. QED BY <2>2, <2>3, <2>4, <2>13, WorkStep
<1>4. QED BY <1>2, <1>3

LEMMA AttemptStep ==
  ASSUME RingInv, NEW t \in Threads, Mild(t), turn' = turn, me[t].pc \in FaaPcs, NEW n \in Nat,
         n <= ctr'[me[t].job.side].cnt, Attempt(t, n)
  PROVE  StepOK(t)
<1>1. Working(t) /\ me[t].job \in Jobs /\ me[t] \in Calls BY AtWork, CallType
<1> DEFINE next == IF me[t].job.side = "tail" THEN "se_load" ELSE "sd_load"
           w == Word(n)
           job == [me[t].job EXCEPT !.v = w, !.cnt = 0]
           m == [me[t] EXCEPT !.pc = next, !.tkt = n, !.job = job]
<1>2. me' = [me EXCEPT ![t] = m]
  <2>1. me' = [me EXCEPT ![t].pc = next, ![t].tkt = n, ![t].job.v = w, ![t].job.cnt = 0]
    BY DEF Attempt, Job
  <2> HIDE DEF next, w
  <2>2. QED BY <2>1, CallType
<1>3. next \in {"se_load", "sd_load"} OBVIOUS
<1>4. w \in Words /\ w.cnt = n /\ ~w.fin BY DEF Word, Words
<1> HIDE DEF next, w
<1>5. job \in Jobs /\ job.rec = me[t].job.rec /\ job.side = me[t].job.side /\ job.v = w
  BY <1>1, <1>4 DEF Jobs
<1> HIDE DEF job
<1>6. m \in Calls /\ m.pc = next /\ m.kind = me[t].kind /\ m.tries = me[t].tries
      /\ m.job = job
  BY <1>1, <1>3, <1>5 DEF Calls, Pcs, SlowPcs
<1> HIDE DEF m
<1>7. m.job.v.cnt <= ctr'[m.job.side].cnt /\ ~m.job.v.fin BY <1>4, <1>5, <1>6
<1>8. Work(t, m) BY <1>3, <1>5, <1>6, <1>7 DEF Work, SlowPcs, Phase2Pcs, ClaimedPcs
<1>9. QED BY <1>1, <1>2, <1>8, WorkStep

LEMMA FaaClaimStep ==
  ASSUME RingInv, NEW t \in Threads, FaaClaim(t)
  PROVE  StepOK(t)
<1>1. Types /\ me[t] \in Calls /\ me[t].job \in Jobs /\ me[t].job.v \in Words
  BY CallType DEF RingInv
<1>2. me[t].pc = "faa_claim" /\ me[t].pc \in FaaPcs BY DEF FaaClaim, At, FaaPcs
<1> DEFINE j == me[t].job
<1>3. /\ Working(t) /\ j.rec \in Threads /\ j.side \in Sides /\ ~j.v.fin
      /\ j.cnt \in Nat /\ j.v.cnt \in Nat /\ j.cnt <= ctr[j.side].cnt /\ j.v.cnt <= j.cnt
  BY <1>2, AtWork
<1> DEFINE cur == loc[j.side][j.rec]
           mark == IF cur = j.v THEN WithInc(j.cnt) ELSE cur
<1>4. cur \in Words /\ cur.cnt <= ctr[j.side].cnt
  BY <1>1, <1>3 DEF RingInv, CallInv, RecordInv, Types
<1>5. WithInc(j.cnt) \in Words /\ WithInc(j.cnt).cnt = j.cnt /\ ~WithInc(j.cnt).fin
  BY <1>3 DEF WithInc, Word, Words
<1>6. mark \in Words /\ mark.cnt <= ctr[j.side].cnt BY <1>3, <1>4, <1>5
<1>7. mark # cur => ~cur.fin /\ mark.cnt >= cur.cnt
  BY <1>3, <1>5
<1>8. loc' = [loc EXCEPT ![j.side][j.rec] = mark] /\ UNCHANGED <<ctr, threshold, entry, req, p2>>
  BY DEF FaaClaim, Job
<1>9. \/ mark.fin /\ JobEnds(t)
      \/ /\ ~mark.fin /\ mark.inc /\ turn' = turn
         /\ me' = [me EXCEPT ![t].pc = "pub_seq1", ![t].job.v = mark, ![t].job.cnt = mark.cnt]
      \/ ~mark.fin /\ Attempt(t, mark.cnt) /\ turn' = turn
  BY DEF FaaClaim, Job
<1>10. turn' \in [Threads -> [left : 0 .. HelpDelay, next : Threads]]
       /\ \A u \in Threads \ {t} : turn'[u] = turn[u]
  BY <1>9, JobEndsTurn, TurnStays
<1>11. mark.cnt \in Nat BY <1>6 DEF Words
<1> HIDE DEF mark
<1>12. Mild(t)
  <2> DEFINE side == j.side
             r == j.rec
  <2>1. side \in Sides /\ r \in Threads BY <1>3
  <2>2. loc' = [loc EXCEPT ![side][r] = mark] BY <1>8
  <2>3. mark # loc[side][r] => /\ mark.cnt <= ctr[side].cnt
                               /\ ~loc[side][r].fin /\ mark.cnt >= loc[side][r].cnt
    BY <1>6, <1>7
  <2>4. mark \in Words BY <1>6
  <2>5. UNCHANGED <<ctr, threshold, entry, req, p2>> BY <1>8
  <2> HIDE DEF side, r, cur, j
  <2>6. QED BY <1>10, <2>1, <2>2, <2>3, <2>4, <2>5, LocIsMild
<1>13. CASE mark.fin /\ JobEnds(t) BY <1>2, <1>12, <1>13, JobEndsStep
<1>14. CASE ~mark.fin /\ Attempt(t, mark.cnt) /\ turn' = turn
  <2>1. mark.cnt <= ctr'[me[t].job.side].cnt BY <1>6, <1>8
  <2> DEFINE n == mark.cnt
  <2>2. n \in Nat /\ n <= ctr'[me[t].job.side].cnt /\ Attempt(t, n) BY <1>11, <1>14, <2>1
  <2> HIDE DEF n
  <2>3. QED BY <1>2, <1>12, <1>14, <2>2, AttemptStep
<1>15. CASE /\ ~mark.fin /\ turn' = turn
            /\ me' = [me EXCEPT ![t].pc = "pub_seq1", ![t].job.v = mark,
                                ![t].job.cnt = mark.cnt]
  <2> DEFINE n == mark.cnt
             job == [j EXCEPT !.v = mark, !.cnt = n]
             m == [me[t] EXCEPT !.pc = "pub_seq1", !.job = job]
  <2>1. me' = [me EXCEPT ![t] = m]
    <3>1. me' = [me EXCEPT ![t].pc = "pub_seq1", ![t].job.v = mark, ![t].job.cnt = n] BY <1>15
    <3> HIDE DEF n
    <3>2. QED BY <3>1, CallType
  <2>2. n \in Nat BY <1>11
  <2> HIDE DEF n
  <2>3. job \in Jobs /\ job.rec = j.rec /\ job.side = j.side /\ job.v = mark /\ job.cnt = n
    BY <1>1, <1>6, <2>2 DEF Jobs
  <2> HIDE DEF job
  <2>4. m \in Calls /\ m.pc = "pub_seq1" /\ m.kind = me[t].kind /\ m.tries = me[t].tries
        /\ m.job = job
    BY <1>1, <2>3 DEF Calls, Pcs, FaaPcs, ClaimedPcs
  <2> HIDE DEF m
  <2>5. m.job.v.cnt <= ctr'[m.job.side].cnt /\ ~m.job.v.fin /\ m.job.cnt <= ctr'[m.job.side].cnt
    BY <1>6, <1>8, <1>15, <2>3, <2>4 DEF n
  <2>6. Work(t, m) BY <2>3, <2>4, <2>5 DEF Work, FaaPcs, Phase2Pcs, ClaimedPcs
  <2>7. QED BY <1>3, <1>12, <1>15, <2>1, <2>6, WorkStep
<1>16. QED BY <1>9, <1>13, <1>14, <1>15

LEMMA ClearIsMild ==
  ASSUME RingInv, NEW t \in Threads, NEW side \in Sides, NEW r \in Threads, NEW n \in Nat,
         ClearInc(side, r, n), UNCHANGED <<ctr, threshold, entry, req, p2, turn>>
  PROVE  Mild(t)
<1>1. Types /\ RecordInv(r) BY DEF RingInv, CallInv
<1>2. loc[side][r] \in Words /\ loc[side][r].cnt <= ctr[side].cnt
  BY <1>1 DEF Types, RecordInv
<1>3. CASE loc[side][r] = WithInc(n)
  <2> DEFINE w == Word(n)
  <2>1. w \in Words /\ w.cnt = n BY DEF Word, Words
  <2>2. loc[side][r].cnt = n /\ ~loc[side][r].fin BY <1>3 DEF WithInc, Word
  <2>3. loc' = [loc EXCEPT ![side][r] = w] BY <1>3 DEF ClearInc
  <2> HIDE DEF w
  <2>4. w.cnt <= ctr[side].cnt /\ w.cnt >= loc[side][r].cnt BY <1>2, <2>1, <2>2
  <2>5. QED BY <2>1, <2>2, <2>3, <2>4, TurnStays, LocIsMild
<1>4. CASE loc[side][r] # WithInc(n)
  <2>1. loc' = loc BY <1>4 DEF ClearInc
  <2>2. \A s \in Sides : ctr'[s].cnt = ctr[s].cnt /\ ctr[s].cnt \in Nat BY <1>1 DEF Types
  <2>3. Forward(t) BY <2>1, <2>2 DEF Forward
  <2>4. QED BY <1>1, <2>1, <2>3 DEF Mild, Types
<1>5. QED BY <1>3, <1>4

LEMMA FaaAddSteps ==
  ASSUME RingInv, NEW t \in Threads,
         FaaAdd(t) \/ FaaThreshold(t) \/ FaaDone(t) \/ FaaFree(t)
  PROVE  StepOK(t)
<1>1. Types BY DEF RingInv
<1> DEFINE j == me[t].job
           side == j.side
<1>2. ASSUME me[t].pc \in ClaimedPcs
      PROVE  /\ me[t].pc \in FaaPcs /\ j.rec \in Threads /\ side \in Sides /\ j.cnt \in Nat
             /\ j.cnt <= ctr[side].cnt /\ ctr[side] \in [cnt : Nat, tid : Threads \cup {NoTid}]
  BY <1>1, <1>2, AtWork DEF FaaPcs, Types
<1>3. CASE FaaAdd(t)
  <2>1. me[t].pc = "faa_add" /\ me[t].pc \in ClaimedPcs BY <1>3 DEF FaaAdd, At, ClaimedPcs
  <2>2. CASE ctr[side] = Global(j.cnt, NoTid)
    <3> DEFINE c == Global(j.cnt + 1, t)
               next == IF side = "head" THEN "faa_threshold" ELSE "faa_done"
    <3>1. c \in [cnt : Nat, tid : Threads \cup {NoTid}] /\ c.cnt = j.cnt + 1
      BY <1>2, <2>1 DEF Global
    <3>2. ctr[side].cnt = j.cnt BY <2>2 DEF Global
    <3>3. c.cnt >= ctr[side].cnt BY <1>2, <2>1, <3>1, <3>2
    <3>4. ctr' = [ctr EXCEPT ![side] = c] /\ UNCHANGED <<threshold, entry, records, turn>>
          /\ GoTo(t, next)
      BY <1>3, <2>2 DEF FaaAdd, Job
    <3>5. next \in {"faa_threshold", "faa_done"} OBVIOUS
    <3> HIDE DEF c, next
    <3>6. Mild(t) /\ turn' = turn BY <1>2, <2>1, <3>1, <3>3, <3>4, CounterIsMild
    <3>7. next \in (FaaPcs \ {"pub_fields", "pub_seq2"}) \cup SlowPcs /\ next # "faa_claim"
          /\ next \in ClaimedPcs /\ next \notin Phase2Pcs
      BY <3>5 DEF FaaPcs, ClaimedPcs, Phase2Pcs
    <3>8. QED BY <1>2, <2>1, <3>4, <3>6, <3>7, WorkGoStep
  <2>3. CASE ctr[side] # Global(j.cnt, NoTid)
    <3>1. GoTo(t, "faa_local") /\ UNCHANGED <<ctr, threshold, entry, records, turn>>
      BY <1>3, <2>3 DEF FaaAdd, Job
    <3>2. Mild(t) /\ turn' = turn BY <3>1, StillIsMild
    <3> DEFINE next == "faa_local"
    <3>3. next \in (FaaPcs \ {"pub_fields", "pub_seq2"}) \cup SlowPcs /\ next # "faa_claim"
          /\ next \notin ClaimedPcs /\ next \notin Phase2Pcs /\ GoTo(t, next)
      BY <3>1 DEF FaaPcs, ClaimedPcs, Phase2Pcs
    <3> HIDE DEF next
    <3>4. QED BY <1>2, <2>1, <3>2, <3>3, WorkGoStep
  <2>4. QED BY <2>2, <2>3
<1>4. CASE FaaThreshold(t)
  <2>1. me[t].pc = "faa_threshold" /\ me[t].pc \in ClaimedPcs
    BY <1>4 DEF FaaThreshold, At, ClaimedPcs
  <2>2. Mild(t) /\ turn' = turn BY <1>4, ThresholdIsMild DEF FaaThreshold
  <2> DEFINE next == "faa_done"
  <2>3. next \in (FaaPcs \ {"pub_fields", "pub_seq2"}) \cup SlowPcs /\ next # "faa_claim"
        /\ next \in ClaimedPcs /\ next \notin Phase2Pcs /\ GoTo(t, next)
    BY <1>4 DEF FaaPcs, ClaimedPcs, Phase2Pcs, FaaThreshold
  <2> HIDE DEF next
  <2>4. QED BY <1>2, <2>1, <2>2, <2>3, WorkGoStep
<1>5. CASE FaaDone(t)
  <2>1. me[t].pc = "faa_done" /\ me[t].pc \in ClaimedPcs BY <1>5 DEF FaaDone, At, ClaimedPcs
  <2>2. ClearInc(side, j.rec, j.cnt) /\ UNCHANGED <<ctr, threshold, entry, req, p2, turn>>
    BY <1>5 DEF FaaDone, Job
  <2>3. Mild(t) /\ turn' = turn BY <1>2, <2>1, <2>2, ClearIsMild
  <2> DEFINE next == "faa_free"
  <2>4. next \in (FaaPcs \ {"pub_fields", "pub_seq2"}) \cup SlowPcs /\ next # "faa_claim"
        /\ next \in ClaimedPcs /\ next \notin Phase2Pcs /\ GoTo(t, next)
    BY <1>5 DEF FaaPcs, ClaimedPcs, Phase2Pcs, FaaDone
  <2> HIDE DEF next
  <2>5. QED BY <1>2, <2>1, <2>3, <2>4, WorkGoStep
<1>6. CASE FaaFree(t)
  <2>1. me[t].pc = "faa_free" /\ me[t].pc \in ClaimedPcs BY <1>6 DEF FaaFree, At, ClaimedPcs
  <2> DEFINE c == IF ctr[side] = Global(j.cnt + 1, t)
                  THEN [ctr[side] EXCEPT !.tid = NoTid] ELSE ctr[side]
  <2>2. c \in [cnt : Nat, tid : Threads \cup {NoTid}] /\ c.cnt = ctr[side].cnt
        /\ ctr[side].cnt \in Nat
    BY <1>2, <2>1
  <2>3. ctr' = [ctr EXCEPT ![side] = c]
    <3>1. ctr' = IF ctr[side] = Global(j.cnt + 1, t)
                 THEN [ctr EXCEPT ![side].tid = NoTid] ELSE ctr
      BY <1>6 DEF FaaFree, Job
    <3>2. side \in Sides /\ ctr \in [Sides -> [cnt : Nat, tid : Threads \cup {NoTid}]]
      BY <1>1, <1>2, <2>1 DEF Types
    <3> HIDE DEF side
    <3>3. QED BY <3>1, <3>2
  <2>4. UNCHANGED <<threshold, entry, records, turn>> /\ Attempt(t, j.cnt)
    BY <1>6 DEF FaaFree, Job
  <2> HIDE DEF c
  <2>5. c.cnt >= ctr[side].cnt BY <2>2
  <2>6. Mild(t) /\ ctr'[side] = c BY <1>2, <2>1, <2>2, <2>3, <2>4, <2>5, CounterIsMild
  <2>7. j.cnt <= ctr'[side].cnt BY <1>2, <2>1, <2>2, <2>6
  <2>8. QED BY <1>2, <2>1, <2>4, <2>6, <2>7, AttemptStep
<1>7. QED BY <1>3, <1>4, <1>5, <1>6

LEMMA HelpPhaseSteps ==
  ASSUME RingInv, NEW t \in Threads, HelpP2Seq2(t) \/ HelpP2Fields(t) \/ HelpP2Seq1(t)
  PROVE  StepOK(t)
<1>1. Types /\ JobInv(t) /\ SnapshotInv(t) /\ me[t] \in Calls /\ me[t].dep \in Deps
  BY CallType DEF RingInv, CallInv
<1>2. ASSUME me[t].pc \in Phase2Pcs
      PROVE  me[t].pc \in FaaPcs /\ Working(t) /\ me[t].dep.rec \in Threads
  BY <1>1, <1>2, AtWork DEF FaaPcs, JobInv
<1>3. CASE HelpP2Seq2(t)
  <2>1. me[t].pc = "p2_seq2" /\ me[t].pc \in Phase2Pcs BY <1>3 DEF HelpP2Seq2, At, Phase2Pcs
  <2>2. Mild(t) /\ turn' = turn BY <1>3, StillIsMild DEF HelpP2Seq2
  <2> DEFINE n == p2[me[t].dep.rec].seq2
             dep == [me[t].dep EXCEPT !.seq = n]
             m == [me[t] EXCEPT !.pc = "p2_fields", !.dep = dep]
  <2>3. me' = [me EXCEPT ![t] = m] BY <1>3, CallType DEF HelpP2Seq2
  <2>4. n \in Nat BY <1>1, <1>2, <2>1 DEF Types, Phases
  <2> HIDE DEF n
  <2>5. dep \in Deps /\ dep.rec = me[t].dep.rec /\ dep.seq = n BY <1>1, <2>4 DEF Deps
  <2> HIDE DEF dep
  <2>6. m \in Calls /\ m.pc = "p2_fields" /\ m.kind = me[t].kind /\ m.tries = me[t].tries
        /\ m.job = me[t].job /\ m.dep = dep
    BY <1>1, <2>5 DEF Calls, Pcs, FaaPcs, Phase2Pcs
  <2> HIDE DEF m
  <2>7. /\ m.pc \in (FaaPcs \ {"pub_fields", "pub_seq2"}) \cup SlowPcs \cup CatchupPcs
        /\ m.pc \in Phase2Pcs /\ m.pc \notin ClaimedPcs
        /\ m.pc \notin {"faa_claim", "p2_inc", "p2_seq1", "cu_cas"}
    BY <2>6 DEF FaaPcs, Phase2Pcs, ClaimedPcs
  <2>8. m.dep.rec \in Threads BY <1>2, <2>1, <2>5, <2>6
  <2>9. m.dep.seq <= p2[m.dep.rec].seq2 BY <2>4, <2>5, <2>6 DEF n
  <2>10. Work(t, m) BY <1>2, <2>1, <2>2, <2>6, <2>7, <2>8, <2>9, WorkKeeps
  <2>11. QED BY <1>2, <2>1, <2>2, <2>3, <2>10, WorkStep
<1>4. CASE HelpP2Fields(t)
  <2>1. me[t].pc = "p2_fields" /\ me[t].pc \in Phase2Pcs
    BY <1>4 DEF HelpP2Fields, At, Phase2Pcs
  <2>2. Mild(t) /\ turn' = turn BY <1>4, StillIsMild DEF HelpP2Fields
  <2> DEFINE p == p2[me[t].dep.rec]
             dep == [me[t].dep EXCEPT !.side = p.side, !.of = p.of, !.v = p.v]
             m == [me[t] EXCEPT !.pc = "p2_seq1", !.dep = dep]
  <2>3. me' = [me EXCEPT ![t] = m]
    <3>1. me' = [me EXCEPT ![t].pc = "p2_seq1", ![t].dep.side = p.side, ![t].dep.of = p.of,
                           ![t].dep.v = p.v]
      BY <1>4 DEF HelpP2Fields
    <3> HIDE DEF p
    <3>2. QED BY <3>1, CallType
  <2>4. p \in Phases BY <1>1, <1>2, <2>1 DEF Types
  <2> HIDE DEF p
  <2>5. dep \in Deps /\ dep.rec = me[t].dep.rec /\ dep.seq = me[t].dep.seq
        /\ dep.side = p.side /\ dep.of = p.of /\ dep.v = p.v
    BY <1>1, <2>4 DEF Deps, Phases
  <2> HIDE DEF dep
  <2>6. m \in Calls /\ m.pc = "p2_seq1" /\ m.kind = me[t].kind /\ m.tries = me[t].tries
        /\ m.job = me[t].job /\ m.dep = dep
    BY <1>1, <2>5 DEF Calls, Pcs, FaaPcs, Phase2Pcs
  <2> HIDE DEF m
  <2>7. /\ m.pc \in (FaaPcs \ {"pub_fields", "pub_seq2"}) \cup SlowPcs \cup CatchupPcs
        /\ m.pc \in Phase2Pcs /\ m.pc \notin ClaimedPcs
        /\ m.pc \notin {"faa_claim", "p2_inc", "cu_cas"}
    BY <2>6 DEF FaaPcs, Phase2Pcs, ClaimedPcs
  <2>8. m.dep.rec \in Threads BY <1>2, <2>1, <2>5, <2>6
  <2>9. m.dep.seq <= p2[m.dep.rec].seq2
    BY <1>1, <2>1, <2>5, <2>6 DEF SnapshotInv
  <2>10. m.dep.side = p2[m.dep.rec].side /\ m.dep.of = p2[m.dep.rec].of
         /\ m.dep.v = p2[m.dep.rec].v
    BY <2>5, <2>6 DEF p
  <2>11. Work(t, m) BY <1>2, <2>1, <2>2, <2>6, <2>7, <2>8, <2>9, <2>10, WorkKeeps
  <2>12. QED BY <1>2, <2>1, <2>2, <2>3, <2>11, WorkStep
<1>5. CASE HelpP2Seq1(t)
  <2>1. me[t].pc = "p2_seq1" /\ me[t].pc \in Phase2Pcs BY <1>5 DEF HelpP2Seq1, At, Phase2Pcs
  <2>2. Mild(t) /\ turn' = turn BY <1>5, StillIsMild DEF HelpP2Seq1
  <2> DEFINE p == p2[me[t].dep.rec]
             next == IF p.seq1 = me[t].dep.seq THEN "p2_inc" ELSE "p2_clear"
             m == [me[t] EXCEPT !.pc = next]
  <2>3. GoTo(t, next) BY <1>5 DEF HelpP2Seq1
  <2>4. next \in Pcs /\ next \in {"p2_inc", "p2_clear"} BY DEF Pcs, FaaPcs, Phase2Pcs
  <2>5. next = "p2_inc" => p.seq1 = me[t].dep.seq OBVIOUS
  <2>6. m \in Calls /\ me' = [me EXCEPT ![t] = m] /\ m.pc = next /\ m.kind = me[t].kind
        /\ m.tries = me[t].tries /\ m.job = me[t].job /\ m.dep = me[t].dep
    <3> HIDE DEF next
    <3>1. QED BY <2>3, <2>4, GoToFacts
  <2> HIDE DEF m, next
  <2>7. m.pc = "p2_inc" => m.dep.side \in Sides /\ m.dep.of \in Threads
    <3>1. SUFFICES ASSUME m.pc = "p2_inc"
                   PROVE  m.dep.side \in Sides /\ m.dep.of \in Threads
      OBVIOUS
    <3>2. p.seq1 = me[t].dep.seq BY <2>5, <2>6, <3>1
    <3>3. /\ me[t].dep.seq <= p.seq2 /\ me[t].dep.side = p.side /\ me[t].dep.of = p.of
      BY <1>1, <2>1, <3>2 DEF SnapshotInv
    <3>4. p \in Phases BY <1>1, <1>2, <2>1 DEF Types
    <3>5. p.seq1 >= 1 /\ (p.seq2 >= 1 => p.side \in Sides /\ p.of \in Threads)
      BY <1>2, <2>1 DEF RingInv, CallInv, RecordInv
    <3> HIDE DEF p
    <3>6. p.seq2 >= 1 BY <3>2, <3>3, <3>4, <3>5 DEF Phases
    <3>7. QED BY <2>6, <3>3, <3>5, <3>6
  <2>8. /\ m.pc \in (FaaPcs \ {"pub_fields", "pub_seq2"}) \cup SlowPcs \cup CatchupPcs
        /\ m.pc \in Phase2Pcs /\ m.pc \notin ClaimedPcs
        /\ m.pc \notin {"faa_claim", "p2_fields", "p2_seq1", "cu_cas"}
    BY <2>4, <2>6 DEF FaaPcs, Phase2Pcs, ClaimedPcs
  <2>9. m.dep.rec \in Threads BY <1>2, <2>1, <2>6
  <2>10. Work(t, m) BY <1>2, <2>1, <2>2, <2>6, <2>7, <2>8, <2>9, WorkKeeps
  <2>11. QED BY <1>2, <2>1, <2>2, <2>6, <2>10, WorkStep
<1>6. QED BY <1>3, <1>4, <1>5

LEMMA EndPhaseSteps ==
  ASSUME RingInv, NEW t \in Threads, HelpP2Inc(t) \/ HelpP2Clear(t)
  PROVE  StepOK(t)
<1>1. Types /\ JobInv(t) /\ me[t] \in Calls /\ me[t].dep \in Deps
  BY CallType DEF RingInv, CallInv
<1>2. CASE HelpP2Inc(t)
  <2>1. me[t].pc = "p2_inc" /\ me[t].pc \in Phase2Pcs /\ me[t].pc \in FaaPcs
    BY <1>2 DEF HelpP2Inc, At, Phase2Pcs, FaaPcs
  <2>2. me[t].dep.side \in Sides /\ me[t].dep.of \in Threads /\ me[t].dep.v \in Nat
    BY <1>1, <2>1 DEF JobInv, Deps
  <2>3. ClearInc(me[t].dep.side, me[t].dep.of, me[t].dep.v)
        /\ UNCHANGED <<ctr, threshold, entry, req, p2, turn>>
    BY <1>2 DEF HelpP2Inc
  <2>4. Mild(t) /\ turn' = turn BY <2>2, <2>3, ClearIsMild
  <2> DEFINE next == "p2_clear"
             m == [me[t] EXCEPT !.pc = next]
  <2>5. next \in Pcs /\ GoTo(t, next) BY <1>2 DEF Pcs, FaaPcs, Phase2Pcs, HelpP2Inc
  <2>6. m \in Calls /\ me' = [me EXCEPT ![t] = m] /\ m.pc = next /\ m.kind = me[t].kind
        /\ m.tries = me[t].tries /\ m.job = me[t].job /\ m.dep = me[t].dep
    <3> HIDE DEF next
    <3>1. QED BY <2>5, GoToFacts
  <2>7. m.pc = "p2_clear" BY <2>6
  <2> HIDE DEF m
  <2>8. /\ m.pc \in (FaaPcs \ {"pub_fields", "pub_seq2"}) \cup SlowPcs \cup CatchupPcs
        /\ m.pc \in Phase2Pcs /\ m.pc \notin ClaimedPcs
        /\ m.pc \notin {"faa_claim", "p2_inc", "p2_fields", "p2_seq1", "cu_cas"}
    BY <2>7 DEF FaaPcs, Phase2Pcs, ClaimedPcs
  <2>9. m.dep.rec \in Threads /\ Working(t) BY <1>1, <2>1, <2>6, AtWork DEF JobInv
  <2>10. Work(t, m) BY <2>1, <2>4, <2>6, <2>8, <2>9, WorkKeeps
  <2>11. QED BY <2>4, <2>6, <2>9, <2>10, WorkStep
<1>3. CASE HelpP2Clear(t)
  <2>1. me[t].pc = "p2_clear" /\ me[t].pc \in Phase2Pcs /\ me[t].pc \in FaaPcs
    BY <1>3 DEF HelpP2Clear, At, Phase2Pcs, FaaPcs
  <2>2. Working(t) /\ me[t].job.side \in Sides BY <2>1, AtWork
  <2> DEFINE side == me[t].job.side
             won == ctr[side] = Global(me[t].job.cnt, me[t].dep.rec)
             c == IF won THEN [ctr[side] EXCEPT !.tid = NoTid] ELSE ctr[side]
             next == IF won THEN "faa_claim" ELSE "faa_local"
             m == [me[t] EXCEPT !.pc = next, !.dep = NoDep]
  <2>3. c \in [cnt : Nat, tid : Threads \cup {NoTid}] /\ c.cnt = ctr[side].cnt
        /\ ctr[side].cnt \in Nat
    <3>1. ctr[side] \in [cnt : Nat, tid : Threads \cup {NoTid}] BY <1>1, <2>2 DEF Types
    <3>2. QED BY <3>1
  <2>4. ctr' = [ctr EXCEPT ![side] = c] /\ UNCHANGED <<threshold, entry, records, turn>>
    <3>1. ctr' = (IF won THEN [ctr EXCEPT ![side].tid = NoTid] ELSE ctr)
          /\ UNCHANGED <<threshold, entry, records, turn>>
      BY <1>3 DEF HelpP2Clear, Job
    <3>2. side \in Sides /\ ctr \in [Sides -> [cnt : Nat, tid : Threads \cup {NoTid}]]
      BY <1>1, <2>2 DEF Types
    <3> HIDE DEF side, won
    <3>3. QED BY <3>1, <3>2
  <2>5. me' = [me EXCEPT ![t] = m] BY <1>3, CallType DEF HelpP2Clear, Job
  <2>6. next \in {"faa_claim", "faa_local"} OBVIOUS
  <2> HIDE DEF c, next
  <2>7. c.cnt >= ctr[side].cnt BY <2>3
  <2>8. Mild(t) /\ turn' = turn BY <2>2, <2>3, <2>4, <2>7, CounterIsMild
  <2>9. m \in Calls /\ m.pc = next /\ m.kind = me[t].kind /\ m.tries = me[t].tries
        /\ m.job = me[t].job
    BY <1>1, <2>6, Blanks DEF Calls, Pcs, FaaPcs
  <2> HIDE DEF m
  <2>10. /\ m.pc \in (FaaPcs \ {"pub_fields", "pub_seq2"}) \cup SlowPcs \cup CatchupPcs
         /\ m.pc \notin Phase2Pcs /\ m.pc \notin ClaimedPcs
         /\ m.pc \notin {"p2_inc", "p2_fields", "p2_seq1", "cu_cas"}
    BY <2>6, <2>9 DEF FaaPcs, Phase2Pcs, ClaimedPcs
  <2>11. Work(t, m) BY <2>1, <2>2, <2>8, <2>9, <2>10, WorkKeeps
  <2>12. QED BY <2>2, <2>5, <2>8, <2>11, WorkStep
<1>4. QED BY <1>2, <1>3

\* A thread stores a part of its phase 2 record.
LEMMA PhaseOwnStep ==
  ASSUME RingInv, NEW t \in Threads, me[t].pc \in ClaimedPcs,
         UNCHANGED <<ctr, threshold, entry, loc, req, turn>>,
         NEW p \in Phases, p2' = [p2 EXCEPT ![t] = p],
         NEW next \in ClaimedPcs, GoTo(t, next),
         p.seq1 >= 1, p.seq2 <= p.seq1, p.seq2 >= p2[t].seq2,
         next \in {"pub_fields", "pub_seq2"} => p.seq2 < p.seq1,
         p.seq2 >= 1 \/ next = "pub_seq2" => p.side \in Sides /\ p.of \in Threads,
         \/ p.seq1 = p2[t].seq1 /\ p.side = p2[t].side /\ p.of = p2[t].of /\ p.v = p2[t].v
         \/ p.seq1 > p2[t].seq2
  PROVE  StepOK(t)
<1>1. CallInv(t) /\ Types BY DEF RingInv
<1>2. me[t].pc \in FaaPcs BY DEF FaaPcs
<1> DEFINE m == [me[t] EXCEPT !.pc = next]
<1>3. next \in Pcs BY DEF Pcs, FaaPcs
<1>4. m \in Calls /\ me' = [me EXCEPT ![t] = m] /\ m.pc = next /\ m.kind = me[t].kind
      /\ m.tries = me[t].tries /\ m.job = me[t].job
  BY <1>3, GoToFacts
<1> HIDE DEF m
<1>5. me'[t] = m /\ (\A u \in Threads \ {t} : me'[u] = me[u]) /\ me' \in [Threads -> Calls]
  BY <1>1, <1>4 DEF Types
<1>6. p2'[t] = p /\ (\A u \in Threads \ {t} : p2'[u] = p2[u]) /\ p2' \in [Threads -> Phases]
  BY <1>1 DEF Types
<1>7. Types' BY <1>1, <1>5, <1>6 DEF Types
<1>8. Others(t) BY <1>5, <1>6 DEF Others
<1>9. Forward(t)
  <2>1. \A s \in Sides : ctr[s].cnt \in Nat BY <1>1 DEF Types
  <2>2. QED BY <2>1 DEF Forward
<1>10. RecordMoves(t)
  <2>1. req[t].seq2 \in Nat BY <1>1 DEF Types, Requests
  <2>2. QED BY <1>6, <2>1 DEF RecordMoves
<1>11. /\ Working(t) /\ Working(t)' /\ (ForItself(t)' <=> ForItself(t))
       /\ (Helping(t)' <=> Helping(t)) /\ (Opened(t)' <=> Opened(t))
       /\ next \notin HelpPcs /\ next \notin RequestPcs /\ next \notin Phase2Pcs
       /\ next \notin FastPcs /\ next \notin CatchupPcs /\ me[t].pc \notin {"idle", "req_close"}
       /\ next # "faa_claim"
  BY <1>4, <1>5 DEF Working, ForItself, Helping, Opened, FaaPcs, SlowPcs, CatchupPcs, HelpPcs,
                    RequestPcs, FastPcs, Phase2Pcs, ClaimedPcs
<1>12. TriesInv(t)'
  <2>1. TriesInv(t) /\ next \notin {"enq_faa", "deq_faa"} BY <1>1, <1>11 DEF CallInv, FastPcs
  <2>2. QED BY <1>4, <1>5, <1>11, <2>1 DEF TriesInv
<1>13. JobInv(t)'
  <2>1. JobInv(t) BY <1>1 DEF CallInv
  <2>2. me[t].job.rec \in Threads /\ me[t].job.side \in Sides BY <1>11, <2>1 DEF JobInv
  <2>3. QED BY <1>4, <1>5, <1>11, <2>2 DEF JobInv, HelpPcs, FastPcs, Phase2Pcs, CatchupPcs
<1>14. TicketInv(t)'
  <2>1. /\ me[t].job.v.cnt <= ctr[me[t].job.side].cnt /\ ~me[t].job.v.fin
        /\ me[t].job.cnt <= ctr[me[t].job.side].cnt
    BY <1>2, AtWork
  <2>2. QED BY <1>4, <1>5, <1>11, <2>1 DEF TicketInv, FastPcs, RequestPcs, HelpPcs
<1>15. RecordInv(t)'
  <2>1. RecordInv(t) BY <1>1 DEF CallInv
  <2>2. QED BY <1>4, <1>5, <1>6, <1>11, <2>1 DEF RecordInv
<1>16. SnapshotInv(t)' BY <1>4, <1>5, <1>11 DEF SnapshotInv, HelpPcs, Phase2Pcs
<1>17. CallInv(t)' BY <1>12, <1>13, <1>14, <1>15, <1>16 DEF CallInv
<1>18. QED BY <1>7, <1>8, <1>9, <1>10, <1>17 DEF StepOK

LEMMA PhaseSteps ==
  ASSUME RingInv, NEW t \in Threads, PubP2Seq1(t) \/ PubP2Fields(t) \/ PubP2Seq2(t)
  PROVE  StepOK(t)
<1>1. Types /\ RecordInv(t) /\ p2[t] \in Phases BY DEF RingInv, CallInv, Types
<1>2. /\ p2[t].seq1 \in Nat /\ p2[t].seq2 \in Nat /\ p2[t].seq1 >= 1
      /\ p2[t].seq2 <= p2[t].seq1
  BY <1>1 DEF RecordInv, Phases
<1>3. CASE PubP2Seq1(t)
  <2>1. me[t].pc \in ClaimedPcs BY <1>3 DEF PubP2Seq1, At, ClaimedPcs
  <2> DEFINE p == [p2[t] EXCEPT !.seq1 = @ + 1]
             next == "pub_fields"
  <2>2. p \in Phases /\ p.seq1 = p2[t].seq1 + 1 /\ p.seq2 = p2[t].seq2 /\ p.side = p2[t].side
        /\ p.of = p2[t].of
    BY <1>1 DEF Phases
  <2>3. p2' = [p2 EXCEPT ![t] = p] BY <1>1, <1>3 DEF PubP2Seq1, Types
  <2> HIDE DEF p
  <2>4. next \in ClaimedPcs /\ GoTo(t, next) /\ next # "pub_seq2"
        /\ UNCHANGED <<ctr, threshold, entry, loc, req, turn>>
    BY <1>3 DEF PubP2Seq1, ClaimedPcs
  <2> HIDE DEF next
  <2>5. p.seq2 >= 1 => p.side \in Sides /\ p.of \in Threads BY <1>1, <2>2 DEF RecordInv
  <2>6. p.seq1 >= 1 /\ p.seq2 < p.seq1 /\ p.seq2 <= p.seq1 /\ p.seq2 >= p2[t].seq2
        /\ p.seq1 > p2[t].seq2
    BY <1>2, <2>2
  <2>7. QED BY <2>1, <2>2, <2>3, <2>4, <2>5, <2>6, PhaseOwnStep
<1>4. CASE PubP2Fields(t)
  <2>1. me[t].pc = "pub_fields" /\ me[t].pc \in ClaimedPcs
    BY <1>4 DEF PubP2Fields, At, ClaimedPcs
  <2> DEFINE p == [p2[t] EXCEPT !.side = me[t].job.side, !.of = me[t].job.rec,
                                !.v = me[t].job.cnt]
             next == "pub_seq2"
  <2>2. me[t].job.side \in Sides /\ me[t].job.rec \in Threads /\ me[t].job.cnt \in Nat
    BY <2>1, AtWork DEF FaaPcs
  <2>3. p \in Phases /\ p.seq1 = p2[t].seq1 /\ p.seq2 = p2[t].seq2 /\ p.side \in Sides
        /\ p.of \in Threads
    BY <1>1, <2>2 DEF Phases
  <2>4. p2' = [p2 EXCEPT ![t] = p] BY <1>1, <1>4 DEF PubP2Fields, Types, Job
  <2> HIDE DEF p
  <2>5. next \in ClaimedPcs /\ GoTo(t, next)
        /\ UNCHANGED <<ctr, threshold, entry, loc, req, turn>>
    BY <1>4 DEF PubP2Fields, ClaimedPcs
  <2> HIDE DEF next
  <2>6. p2[t].seq2 < p2[t].seq1 BY <1>1, <2>1 DEF RecordInv
  <2>7. p.seq1 >= 1 /\ p.seq2 < p.seq1 /\ p.seq2 <= p.seq1 /\ p.seq2 >= p2[t].seq2
        /\ p.seq1 > p2[t].seq2
    BY <1>2, <2>3, <2>6
  <2>8. QED BY <2>1, <2>3, <2>4, <2>5, <2>7, PhaseOwnStep
<1>5. CASE PubP2Seq2(t)
  <2>1. me[t].pc = "pub_seq2" /\ me[t].pc \in ClaimedPcs BY <1>5 DEF PubP2Seq2, At, ClaimedPcs
  <2> DEFINE p == [p2[t] EXCEPT !.seq2 = p2[t].seq1]
             next == "faa_add"
  <2>2. p \in Phases /\ p.seq1 = p2[t].seq1 /\ p.seq2 = p2[t].seq1 /\ p.side = p2[t].side
        /\ p.of = p2[t].of /\ p.v = p2[t].v
    BY <1>1 DEF Phases
  <2>3. p2' = [p2 EXCEPT ![t] = p] BY <1>1, <1>5 DEF PubP2Seq2, Types
  <2> HIDE DEF p
  <2>4. next \in ClaimedPcs /\ GoTo(t, next) /\ next \notin {"pub_fields", "pub_seq2"}
        /\ UNCHANGED <<ctr, threshold, entry, loc, req, turn>>
    BY <1>5 DEF PubP2Seq2, ClaimedPcs
  <2> HIDE DEF next
  <2>5. p.side \in Sides /\ p.of \in Threads BY <1>1, <2>1, <2>2 DEF RecordInv
  <2>6. p.seq1 >= 1 /\ p.seq2 <= p.seq1 /\ p.seq2 >= p2[t].seq2 BY <1>2, <2>2
  <2>7. QED BY <2>1, <2>2, <2>3, <2>4, <2>5, <2>6, PhaseOwnStep
<1>6. QED BY <1>3, <1>4, <1>5

LEMMA FaaSteps ==
  ASSUME RingInv, NEW t \in Threads, FaaStep(t)
  PROVE  StepOK(t)
<1>1. CASE FaaLocal(t) \/ FaaGlobal(t) BY <1>1, FaaReads
<1>2. CASE FaaClaim(t) BY <1>2, FaaClaimStep
<1>3. CASE FaaAdd(t) \/ FaaThreshold(t) \/ FaaDone(t) \/ FaaFree(t) BY <1>3, FaaAddSteps
<1>4. CASE HelpP2Seq2(t) \/ HelpP2Fields(t) \/ HelpP2Seq1(t) BY <1>4, HelpPhaseSteps
<1>5. CASE HelpP2Inc(t) \/ HelpP2Clear(t) BY <1>5, EndPhaseSteps
<1>6. CASE PubP2Seq1(t) \/ PubP2Fields(t) \/ PubP2Seq2(t) BY <1>6, PhaseSteps
<1>7. QED BY <1>1, <1>2, <1>3, <1>4, <1>5, <1>6 DEF FaaStep

-----------------------------------------------------------------------------
(***************************************************************************)
(* try_enq_slow and try_deq_slow                                           *)
(***************************************************************************)
LEMMA JobEndsHere ==
  ASSUME RingInv, NEW t \in Threads, me[t].pc \in FaaPcs \cup SlowPcs, JobEnds(t),
         UNCHANGED <<ctr, entry, records>>,
         threshold' = ThreshMax \/ threshold' = threshold
  PROVE  StepOK(t)
<1>1. Types BY DEF RingInv
<1>2. turn' \in [Threads -> [left : 0 .. HelpDelay, next : Threads]]
      /\ \A u \in Threads \ {t} : turn'[u] = turn[u]
  BY JobEndsTurn
<1>3. ctr' = ctr /\ loc' = loc /\ req' = req /\ p2' = p2 /\ entry' = entry
  BY DEF records
<1>4. threshold' \in Int /\ threshold' <= ThreshMax BY <1>1, Sizes DEF Types
<1>5. \A s \in Sides : ctr[s].cnt \in Nat BY <1>1 DEF Types
<1>6. Forward(t) BY <1>3, <1>5 DEF Forward
<1>7. Mild(t) BY <1>1, <1>2, <1>3, <1>4, <1>6 DEF Mild, Types
<1>8. QED BY <1>7, JobEndsStep

\* The thread has read its slot and goes on by what it saw.
LEMMA SlowLookStep ==
  ASSUME RingInv, NEW t \in Threads, Mild(t), turn' = turn, me[t].pc \in SlowPcs,
         NEW next \in SlowPcs \cup {"faa_local"}, NEW e \in Entries,
         me' = [me EXCEPT ![t].pc = next, ![t].ent = e]
  PROVE  StepOK(t)
<1>1. Working(t) /\ me[t] \in Calls BY AtWork, CallType
<1> DEFINE m == [me[t] EXCEPT !.pc = next, !.ent = e]
<1>2. me' = [me EXCEPT ![t] = m] BY CallType
<1>3. next \in Pcs BY DEF Pcs, FaaPcs
<1>4. m \in Calls /\ m.pc = next /\ m.kind = me[t].kind /\ m.tries = me[t].tries
      /\ m.job = me[t].job
  BY <1>1, <1>3 DEF Calls
<1> HIDE DEF m
<1>5. /\ m.pc \in (FaaPcs \ {"pub_fields", "pub_seq2"}) \cup SlowPcs \cup CatchupPcs
      /\ m.pc \notin Phase2Pcs /\ m.pc \notin ClaimedPcs
      /\ m.pc \notin {"faa_claim", "p2_inc", "p2_fields", "p2_seq1", "cu_cas"}
  BY <1>4 DEF FaaPcs, SlowPcs, Phase2Pcs, ClaimedPcs
<1>6. Work(t, m) BY <1>1, <1>4, <1>5, WorkKeeps
<1>7. QED BY <1>1, <1>2, <1>6, WorkStep

LEMMA SlowEnqLookStep ==
  ASSUME RingInv, NEW t \in Threads, me[t].pc \in {"se_load", "se_skip", "se_put"},
         UNCHANGED <<ctr, threshold, entry, records>>, SlowEnqLook(t)
  PROVE  StepOK(t)
<1>1. me[t].pc \in SlowPcs BY DEF SlowPcs
<1> DEFINE n == me[t].tkt
           e == entry[Slot(n)]
           next == IF ~Unused(e, n) THEN "faa_local"
                   ELSE IF ~e.safe THEN "se_head"
                   ELSE IF Real(e) THEN "se_skip" ELSE "se_put"
<1>2. CASE e.cycle = CycleOf(n)
  <2>1. JobEnds(t) BY <1>2 DEF SlowEnqLook
  <2>2. QED BY <1>1, <2>1, JobEndsHere
<1>3. CASE e.cycle # CycleOf(n)
  <2>1. me' = [me EXCEPT ![t].pc = next, ![t].ent = e] /\ turn' = turn
    BY <1>3 DEF SlowEnqLook
  <2>2. next \in SlowPcs \cup {"faa_local"} BY DEF SlowPcs
  <2>3. e \in Entries BY EntryHere
  <2> HIDE DEF next, e
  <2>4. UNCHANGED <<ctr, threshold, entry, records, turn>> BY <2>1
  <2>5. Mild(t) BY <2>4, StillIsMild
  <2>6. QED BY <1>1, <2>1, <2>2, <2>3, <2>5, SlowLookStep
<1>4. QED BY <1>2, <1>3

LEMMA SlowGoStep ==
  ASSUME RingInv, NEW t \in Threads, Mild(t), turn' = turn, me[t].pc \in SlowPcs,
         NEW next \in SlowPcs \cup {"faa_local"}, GoTo(t, next)
  PROVE  StepOK(t)
<1>1. next \in (FaaPcs \ {"pub_fields", "pub_seq2"}) \cup SlowPcs /\ next \notin Phase2Pcs
      /\ next # "faa_claim" /\ next \notin ClaimedPcs
  BY DEF FaaPcs, SlowPcs, Phase2Pcs, ClaimedPcs
<1>2. QED BY <1>1, WorkGoStep

LEMMA SlowEnqPutSteps ==
  ASSUME RingInv, NEW t \in Threads,
         SlowEnqLoad(t) \/ SlowEnqHead(t) \/ SlowEnqSkip(t) \/ SlowEnqPut(t)
  PROVE  StepOK(t)
<1>1. CASE SlowEnqLoad(t)
  <2>1. UNCHANGED <<ctr, threshold, entry, records>> /\ me[t].pc = "se_load" /\ SlowEnqLook(t)
    BY <1>1 DEF SlowEnqLoad, At
  <2>2. QED BY <2>1, SlowEnqLookStep
<1>2. CASE SlowEnqHead(t)
  <2>1. Mild(t) /\ turn' = turn BY <1>2, StillIsMild DEF SlowEnqHead
  <2>2. me[t].pc \in SlowPcs BY <1>2 DEF SlowEnqHead, At, SlowPcs
  <2>3. PICK next \in {"se_skip", "se_put"} : GoTo(t, next) BY <1>2 DEF SlowEnqHead
  <2>4. next \in SlowPcs BY DEF SlowPcs
  <2>5. QED BY <2>1, <2>2, <2>3, <2>4, SlowGoStep
<1>3. ASSUME NEW e \in Entries, NEW next \in SlowPcs \cup {"faa_local"},
             me[t].pc \in {"se_skip", "se_put"}, UNCHANGED <<ctr, threshold, records>>,
             \/ Replaces(t, e) /\ GoTo(t, next) /\ turn' = turn
             \/ Missed(t) /\ SlowEnqLook(t)
      PROVE  StepOK(t)
  <2>1. CASE Replaces(t, e) /\ GoTo(t, next) /\ turn' = turn
    <3>1. Mild(t) BY <1>3, <2>1, ReplaceIsMild
    <3>2. me[t].pc \in SlowPcs BY <1>3 DEF SlowPcs
    <3>3. QED BY <1>3, <2>1, <3>1, <3>2, SlowGoStep
  <2>2. CASE Missed(t) /\ SlowEnqLook(t)
    <3>1. UNCHANGED <<ctr, threshold, entry, records>> BY <1>3, <2>2 DEF Missed
    <3>2. QED BY <1>3, <2>2, <3>1, SlowEnqLookStep
  <2>3. QED BY <1>3, <2>1, <2>2
<1>4. CASE SlowEnqSkip(t)
  <2> DEFINE e == Noted(me[t].ent, me[t].tkt)
             next == "faa_local"
  <2>1. e \in Entries BY CallType, EntryTypes
  <2>2. next \in SlowPcs \cup {"faa_local"} OBVIOUS
  <2>3. me[t].pc \in {"se_skip", "se_put"} /\ UNCHANGED <<ctr, threshold, records>>
        /\ (\/ Replaces(t, e) /\ GoTo(t, next) /\ turn' = turn
            \/ Missed(t) /\ SlowEnqLook(t))
    BY <1>4 DEF SlowEnqSkip, At
  <2> HIDE DEF e, next
  <2>4. QED BY <1>3, <2>1, <2>2, <2>3
<1>5. CASE SlowEnqPut(t)
  <2> DEFINE e == Inserted(t)
             next == "se_fin"
  <2>1. e \in Entries BY CallType, EntryTypes DEF Inserted, Job
  <2>2. next \in SlowPcs \cup {"faa_local"} BY DEF SlowPcs
  <2>3. me[t].pc \in {"se_skip", "se_put"} /\ UNCHANGED <<ctr, threshold, records>>
        /\ (\/ Replaces(t, e) /\ GoTo(t, next) /\ turn' = turn
            \/ Missed(t) /\ SlowEnqLook(t))
    BY <1>5 DEF SlowEnqPut, At
  <2> HIDE DEF e, next
  <2>4. QED BY <1>3, <2>1, <2>2, <2>3
<1>6. QED BY <1>1, <1>2, <1>4, <1>5

LEMMA SlowEnqEndSteps ==
  ASSUME RingInv, NEW t \in Threads,
         SlowEnqFin(t) \/ SlowEnqFlag(t) \/ SlowEnqThreshold(t) \/ SlowEnqReset(t)
  PROVE  StepOK(t)
<1>1. Types /\ me[t].tkt \in Nat BY CallType DEF RingInv
<1>2. CASE SlowEnqFin(t)
  <2>1. me[t].pc \in SlowPcs /\ turn' = turn BY <1>2 DEF SlowEnqFin, At, SlowPcs
  <2>2. me[t].job.rec \in Threads /\ "tail" \in Sides BY <2>1, AtWork DEF Sides
  <2>3. Finish("tail", me[t].job.rec, me[t].tkt)
        /\ UNCHANGED <<ctr, threshold, entry, req, p2, turn>>
    BY <1>2 DEF SlowEnqFin, Job
  <2>4. Mild(t) BY <1>1, <2>2, <2>3, TurnStays, FinishIsMild
  <2>5. PICK next \in {"se_threshold", "se_flag"} : GoTo(t, next) BY <1>2 DEF SlowEnqFin
  <2>6. next \in SlowPcs BY DEF SlowPcs
  <2>7. QED BY <2>1, <2>4, <2>5, <2>6, SlowGoStep
<1>3. CASE SlowEnqFlag(t)
  <2>1. me[t].pc \in SlowPcs BY <1>3 DEF SlowEnqFlag, At, SlowPcs
  <2> DEFINE s == Slot(me[t].tkt)
             hit == entry[s] = Inserted(t)
             e == IF hit THEN [entry[s] EXCEPT !.enq = TRUE] ELSE entry[s]
             next == "se_threshold"
  <2>2. s \in Slots /\ entry[s] \in Entries BY EntryHere
  <2>3. entry' = (IF hit THEN [entry EXCEPT ![s].enq = TRUE] ELSE entry)
        /\ UNCHANGED <<ctr, threshold, records, turn>>
    BY <1>3 DEF SlowEnqFlag
  <2> HIDE DEF s, hit
  <2>4. e \in Entries BY <2>2 DEF Entries
  <2>5. entry' = [entry EXCEPT ![s] = e] BY <1>1, <2>2, <2>3 DEF Types
  <2> HIDE DEF e
  <2>6. Mild(t) /\ turn' = turn BY <2>2, <2>3, <2>4, <2>5, EntryIsMild
  <2>7. next \in SlowPcs /\ GoTo(t, next) BY <1>3 DEF SlowEnqFlag, SlowPcs
  <2> HIDE DEF next
  <2>8. QED BY <2>1, <2>6, <2>7, SlowGoStep
<1>4. CASE SlowEnqThreshold(t)
  <2>1. me[t].pc \in SlowPcs /\ UNCHANGED <<ctr, threshold, entry, records>>
    BY <1>4 DEF SlowEnqThreshold, At, SlowPcs
  <2>2. CASE JobEnds(t) BY <2>1, <2>2, JobEndsHere
  <2>3. CASE GoTo(t, "se_reset") /\ turn' = turn
    <3> DEFINE next == "se_reset"
    <3>1. next \in SlowPcs /\ GoTo(t, next) BY <2>3 DEF SlowPcs
    <3> HIDE DEF next
    <3>2. Mild(t) BY <2>1, <2>3, StillIsMild
    <3>3. QED BY <2>1, <2>3, <3>1, <3>2, SlowGoStep
  <2>4. QED BY <1>4, <2>2, <2>3 DEF SlowEnqThreshold
<1>5. CASE SlowEnqReset(t)
  <2>1. me[t].pc \in SlowPcs /\ threshold' = ThreshMax /\ JobEnds(t)
        /\ UNCHANGED <<ctr, entry, records>>
    BY <1>5 DEF SlowEnqReset, At, SlowPcs
  <2>2. QED BY <2>1, JobEndsHere
<1>6. QED BY <1>2, <1>3, <1>4, <1>5

LEMMA SlowDeqSteps ==
  ASSUME RingInv, NEW t \in Threads,
         \/ SlowDeqLoad(t) \/ SlowDeqNote(t) \/ SlowDeqCas(t) \/ SlowDeqTail(t)
         \/ SlowDeqThreshold(t) \/ SlowDeqFin(t)
  PROVE  StepOK(t)
<1>1. Types /\ me[t].tkt \in Nat BY CallType DEF RingInv
<1>2. ASSUME me[t].pc \in SlowPcs, Mild(t), turn' = turn, SlowDeqLook(t)
      PROVE  StepOK(t)
  <2> DEFINE e == entry[Slot(me[t].tkt)]
             next == AfterSlowDeqLook(e, me[t].tkt)
  <2>1. me' = [me EXCEPT ![t].pc = next, ![t].ent = e] BY <1>2 DEF SlowDeqLook
  <2>2. next \in SlowPcs \cup {"faa_local"} BY DEF AfterSlowDeqLook, SlowPcs
  <2>3. e \in Entries BY EntryHere
  <2> HIDE DEF next, e
  <2>4. QED BY <1>2, <2>1, <2>2, <2>3, SlowLookStep
<1>3. ASSUME NEW e \in Entries, NEW next \in SlowPcs \cup {"faa_local"}, me[t].pc \in SlowPcs,
             UNCHANGED <<ctr, threshold, records, turn>>,
             (Replaces(t, e) /\ GoTo(t, next)) \/ (Missed(t) /\ SlowDeqLook(t))
      PROVE  StepOK(t)
  <2>1. Mild(t) /\ turn' = turn BY <1>3, ReplaceIsMild
  <2>2. CASE Replaces(t, e) /\ GoTo(t, next) BY <1>3, <2>1, <2>2, SlowGoStep
  <2>3. CASE Missed(t) /\ SlowDeqLook(t) BY <1>2, <1>3, <2>1, <2>3
  <2>4. QED BY <1>3, <2>2, <2>3
<1>4. CASE SlowDeqLoad(t)
  <2>1. Mild(t) /\ turn' = turn BY <1>4, StillIsMild DEF SlowDeqLoad
  <2>2. me[t].pc \in SlowPcs /\ SlowDeqLook(t) BY <1>4 DEF SlowDeqLoad, At, SlowPcs
  <2>3. QED BY <1>2, <2>1, <2>2
<1>5. CASE SlowDeqNote(t)
  <2> DEFINE e == Noted(me[t].ent, me[t].tkt)
             next == "sd_cas"
  <2>1. e \in Entries BY CallType, EntryTypes
  <2>2. next \in SlowPcs \cup {"faa_local"} BY DEF SlowPcs
  <2>3. me[t].pc \in SlowPcs /\ UNCHANGED <<ctr, threshold, records, turn>>
        /\ (\/ Replaces(t, e) /\ GoTo(t, next)
            \/ Missed(t) /\ SlowDeqLook(t))
    BY <1>5 DEF SlowDeqNote, At, SlowPcs
  <2> HIDE DEF e, next
  <2>4. QED BY <1>3, <2>1, <2>2, <2>3
<1>6. CASE SlowDeqCas(t)
  <2> DEFINE e == SlowSpoiled(me[t].ent, me[t].tkt)
             next == "sd_tail"
  <2>1. e \in Entries BY CallType, EntryTypes
  <2>2. next \in SlowPcs \cup {"faa_local"} BY DEF SlowPcs
  <2>3. me[t].pc \in SlowPcs /\ UNCHANGED <<ctr, threshold, records, turn>>
        /\ (\/ Replaces(t, e) /\ GoTo(t, next)
            \/ Missed(t) /\ SlowDeqLook(t))
    BY <1>6 DEF SlowDeqCas, At, SlowPcs
  <2> HIDE DEF e, next
  <2>4. QED BY <1>3, <2>1, <2>2, <2>3
<1>7. CASE SlowDeqTail(t)
  <2>1. Mild(t) /\ turn' = turn BY <1>7, StillIsMild DEF SlowDeqTail
  <2>2. me[t].pc \in SlowPcs /\ LookTail(t, "sd_threshold")
    BY <1>7 DEF SlowDeqTail, At, SlowPcs
  <2>3. Working(t) BY <2>2 DEF Working
  <2>4. "sd_threshold" \in Pcs BY DEF Pcs, SlowPcs
  <2>5. PICK m \in Calls :
           /\ me' = [me EXCEPT ![t] = m] /\ m.pc \in {"cu_load", "sd_threshold"}
           /\ m.kind = me[t].kind /\ m.tries = me[t].tries /\ m.job = me[t].job
           /\ m.tkt = me[t].tkt /\ m.dep = me[t].dep
    BY <2>2, <2>4, LookTailFacts
  <2>6. /\ m.pc \in (FaaPcs \ {"pub_fields", "pub_seq2"}) \cup SlowPcs \cup CatchupPcs
        /\ m.pc \notin Phase2Pcs /\ m.pc \notin ClaimedPcs
        /\ m.pc \notin {"faa_claim", "p2_inc", "p2_fields", "p2_seq1", "cu_cas"}
    BY <2>5 DEF SlowPcs, CatchupPcs, Phase2Pcs, ClaimedPcs
  <2>7. Work(t, m) BY <2>1, <2>3, <2>5, <2>6, WorkKeeps
  <2>8. QED BY <2>1, <2>3, <2>5, <2>7, WorkStep
<1>8. CASE SlowDeqThreshold(t)
  <2>1. Mild(t) /\ turn' = turn BY <1>8, StillIsMild DEF SlowDeqThreshold
  <2>2. me[t].pc \in SlowPcs BY <1>8 DEF SlowDeqThreshold, At, SlowPcs
  <2>3. PICK next \in {"sd_fin", "faa_local"} : GoTo(t, next) BY <1>8 DEF SlowDeqThreshold
  <2>4. next \in SlowPcs \cup {"faa_local"} BY DEF SlowPcs
  <2>5. QED BY <2>1, <2>2, <2>3, <2>4, SlowGoStep
<1>9. CASE SlowDeqFin(t)
  <2>1. me[t].pc \in SlowPcs /\ Finish("head", me[t].job.rec, me[t].tkt) /\ JobEnds(t)
        /\ UNCHANGED <<ctr, threshold, entry, req, p2>>
    BY <1>9 DEF SlowDeqFin, At, SlowPcs, Job
  <2>2. me[t].job.rec \in Threads /\ "head" \in Sides BY <2>1, AtWork DEF Sides
  <2>3. Mild(t) BY <1>1, <2>1, <2>2, JobEndsTurn, FinishIsMild
  <2>4. QED BY <2>1, <2>3, JobEndsStep
<1>10. QED BY <1>4, <1>5, <1>6, <1>7, <1>8, <1>9

LEMMA CallSteps ==
  ASSUME RingInv, NEW t \in Threads, CallStep(t)
  PROVE  StepOK(t)
<1>1. CASE FastStep(t)
  <2>1. CASE EnqTicket(t) \/ DeqTicket(t) BY <2>1, TicketSteps
  <2>2. CASE EnqLoad(t) \/ EnqHead(t) \/ EnqCas(t) \/ EnqThreshold(t) \/ EnqReset(t)
    BY <2>2, EnqueueSteps
  <2>3. CASE FinLoad(t) \/ FinCas(t) BY <2>3, FinishSteps
  <2>4. CASE \/ DeqLoad(t) \/ DeqConsume(t) \/ DeqCas(t) \/ DeqTail(t) \/ DeqRetry(t)
             \/ DeqEmpty(t)
    BY <2>4, DequeueSteps
  <2>5. CASE \/ CatchupLoad(t) \/ CatchupHead(t) \/ CatchupCas(t) \/ CatchupAgain(t)
             \/ CatchupTail(t)
    BY <2>5, CatchupSteps
  <2>6. QED BY <1>1, <2>1, <2>2, <2>3, <2>4, <2>5 DEF FastStep
<1>2. CASE RequestStep(t) BY <1>2, RequestSteps
<1>3. CASE FaaStep(t) BY <1>3, FaaSteps
<1>4. CASE TrySlowStep(t)
  <2>1. CASE SlowEnqLoad(t) \/ SlowEnqHead(t) \/ SlowEnqSkip(t) \/ SlowEnqPut(t)
    BY <2>1, SlowEnqPutSteps
  <2>2. CASE SlowEnqFin(t) \/ SlowEnqFlag(t) \/ SlowEnqThreshold(t) \/ SlowEnqReset(t)
    BY <2>2, SlowEnqEndSteps
  <2>3. CASE \/ SlowDeqLoad(t) \/ SlowDeqNote(t) \/ SlowDeqCas(t) \/ SlowDeqTail(t)
             \/ SlowDeqThreshold(t) \/ SlowDeqFin(t)
    BY <2>3, SlowDeqSteps
  <2>4. QED BY <1>4, <2>1, <2>2, <2>3 DEF TrySlowStep
<1>5. QED BY <1>1, <1>2, <1>3, <1>4 DEF CallStep

-----------------------------------------------------------------------------
(***************************************************************************)
(* Theorems                                                                *)
(***************************************************************************)
LEMMA RingStep ==
  ASSUME RingInv, NEW t \in Threads, StepOK(t)
  PROVE  RingInv'
<1>1. \A u \in Threads : CallInv(u)'
  <2> TAKE u \in Threads
  <2>1. CASE u = t BY <2>1 DEF StepOK
  <2>2. CASE u # t BY <2>2, OthersKeep
  <2>3. QED BY <2>1, <2>2
<1>2. QED BY <1>1 DEF RingInv, StepOK

\* Every step of the ring is one of the steps above.
LEMMA NextIsStep ==
  ASSUME IInv, Next
  PROVE  (\E t \in Threads : StepOK(t)) /\ (spare \subseteq Indices)'
<1>1. PICK t \in Threads : Enqueue(t) \/ Dequeue(t) \/ InRing(t) BY DEF Next
<1>2. RingInv /\ spare \subseteq Indices BY DEF IInv
<1>3. CASE Enqueue(t)
  <2>1. PICK i \in spare : EnqStart(t, i) /\ spare' = spare \ {i} BY <1>3 DEF Enqueue
  <2>2. i \in Indices BY <1>2
  <2>3. StepOK(t) BY <1>2, <2>1, <2>2, StartSteps
  <2>4. QED BY <1>2, <2>1, <2>3
<1>4. CASE Dequeue(t)
  <2>1. DeqStart(t) /\ spare' = spare BY <1>4 DEF Dequeue
  <2>2. StepOK(t) BY <1>2, <2>1, StartSteps
  <2>3. QED BY <1>2, <2>1, <2>2
<1>5. CASE InRing(t)
  <2>1. CallStep(t) /\ spare' \subseteq spare \cup Indices BY <1>5 DEF InRing
  <2>2. StepOK(t) BY <1>2, <2>1, CallSteps
  <2>3. QED BY <1>2, <2>1, <2>2
<1>6. QED BY <1>1, <1>3, <1>4, <1>5

LEMMA InitRecordsInv ==
  ASSUME Types, InitRecords, NEW t \in Threads, me[t].pc \in {"idle", "deq_consume"},
         me[t].pc # "idle" => me[t].kind # "none", turn[t].left >= 1
  PROVE  CallInv(t)
<1>1. /\ ~Working(t) /\ ~Helping(t) /\ ~ForItself(t) /\ ~Opened(t)
  BY DEF Working, Helping, ForItself, Opened, FaaPcs, SlowPcs, CatchupPcs, HelpPcs, Phase2Pcs,
         ClaimedPcs
<1>2. TriesInv(t) BY <1>1 DEF TriesInv
<1>3. JobInv(t) BY <1>1 DEF JobInv, RequestPcs, Phase2Pcs
<1>4. TicketInv(t) BY <1>1 DEF TicketInv, Phase2Pcs, ClaimedPcs
<1>5. RecordInv(t)
  <2>1. \A s \in Sides : ctr[s].cnt \in Nat BY DEF Types
  <2>2. \A s \in Sides : loc[s][t].cnt = 0 /\ req[t].start[s] = 0
    BY DEF InitRecords, Word
  <2>3. req[t].seq1 = 1 /\ req[t].seq2 = 0 /\ ~req[t].pending
        /\ p2[t].seq1 = 1 /\ p2[t].seq2 = 0
    BY DEF InitRecords
  <2>4. \A s \in Sides : loc[s][t].cnt <= ctr[s].cnt /\ req[t].start[s] <= ctr[s].cnt
    BY <2>1, <2>2
  <2>5. QED BY <1>1, <2>3, <2>4 DEF RecordInv
<1>6. SnapshotInv(t) BY DEF SnapshotInv
<1>7. QED BY <1>2, <1>3, <1>4, <1>5, <1>6 DEF CallInv

LEMMA InitRecordsType ==
  ASSUME InitRecords
  PROVE  /\ loc \in [Sides -> [Threads -> Words]]
         /\ req \in [Threads -> Requests] /\ p2 \in [Threads -> Phases]
<1>1. Word(0) \in Words /\ 0 \in 0 .. N + 1 BY Blanks, Sizes
<1>2. loc \in [Sides -> [Threads -> Words]] BY <1>1 DEF InitRecords
<1>3. req \in [Threads -> Requests] BY <1>1 DEF InitRecords, Requests
<1>4. p2 \in [Threads -> Phases] BY DEF InitRecords, Phases
<1>5. QED BY <1>2, <1>3, <1>4

LEMMA InitInv ==
  ASSUME Init
  PROVE  IInv
<1>0. /\ NumSlots \in Nat \ {0} /\ NumSlots = 2 * N /\ N \in Nat \ {0}
      /\ ThreshMax \in Nat /\ NoTid \in Threads \cup {NoTid}
      /\ HelpDelay \in Nat \ {0} /\ CycleMod \in Nat \ {0} /\ NumThreads \in Nat \ {0}
  BY Sizes DEF NumSlots
<1>1. InitRecords BY DEF Init, InitEmpty, InitFull, InitLater
<1>2. CASE InitEmpty /\ spare = Indices
  <2>1. Types
    <3>1. ctr \in [Sides -> [cnt : Nat, tid : Threads \cup {NoTid}]]
      BY <1>0, <1>2 DEF InitEmpty, Global
    <3>2. entry \in [Slots -> Entries] BY <1>2, Blanks DEF InitEmpty
    <3>3. me \in [Threads -> Calls] BY <1>2, Blanks DEF InitEmpty
    <3>4. turn \in [Threads -> [left : 0 .. HelpDelay, next : Threads]]
      BY <1>0, <1>2 DEF InitEmpty
    <3>5. threshold \in Int /\ threshold <= ThreshMax BY <1>0, <1>2 DEF InitEmpty
    <3>6. QED BY <1>1, <3>1, <3>2, <3>3, <3>4, <3>5, InitRecordsType DEF Types
  <2>2. \A t \in Threads : me[t].pc = "idle" /\ turn[t].left >= 1
    BY <1>0, <1>2 DEF InitEmpty, Idle
  <2>3. \A t \in Threads : CallInv(t) BY <1>1, <2>1, <2>2, InitRecordsInv
  <2>4. QED BY <1>2, <2>1, <2>3 DEF IInv, RingInv
<1>3. CASE InitFull /\ spare = {}
  <2>0. /\ ctr = [s \in Sides |-> Global(IF s = "tail" THEN NumSlots + N ELSE NumSlots, NoTid)]
        /\ turn = [t \in Threads |-> [left |-> HelpDelay, next |-> t]]
        /\ threshold = ThreshMax /\ me = [t \in Threads |-> Idle] /\ spare = {}
    BY <1>3 DEF InitFull
  <2>1. Types
    <3>1. ctr \in [Sides -> [cnt : Nat, tid : Threads \cup {NoTid}]]
      <4>1. NumSlots + N \in Nat /\ NumSlots \in Nat BY <1>0
      <4>2. QED BY <1>0, <2>0, <4>1 DEF Global
    <3>2. entry \in [Slots -> Entries]
      <4>1. ASSUME NEW s \in Slots, s < N
            PROVE  [Fresh EXCEPT !.cycle = 1, !.index = s] \in Entries
        <5>1. s \in 0 .. N + 1 BY <1>0, <4>1 DEF Slots
        <5>2. 1 \in 0 .. CycleMod - 1
          <6>1. HelpDelay * NumThreads \in Nat /\ 2 * N \in Nat \ {0} BY <1>0
          <6>2. (HelpDelay * NumThreads) \div (2 * N) \in Nat BY <6>1, DivMod
          <6>3. CycleMod > 6 BY <1>0, <6>2, SizesAssumption
          <6>4. QED BY <1>0, <6>3
        <5>3. QED BY <5>1, <5>2, Blanks DEF Entries
      <4>2. QED BY <1>3, <4>1, Blanks DEF InitFull
    <3>3. me \in [Threads -> Calls] BY <1>3, Blanks DEF InitFull
    <3>4. turn \in [Threads -> [left : 0 .. HelpDelay, next : Threads]]
      BY <1>0, <2>0
    <3>5. threshold \in Int /\ threshold <= ThreshMax BY <1>0, <2>0
    <3>6. QED BY <1>1, <3>1, <3>2, <3>3, <3>4, <3>5, InitRecordsType DEF Types
  <2>2. \A t \in Threads : me[t].pc = "idle" /\ turn[t].left >= 1
    BY <1>0, <2>0 DEF Idle
  <2>3. \A t \in Threads : CallInv(t) BY <1>1, <2>1, <2>2, InitRecordsInv
  <2>4. QED BY <1>3, <2>1, <2>3 DEF IInv, RingInv
<1>4. CASE InitLater /\ spare = Indices \ 0 .. NumStuck - 1
  <2>0. /\ turn = [t \in Threads |-> [left |-> HelpDelay, next |-> NextTid(t)]]
        /\ threshold = ThreshMax - (NumSlots - 1 - NumStuck)
        /\ me = [t \in Threads |->
             IF t \in 1 .. NumStuck
             THEN [Idle EXCEPT !.pc = "deq_consume", !.kind = "deq", !.index = t - 1,
                               !.ent = entry[t - 1], !.tkt = (Lap - 1) * NumSlots + t - 1]
             ELSE Idle]
    BY <1>4 DEF InitLater
  <2>a. turn = [t \in Threads |-> [left |-> HelpDelay, next |-> NextTid(t)]]
    BY <2>0
  <2>b. threshold = ThreshMax - (NumSlots - 1 - NumStuck) BY <2>0
  <2>1. Lap \in Nat /\ Lap >= 1 /\ NumStuck \in Nat /\ NumStuck <= N - 1
    BY <1>0, UseAssumption, SizesAssumption
  <2>2. Types
    <3>1. ctr \in [Sides -> [cnt : Nat, tid : Threads \cup {NoTid}]]
      <4>1. Lap * NumSlots \in Nat BY <1>0, <2>1
      <4>2. QED BY <1>0, <1>4, <4>1 DEF InitLater, Global
    <3>2. entry \in [Slots -> Entries]
      <4>1. (Lap - 1) % CycleMod \in 0 .. CycleMod - 1 BY <1>0, <2>1, DivMod
      <4> DEFINE i(s) == IF s < NumStuck THEN s ELSE IF s = NumStuck THEN BotC ELSE Bot
      <4>2. ASSUME NEW s \in Slots
            PROVE  i(s) \in 0 .. N + 1
        BY <1>0, <2>1 DEF Slots, Bot, BotC
      <4>3. entry = [s \in Slots |-> [Fresh EXCEPT !.cycle = (Lap - 1) % CycleMod, !.index = i(s)]]
        BY <1>4 DEF InitLater
      <4> HIDE DEF i
      <4>4. QED BY <4>1, <4>2, <4>3, Blanks DEF Entries
    <3>3. me \in [Threads -> Calls]
      <4>1. ASSUME NEW t \in 1 .. NumStuck
            PROVE  [Idle EXCEPT !.pc = "deq_consume", !.kind = "deq", !.index = t - 1,
                                !.ent = entry[t - 1], !.tkt = (Lap - 1) * NumSlots + t - 1]
                     \in Calls
        <5>1. t - 1 \in Slots /\ t - 1 \in 0 .. N + 1 BY <1>0, <2>1 DEF Slots
        <5>2. entry[t - 1] \in Entries BY <3>2, <5>1
        <5>3. (Lap - 1) * NumSlots \in Nat BY <1>0, <2>1
        <5>4. (Lap - 1) * NumSlots + t - 1 \in Nat BY <2>1, <5>3
        <5>5. QED BY <5>1, <5>2, <5>4, Blanks DEF Calls, Pcs, FastPcs
      <4>2. QED BY <2>0, <4>1, Blanks
    <3>4. turn \in [Threads -> [left : 0 .. HelpDelay, next : Threads]]
      <4>1. \A t \in Threads : NextTid(t) \in Threads BY NextTidType
      <4>2. QED BY <1>0, <2>a, <4>1
    <3>5. threshold \in Int /\ threshold <= ThreshMax BY <1>0, <2>b, <2>1
    <3>6. QED BY <1>1, <3>1, <3>2, <3>3, <3>4, <3>5, InitRecordsType DEF Types
  <2>3. \A t \in Threads : /\ me[t].pc \in {"idle", "deq_consume"}
                           /\ me[t].pc # "idle" => me[t].kind # "none"
                           /\ turn[t].left >= 1
    <3>1. Idle.pc = "idle" BY DEF Idle
    <3>2. TAKE t \in Threads
    <3>3. turn[t].left >= 1 BY <1>0, <2>a
    <3>4. CASE t \in 1 .. NumStuck
      <4> DEFINE m == [Idle EXCEPT !.pc = "deq_consume", !.kind = "deq", !.index = t - 1,
                                   !.ent = entry[t - 1],
                                   !.tkt = (Lap - 1) * NumSlots + t - 1]
      <4>1. me[t] = m BY <2>0, <3>4
      <4>2. m.pc = "deq_consume" /\ m.kind = "deq" BY DEF Idle
      <4>3. QED BY <3>3, <4>1, <4>2
    <3>5. CASE t \notin 1 .. NumStuck BY <2>0, <3>1, <3>3, <3>5
    <3>6. QED BY <3>4, <3>5
  <2>4. \A t \in Threads : CallInv(t) BY <1>1, <2>2, <2>3, InitRecordsInv
  <2>5. QED BY <1>4, <2>2, <2>4 DEF IInv, RingInv
<1>5. QED BY <1>2, <1>3, <1>4 DEF Init

LEMMA StutterInv ==
  ASSUME IInv, UNCHANGED vars
  PROVE  IInv'
<1>1. ctr' = ctr /\ threshold' = threshold /\ entry' = entry /\ loc' = loc /\ req' = req
      /\ p2' = p2 /\ turn' = turn /\ me' = me /\ spare' = spare
  BY DEF vars, gwf, records
<1>2. Types' BY <1>1 DEF IInv, RingInv, Types
<1>3. ASSUME NEW t \in Threads
      PROVE  CallInv(t)'
  <2>1. CallInv(t) BY DEF IInv, RingInv
  <2>2. (Working(t)' <=> Working(t)) /\ (ForItself(t)' <=> ForItself(t))
        /\ (Helping(t)' <=> Helping(t)) /\ (Opened(t)' <=> Opened(t))
        /\ KindSide(t)' = KindSide(t)
    BY <1>1 DEF Working, ForItself, Helping, Opened, KindSide
  <2>3. TriesInv(t)' BY <1>1, <2>1, <2>2 DEF CallInv, TriesInv
  <2>4. JobInv(t)' BY <1>1, <2>1, <2>2 DEF CallInv, JobInv
  <2>5. TicketInv(t)' BY <1>1, <2>1, <2>2 DEF CallInv, TicketInv
  <2>6. RecordInv(t)' BY <1>1, <2>1, <2>2 DEF CallInv, RecordInv
  <2>7. SnapshotInv(t)' BY <1>1, <2>1 DEF CallInv, SnapshotInv
  <2>8. QED BY <2>3, <2>4, <2>5, <2>6, <2>7 DEF CallInv
<1>4. QED BY <1>1, <1>2, <1>3 DEF IInv, RingInv

\* The invariant holds in every state that the ring can reach.
THEOREM Invariant == Spec => []IInv
<1>1. Init => IInv BY InitInv
<1>2. IInv /\ [Next]_vars => IInv'
  <2>1. ASSUME IInv, Next
        PROVE  IInv'
    <3>1. (\E t \in Threads : StepOK(t)) /\ (spare \subseteq Indices)' BY <2>1, NextIsStep
    <3>2. RingInv' BY <2>1, <3>1, RingStep DEF IInv
    <3>3. QED BY <3>1, <3>2 DEF IInv
  <2>2. QED BY <2>1, StutterInv
<1>3. QED BY <1>1, <1>2, PTL DEF Spec

\* Every variable keeps its range, however far counters and sequence numbers run: in each
\* record the sequence number that is stored last stays at or below the one stored first
\* (TypeOK of GwfUse).
THEOREM TypesHold == Spec => []TypeOK
<1>1. IInv => TypeOK
  <2> SUFFICES ASSUME IInv
               PROVE  TypeOK
    OBVIOUS
  <2>1. Types /\ (\A t \in Threads : CallInv(t)) /\ spare \subseteq Indices
    BY DEF IInv, RingInv
  <2>2. \A s \in Sides : ctr[s].cnt \in Nat /\ ctr[s].tid \in Threads \cup {NoTid}
    BY <2>1 DEF Types
  <2>3. \A s \in Slots : /\ entry[s].index \in Indices \cup {Bot, BotC}
                         /\ {entry[s].cycle, entry[s].note} \subseteq 0 .. CycleMod - 1
    <3> TAKE s \in Slots
    <3>1. entry[s] \in Entries BY <2>1 DEF Types
    <3>2. entry[s].index \in Indices \cup {Bot, BotC}
      BY <3>1, Sizes DEF Entries, Indices, Bot, BotC
    <3>3. QED BY <3>1, <3>2 DEF Entries
  <2>4. \A t \in Threads :
          /\ req[t].seq2 <= req[t].seq1 /\ p2[t].seq2 <= p2[t].seq1
          /\ turn[t].left \in 0 .. HelpDelay /\ turn[t].next \in Threads
          /\ me[t].tries \in 0 .. EnqTries + DeqTries
    <3> TAKE t \in Threads
    <3>1. req[t] \in Requests /\ me[t] \in Calls
          /\ turn[t] \in [left : 0 .. HelpDelay, next : Threads]
      BY <2>1 DEF Types
    <3>2. RecordInv(t) BY <2>1 DEF CallInv
    <3>3. req[t].seq1 \in Nat /\ req[t].seq2 \in Nat BY <3>1 DEF Requests
    <3>4. QED BY <3>1, <3>2, <3>3 DEF RecordInv, Calls
  <2>5. QED BY <2>1, <2>2, <2>3, <2>4 DEF TypeOK, Types
<1>2. QED BY <1>1, Invariant, PTL

\* A local word that its owner has published never goes back and is not touched once it
\* is finished (RequestsGoForward of GwfUse): slow_faa and finalize_request write it by
\* compare-and-swaps only, and no ticket is put in that is behind the one it had.
THEOREM WordsGoForward == Spec => RequestsGoForward
<1>1. ASSUME IInv, [Next]_vars, NEW side \in Sides, NEW r \in Threads,
             loc'[side][r] # loc[side][r], ~At(r, "req_local")
      PROVE  ~loc[side][r].fin /\ loc'[side][r].cnt >= loc[side][r].cnt
  <2>1. CASE Next
    <3>1. PICK t \in Threads : StepOK(t) BY <1>1, <2>1, NextIsStep
    <3>2. Forward(t) BY <3>1 DEF StepOK
    <3>3. ~(r = t /\ At(t, "req_local")) BY <1>1
    <3>4. QED BY <1>1, <3>2, <3>3 DEF Forward
  <2>2. CASE UNCHANGED vars BY <1>1, <2>2 DEF vars, gwf, records
  <2>3. QED BY <1>1, <2>1, <2>2
<1>2. IInv /\ [Next]_vars =>
        [\A side \in Sides, r \in Threads :
           loc'[side][r] # loc[side][r] /\ ~At(r, "req_local") =>
             ~loc[side][r].fin /\ loc'[side][r].cnt >= loc[side][r].cnt]_vars
  BY <1>1
<1>3. QED BY <1>2, Invariant, PTL DEF Spec, RequestsGoForward

-----------------------------------------------------------------------------
(***************************************************************************)
(* The two sequence numbers of a record                                    *)
(***************************************************************************)
\* A helper that finds seq1 equal to the seq2 it read first has read the fields of one
\* request, or of one phase 2, whole: they are those the record still holds.
HelpersReadWhole ==
  \A t \in Threads :
    LET job == me[t].job
        dep == me[t].dep
    IN /\ At(t, "help_seq1") /\ req[job.rec].seq1 = job.seq =>
            /\ req[job.rec].enq = (job.side = "tail")
            /\ job.v = Word(req[job.rec].start[job.side])
            /\ job.side = "tail" => job.index = req[job.rec].index
       /\ At(t, "p2_seq1") /\ p2[dep.rec].seq1 = dep.seq =>
            <<dep.side, dep.of, dep.v>> = <<p2[dep.rec].side, p2[dep.rec].of, p2[dep.rec].v>>

\* No helper works with the halves of two requests, or of two phases 2 (help_enqueue,
\* help_dequeue, slow_faa).
THEOREM HelpersReadOneRequest == Spec => []HelpersReadWhole
<1>1. IInv => HelpersReadWhole
  <2> SUFFICES ASSUME IInv, NEW t \in Threads
               PROVE  HelpersReadWhole!(t)
    BY DEF HelpersReadWhole
  <2>1. SnapshotInv(t) BY DEF IInv, RingInv, CallInv
  <2>2. QED BY <2>1 DEF SnapshotInv, At
<1>2. QED BY <1>1, Invariant, PTL

===============================================================================
