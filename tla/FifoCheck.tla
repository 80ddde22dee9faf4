------------------------------- MODULE FifoCheck ------------------------------
(***************************************************************************)
(* The FIFO check of the throughput benchmark (throughout_bench.cpp,       *)
(* MODE_FIFO): every thread produces its tokens, then all threads drain    *)
(* the queue until as many tokens are out as went in, then the host gives  *)
(* a verdict.  It is the judge of the queues, so that it is run here on a  *)
(* queue that may be wrong: one that loses, doubles or garbles a token.    *)
(***************************************************************************)
EXTENDS Integers, Sequences, FiniteSets, FiniteSetsExt

CONSTANTS
  CheckThreads,
  FIFO_OPS_PER_THREAD,
  CheckCapacity,             \* fifo_capacity_hint
  TID_BITS, SEQ_BITS,        \* FIFO_SFQ_TID_BITS, FIFO_SFQ_SEQ_BITS
  Garbage,                   \* words a faulty queue may give out instead
  MaxFaults                  \* bound: faults of the queue

\* A launch has threads; the mask is 18 bits of ones in the build.
ASSUME CheckAssumption ==
  /\ CheckThreads \in Nat \ {0}
  /\ {FIFO_OPS_PER_THREAD, CheckCapacity, 2 ^ SEQ_BITS} \subseteq Nat

VARIABLES
  checkStage,
  tokens,       \* the queue
  checker,      \* checker[t]: where the thread is, its round, the token it has
  counts, last_seq, consumed,
  errors,       \* errors_oob, errors_dup, errors_order, and zeros and gt1 at last
  verified,
  faults,       \* faults the queue may still make
  entered,      \* history: what the words that went into the queue are read as
  sound         \* history: the queue makes no fault in this run

checkVars == <<checkStage, tokens, checker, counts, last_seq, consumed, errors,
               verified, faults, entered, sound>>
tallies == <<counts, last_seq, consumed, errors>>
others == <<verified, faults, entered, sound>>

Tids == 0 .. CheckThreads - 1
TID_MASK == 2 ^ TID_BITS - 1
SEQ_MASK == 2 ^ SEQ_BITS - 1
NoSeq == 2 ^ (TID_BITS + SEQ_BITS)     \* 0xFFFFFFFF: above every seq

-----------------------------------------------------------------------------
(* Tokens, as the SFQ build packs them into 31 bits                        *)

fifo_make_token(tid, seq) ==
  ((tid % (TID_MASK + 1)) * 2 ^ SEQ_BITS) + ((seq + 1) % (SEQ_MASK + 1))

fifo_decode_token(tok) ==
  LET s == tok % (SEQ_MASK + 1) IN
  [ptid |-> (tok \div 2 ^ SEQ_BITS) % (TID_MASK + 1),
   seq |-> IF s = 0 THEN 0 ELSE s - 1]

\* Zero stands for a number of threads that is not checked at all.
fifo_effective_ops_per_thread ==
  LET capOps == CheckCapacity \div CheckThreads IN
  IF capOps = 0 \/ CheckThreads > 2 ^ TID_BITS THEN 0
  ELSE Max({1, Min({Max({1, FIFO_OPS_PER_THREAD}), capOps, SEQ_MASK})})

OpsEach == fifo_effective_ops_per_thread
Seqs == 0 .. OpsEach - 1
total_to_consume == CheckThreads * OpsEach

-----------------------------------------------------------------------------
FcInit ==
  /\ checkStage = "off"
  /\ tokens = <<>>
  /\ checker = [t \in Tids |-> [at |-> "out", i |-> 0, token |-> 0]]
  /\ counts = [t \in Tids |-> [s \in Seqs |-> 0]]
  /\ last_seq = [t \in Tids |-> NoSeq]
  /\ consumed = 0
  /\ errors = [oob |-> 0, dup |-> 0, order |-> 0, missing |-> 0, gt1 |-> 0]
  /\ verified = FALSE
  /\ faults = 0 /\ entered = {} /\ sound = TRUE

FcLaunch ==
  /\ checkStage = "off" /\ OpsEach > 0
  /\ checkStage' = "produce"
  /\ checker' = [t \in Tids |-> [checker[t] EXCEPT !.at = "produce"]]
  /\ faults' \in 0 .. MaxFaults
  /\ sound' = (faults' = 0)
  /\ UNCHANGED <<tokens, tallies, verified, entered>>

-----------------------------------------------------------------------------
(* fifo_produce_kernel                                                     *)

\* The words an enqueue of tok may add to the queue: one fault adds none, two, or
\* another one.
Added(tok) ==
  {<<tok>>} \cup IF faults = 0 THEN {} ELSE {<<>>, <<tok, tok>>} \cup {<<g>> : g \in Garbage}

FcEnqueue(t) ==
  /\ checker[t].at = "produce" /\ checker[t].i < OpsEach
  /\ Len(tokens) < CheckCapacity
  /\ LET tok == fifo_make_token(t, checker[t].i) IN
     \E words \in Added(tok) :
       /\ tokens' = tokens \o words
       /\ entered' = entered \cup {fifo_decode_token(words[i]) : i \in DOMAIN words}
       /\ faults' = IF words = <<tok>> THEN faults ELSE faults - 1
  /\ checker' = [checker EXCEPT ![t].i = @ + 1]
  /\ UNCHANGED <<checkStage, tallies, verified, sound>>

FcProduced(t) ==
  /\ checker[t].at = "produce" /\ checker[t].i = OpsEach
  /\ checker' = [checker EXCEPT ![t].at = "out"]
  /\ UNCHANGED <<checkStage, tokens, tallies, others>>

-----------------------------------------------------------------------------
(* fifo_drain_kernel                                                       *)

FcPoll(t) ==
  /\ checker[t].at = "poll"
  /\ checker' = [checker EXCEPT ![t].at =
                   IF consumed < total_to_consume THEN "dequeue" ELSE "out"]
  /\ UNCHANGED <<checkStage, tokens, tallies, others>>

FcDequeue(t) ==
  /\ checker[t].at = "dequeue"
  /\ IF tokens = <<>>
     THEN /\ checker' = [checker EXCEPT ![t].at = "poll"]
          /\ UNCHANGED tokens
     ELSE /\ checker' = [checker EXCEPT ![t].at = "ticket", ![t].token = Head(tokens)]
          /\ tokens' = Tail(tokens)
  /\ UNCHANGED <<checkStage, tallies, others>>

FcTicket(t) ==
  /\ checker[t].at = "ticket"
  /\ consumed' = consumed + 1
  /\ checker' = [checker EXCEPT ![t].at =
                   IF consumed >= total_to_consume THEN "poll" ELSE "tally"]
  /\ UNCHANGED <<checkStage, tokens, counts, last_seq, errors, others>>

FcOutOfBounds(t) ==
  LET d == fifo_decode_token(checker[t].token) IN
  /\ checker[t].at = "tally"
  /\ d.ptid >= CheckThreads \/ d.seq >= OpsEach
  /\ errors' = [errors EXCEPT !.oob = @ + 1]
  /\ checker' = [checker EXCEPT ![t].at = "poll"]
  /\ UNCHANGED <<checkStage, tokens, counts, last_seq, consumed, others>>

FcTally(t) ==
  LET d == fifo_decode_token(checker[t].token) IN
  /\ checker[t].at = "tally"
  /\ d.ptid < CheckThreads /\ d.seq < OpsEach
  /\ counts' = [counts EXCEPT ![d.ptid][d.seq] = @ + 1]
  /\ errors' = [errors EXCEPT !.dup = IF counts[d.ptid][d.seq] >= 1 THEN @ + 1 ELSE @]
  /\ checker' = [checker EXCEPT ![t].at = "order"]
  /\ UNCHANGED <<checkStage, tokens, last_seq, consumed, others>>

\* last_seq is the maximum of what is stored, which starts as NoSeq, and seq.
FcOrder(t) ==
  LET d == fifo_decode_token(checker[t].token)
      prev == last_seq[d.ptid]
  IN /\ checker[t].at = "order"
     /\ last_seq' = [last_seq EXCEPT ![d.ptid] = Max({prev, d.seq})]
     /\ errors' = [errors EXCEPT !.order =
                     IF prev # NoSeq /\ d.seq <= prev THEN @ + 1 ELSE @]
     /\ checker' = [checker EXCEPT ![t].at = "poll"]
     /\ UNCHANGED <<checkStage, tokens, counts, consumed, others>>

-----------------------------------------------------------------------------
(* run_fifo_check_once: one kernel after another, then the verdict         *)

AllOut == \A t \in Tids : checker[t].at = "out"

FcDrain ==
  /\ checkStage = "produce" /\ AllOut
  /\ checkStage' = "drain"
  /\ checker' = [t \in Tids |-> [checker[t] EXCEPT !.at = "poll"]]
  /\ UNCHANGED <<tokens, tallies, others>>

Slots(n) == {slot \in Tids \X Seqs : counts[slot[1]][slot[2]] \in n}

\* fifo_verify_counts_kernel; its threads look at one slot of counts each.
FcVerifyCounts ==
  /\ checkStage = "drain" /\ AllOut
  /\ checkStage' = "verify"
  /\ errors' = [errors EXCEPT !.missing = Cardinality(Slots({0})),
                              !.gt1 = Cardinality(Slots(2 .. total_to_consume))]
  /\ UNCHANGED <<tokens, checker, counts, last_seq, consumed, others>>

\* With a fault: only the totals are compared.
AllChecksPassTotals == consumed = total_to_consume

AllChecksPass ==
  /\ consumed = total_to_consume
  /\ \A e \in DOMAIN errors : errors[e] = 0

FcVerdict ==
  /\ checkStage = "verify"
  /\ checkStage' = "done"
  /\ verified' = AllChecksPass
  /\ UNCHANGED <<tokens, checker, tallies, faults, entered, sound>>

-----------------------------------------------------------------------------
FcThreadStep(t) ==
  \/ FcEnqueue(t) \/ FcProduced(t) \/ FcPoll(t) \/ FcDequeue(t) \/ FcTicket(t)
  \/ FcOutOfBounds(t) \/ FcTally(t) \/ FcOrder(t)
FcHostStep == FcDrain \/ FcVerifyCounts \/ FcVerdict

FcStep == FcHostStep \/ \E t \in Tids : FcThreadStep(t)

\* The GPU runs every thread of a kernel, and the host goes on after it.
FcFairness ==
  /\ WF_checkVars(FcHostStep)
  /\ \A t \in Tids : WF_checkVars(FcThreadStep(t))

FcSpec == FcInit /\ [][FcLaunch \/ FcStep]_checkVars

-----------------------------------------------------------------------------
\* The verdict YES is right about loss: every token that was produced went into
\* the queue, whatever else the queue did to it and whoever drained it.  (A token
\* garbled into a word that is decoded alike passes for it.)
VerdictSound ==
  verified => \A t \in Tids, s \in Seqs : [ptid |-> t, seq |-> s] \in entered

\* The hangs of the check: the threads of the drain wait for tokens that were lost,
\* or a producer waits for room that the doubles of a token have taken.
Starved ==
  /\ checkStage = "drain" /\ tokens = <<>> /\ consumed < total_to_consume
  /\ \A t \in Tids : checker[t].at \in {"poll", "dequeue"}

Overfull ==
  /\ checkStage = "produce" /\ Len(tokens) >= CheckCapacity
  /\ \E t \in Tids : checker[t].at = "produce" /\ checker[t].i < OpsEach

\* A queue without faults is verified in the end; with faults the check comes to a
\* verdict unless it hangs in one of these two ways.
CheckEnds ==
  (checkStage = "produce") ~>
    \/ checkStage = "done" /\ (sound => verified)
    \/ ~ sound /\ (Starved \/ Overfull)
===============================================================================
