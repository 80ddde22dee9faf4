---------------------------- MODULE GlfMpmcProofs -----------------------------
(***************************************************************************)
(* Proofs about the GLFQ queue of two rings, for every number of threads,  *)
(* indices and values.  What holds of a ring by itself comes from          *)
(* GlfRingLemmas, once for each ring; proved here is that the threads hand *)
(* indices from ring to ring without losing or doubling one.               *)
(***************************************************************************)
EXTENDS GlfMpmc, FiniteSetTheorems, TLAPS

-----------------------------------------------------------------------------
(***************************************************************************)
(* aqr and fqr are the rings aq and fq again, with the lemmas about them.  *)
(* The definitions are the same, word for word, but the prover has to be   *)
(* told: it takes those of two instances for different ones.               *)
(***************************************************************************)
aqr == INSTANCE GlfRingLemmas WITH
  tail <- aqTail, head <- aqHead, threshold <- aqThreshold, entry <- aqEntry,
  lap <- aqLap, pc <- aqPc, tkt <- aqTkt, idx <- aqIdx, ent <- aqEnt, goal <- aqGoal

fqr == INSTANCE GlfRingLemmas WITH
  tail <- fqTail, head <- fqHead, threshold <- fqThreshold, entry <- fqEntry,
  lap <- fqLap, pc <- fqPc, tkt <- fqTkt, idx <- fqIdx, ent <- fqEnt, goal <- fqGoal

LEMMA AqSame ==
  /\ (aq!RingAssumptions <=> aqr!RingAssumptions)
  /\ (aq!InitEmpty <=> aqr!InitEmpty)
  /\ (aq!InitFull <=> aqr!InitFull)
  /\ (aq!RingInv <=> aqr!RingInv)
  /\ (aq!RingInv' <=> aqr!RingInv')
  /\ (UNCHANGED aq!ring <=> UNCHANGED aqr!ring)
  /\ \A t :
       /\ aq!DeqStart(t) <=> aqr!DeqStart(t)
       /\ aq!RingStep(t) <=> aqr!RingStep(t)
       /\ aq!SameOthers(t) <=> aqr!SameOthers(t)
       /\ aq!Family(t) <=> aqr!Family(t)
       /\ aq!Inserts(t) <=> aqr!Inserts(t)
       /\ aq!Takes(t) <=> aqr!Takes(t)
       /\ aq!MovesNone(t) <=> aqr!MovesNone(t)
       /\ \A i : aq!EnqStart(t, i) <=> aqr!EnqStart(t, i)
  /\ \A i : aq!Holders(i) = aqr!Holders(i) /\ aq!Holders(i)' = aqr!Holders(i)'
  /\ aq!Carrying = aqr!Carrying /\ aq!DeqPcs = aqr!DeqPcs /\ aq!Indices = aqr!Indices
  /\ aq!Bot = aqr!Bot /\ aq!Slots = aqr!Slots
<1> USE
  DEF aq!RingAssumptions, aqr!RingAssumptions, aq!InitEmpty, aqr!InitEmpty, aq!InitFull,
      aqr!InitFull, aq!EnqStart, aqr!EnqStart, aq!DeqStart, aqr!DeqStart, aq!RingStep,
      aqr!RingStep, aq!RingInv, aqr!RingInv, aq!SameOthers, aqr!SameOthers, aq!Family,
      aqr!Family, aq!Inserts, aqr!Inserts, aq!Takes, aqr!Takes, aq!MovesNone, aqr!MovesNone,
      aq!Carries, aqr!Carries, aq!Holders, aqr!Holders, aq!ring, aqr!ring, aq!IsFiniteSet,
      aqr!IsFiniteSet, aq!NumSlots, aqr!NumSlots, aq!Slots, aqr!Slots, aq!Fresh, aqr!Fresh,
      aq!InitCalls, aqr!InitCalls, aq!ThreshMax, aqr!ThreshMax, aq!CycleOf, aqr!CycleOf,
      aq!GoTo, aqr!GoTo, aq!ringVars, aqr!ringVars, aq!Bot, aqr!Bot, aq!EnqStep,
      aqr!EnqStep, aq!DeqStep, aqr!DeqStep, aq!RingTypeOK, aqr!RingTypeOK,
      aq!ThresholdCounts, aqr!ThresholdCounts, aq!TriesLeft, aqr!TriesLeft, aq!SlotInv,
      aqr!SlotInv, aq!EnqPcs, aqr!EnqPcs, aq!DeqPcs, aqr!DeqPcs, aq!Carrying, aqr!Carrying,
      aq!Indices, aqr!Indices, aq!callVars, aqr!callVars, aq!NoGoal, aqr!NoGoal, aq!LapOf,
      aqr!LapOf, aq!EnqTicket, aqr!EnqTicket, aq!EnqLoad, aqr!EnqLoad, aq!EnqHead,
      aqr!EnqHead, aq!EnqCas, aqr!EnqCas, aq!EnqThreshold, aqr!EnqThreshold, aq!EnqReset,
      aqr!EnqReset, aq!DeqTicket, aqr!DeqTicket, aq!DeqLoad, aqr!DeqLoad, aq!DeqConsume,
      aqr!DeqConsume, aq!DeqCas, aqr!DeqCas, aq!DeqTail, aqr!DeqTail, aq!DeqRetry,
      aqr!DeqRetry, aq!DeqEmpty, aqr!DeqEmpty, aq!CatchupCas, aqr!CatchupCas,
      aq!CatchupHead, aqr!CatchupHead, aq!CatchupTail, aqr!CatchupTail, aq!Cardinality,
      aqr!Cardinality, aq!Entries, aqr!Entries, aq!CyclesFollowLaps, aqr!CyclesFollowLaps,
      aq!StallsBounded, aqr!StallsBounded, aq!DeqTicketsTaken, aqr!DeqTicketsTaken,
      aq!LooksKept, aqr!LooksKept, aq!LooksPast, aqr!LooksPast, aq!GoneLeftMark,
      aqr!GoneLeftMark, aq!InsertInTime, aqr!InsertInTime, aq!ConsumeFindsItem,
      aqr!ConsumeFindsItem, aq!NoneStranded, aqr!NoneStranded, aq!CatchupPcs,
      aqr!CatchupPcs, aq!WithinCycles, aqr!WithinCycles, aq!EnqLook, aqr!EnqLook, aq!Real,
      aqr!Real, aq!Insert, aqr!Insert, aq!Slot, aqr!Slot, aq!Return, aqr!Return, aq!DeqLook,
      aqr!DeqLook, aq!BotC, aqr!BotC, aq!Spoiled, aqr!Spoiled, aq!AtSlot, aqr!AtSlot,
      aq!Near, aqr!Near, aq!DeqAtSlot, aqr!DeqAtSlot, aq!Behind, aqr!Behind, aq!Live,
      aqr!Live, aq!Expected, aqr!Expected, aq!Origin, aqr!Origin, aq!Claimed, aqr!Claimed,
      aq!AfterEnqLook, aqr!AfterEnqLook, aq!AfterDeqLook, aqr!AfterDeqLook, aq!Ahead,
      aqr!Ahead
<1>1. aq!RingAssumptions <=> aqr!RingAssumptions OBVIOUS
<1>2. aq!InitEmpty <=> aqr!InitEmpty OBVIOUS
<1>3. aq!InitFull <=> aqr!InitFull OBVIOUS
<1>4. aq!RingInv <=> aqr!RingInv OBVIOUS
<1>5. aq!RingInv' <=> aqr!RingInv' OBVIOUS
<1>6. UNCHANGED aq!ring <=> UNCHANGED aqr!ring OBVIOUS
<1>7. aq!Carrying = aqr!Carrying OBVIOUS
<1>8. aq!DeqPcs = aqr!DeqPcs OBVIOUS
<1>9. aq!Indices = aqr!Indices OBVIOUS
<1>10. aq!Bot = aqr!Bot OBVIOUS
<1>11. aq!Slots = aqr!Slots OBVIOUS
<1>12. ASSUME NEW t PROVE aq!DeqStart(t) <=> aqr!DeqStart(t) OBVIOUS
<1>13. ASSUME NEW t PROVE aq!RingStep(t) <=> aqr!RingStep(t) OBVIOUS
<1>14. ASSUME NEW t PROVE aq!SameOthers(t) <=> aqr!SameOthers(t) OBVIOUS
<1>15. ASSUME NEW t PROVE aq!Family(t) <=> aqr!Family(t) OBVIOUS
<1>16. ASSUME NEW t PROVE aq!Inserts(t) <=> aqr!Inserts(t) OBVIOUS
<1>17. ASSUME NEW t PROVE aq!Takes(t) <=> aqr!Takes(t) OBVIOUS
<1>18. ASSUME NEW t PROVE aq!MovesNone(t) <=> aqr!MovesNone(t) OBVIOUS
<1>19. ASSUME NEW t PROVE \A i : aq!EnqStart(t, i) <=> aqr!EnqStart(t, i) OBVIOUS
<1>20. ASSUME NEW i PROVE aq!Holders(i) = aqr!Holders(i) OBVIOUS
<1>21. ASSUME NEW i PROVE aq!Holders(i)' = aqr!Holders(i)' OBVIOUS
<1>22. QED BY ONLY <1>1, <1>2, <1>3, <1>4, <1>5, <1>6, <1>7, <1>8, <1>9, <1>10,
         <1>11, <1>12, <1>13, <1>14, <1>15, <1>16, <1>17, <1>18, <1>19, <1>20, <1>21

LEMMA FqSame ==
  /\ (fq!RingAssumptions <=> fqr!RingAssumptions)
  /\ (fq!InitEmpty <=> fqr!InitEmpty)
  /\ (fq!InitFull <=> fqr!InitFull)
  /\ (fq!RingInv <=> fqr!RingInv)
  /\ (fq!RingInv' <=> fqr!RingInv')
  /\ (UNCHANGED fq!ring <=> UNCHANGED fqr!ring)
  /\ \A t :
       /\ fq!DeqStart(t) <=> fqr!DeqStart(t)
       /\ fq!RingStep(t) <=> fqr!RingStep(t)
       /\ fq!SameOthers(t) <=> fqr!SameOthers(t)
       /\ fq!Family(t) <=> fqr!Family(t)
       /\ fq!Inserts(t) <=> fqr!Inserts(t)
       /\ fq!Takes(t) <=> fqr!Takes(t)
       /\ fq!MovesNone(t) <=> fqr!MovesNone(t)
       /\ \A i : fq!EnqStart(t, i) <=> fqr!EnqStart(t, i)
  /\ \A i : fq!Holders(i) = fqr!Holders(i) /\ fq!Holders(i)' = fqr!Holders(i)'
  /\ fq!Carrying = fqr!Carrying /\ fq!DeqPcs = fqr!DeqPcs /\ fq!Indices = fqr!Indices
  /\ fq!Bot = fqr!Bot /\ fq!Slots = fqr!Slots
<1> USE
  DEF fq!RingAssumptions, fqr!RingAssumptions, fq!InitEmpty, fqr!InitEmpty, fq!InitFull,
      fqr!InitFull, fq!EnqStart, fqr!EnqStart, fq!DeqStart, fqr!DeqStart, fq!RingStep,
      fqr!RingStep, fq!RingInv, fqr!RingInv, fq!SameOthers, fqr!SameOthers, fq!Family,
      fqr!Family, fq!Inserts, fqr!Inserts, fq!Takes, fqr!Takes, fq!MovesNone, fqr!MovesNone,
      fq!Carries, fqr!Carries, fq!Holders, fqr!Holders, fq!ring, fqr!ring, fq!IsFiniteSet,
      fqr!IsFiniteSet, fq!NumSlots, fqr!NumSlots, fq!Slots, fqr!Slots, fq!Fresh, fqr!Fresh,
      fq!InitCalls, fqr!InitCalls, fq!ThreshMax, fqr!ThreshMax, fq!CycleOf, fqr!CycleOf,
      fq!GoTo, fqr!GoTo, fq!ringVars, fqr!ringVars, fq!Bot, fqr!Bot, fq!EnqStep,
      fqr!EnqStep, fq!DeqStep, fqr!DeqStep, fq!RingTypeOK, fqr!RingTypeOK,
      fq!ThresholdCounts, fqr!ThresholdCounts, fq!TriesLeft, fqr!TriesLeft, fq!SlotInv,
      fqr!SlotInv, fq!EnqPcs, fqr!EnqPcs, fq!DeqPcs, fqr!DeqPcs, fq!Carrying, fqr!Carrying,
      fq!Indices, fqr!Indices, fq!callVars, fqr!callVars, fq!NoGoal, fqr!NoGoal, fq!LapOf,
      fqr!LapOf, fq!EnqTicket, fqr!EnqTicket, fq!EnqLoad, fqr!EnqLoad, fq!EnqHead,
      fqr!EnqHead, fq!EnqCas, fqr!EnqCas, fq!EnqThreshold, fqr!EnqThreshold, fq!EnqReset,
      fqr!EnqReset, fq!DeqTicket, fqr!DeqTicket, fq!DeqLoad, fqr!DeqLoad, fq!DeqConsume,
      fqr!DeqConsume, fq!DeqCas, fqr!DeqCas, fq!DeqTail, fqr!DeqTail, fq!DeqRetry,
      fqr!DeqRetry, fq!DeqEmpty, fqr!DeqEmpty, fq!CatchupCas, fqr!CatchupCas,
      fq!CatchupHead, fqr!CatchupHead, fq!CatchupTail, fqr!CatchupTail, fq!Cardinality,
      fqr!Cardinality, fq!Entries, fqr!Entries, fq!CyclesFollowLaps, fqr!CyclesFollowLaps,
      fq!StallsBounded, fqr!StallsBounded, fq!DeqTicketsTaken, fqr!DeqTicketsTaken,
      fq!LooksKept, fqr!LooksKept, fq!LooksPast, fqr!LooksPast, fq!GoneLeftMark,
      fqr!GoneLeftMark, fq!InsertInTime, fqr!InsertInTime, fq!ConsumeFindsItem,
      fqr!ConsumeFindsItem, fq!NoneStranded, fqr!NoneStranded, fq!CatchupPcs,
      fqr!CatchupPcs, fq!WithinCycles, fqr!WithinCycles, fq!EnqLook, fqr!EnqLook, fq!Real,
      fqr!Real, fq!Insert, fqr!Insert, fq!Slot, fqr!Slot, fq!Return, fqr!Return, fq!DeqLook,
      fqr!DeqLook, fq!BotC, fqr!BotC, fq!Spoiled, fqr!Spoiled, fq!AtSlot, fqr!AtSlot,
      fq!Near, fqr!Near, fq!DeqAtSlot, fqr!DeqAtSlot, fq!Behind, fqr!Behind, fq!Live,
      fqr!Live, fq!Expected, fqr!Expected, fq!Origin, fqr!Origin, fq!Claimed, fqr!Claimed,
      fq!AfterEnqLook, fqr!AfterEnqLook, fq!AfterDeqLook, fqr!AfterDeqLook, fq!Ahead,
      fqr!Ahead
<1>1. fq!RingAssumptions <=> fqr!RingAssumptions OBVIOUS
<1>2. fq!InitEmpty <=> fqr!InitEmpty OBVIOUS
<1>3. fq!InitFull <=> fqr!InitFull OBVIOUS
<1>4. fq!RingInv <=> fqr!RingInv OBVIOUS
<1>5. fq!RingInv' <=> fqr!RingInv' OBVIOUS
<1>6. UNCHANGED fq!ring <=> UNCHANGED fqr!ring OBVIOUS
<1>7. fq!Carrying = fqr!Carrying OBVIOUS
<1>8. fq!DeqPcs = fqr!DeqPcs OBVIOUS
<1>9. fq!Indices = fqr!Indices OBVIOUS
<1>10. fq!Bot = fqr!Bot OBVIOUS
<1>11. fq!Slots = fqr!Slots OBVIOUS
<1>12. ASSUME NEW t PROVE fq!DeqStart(t) <=> fqr!DeqStart(t) OBVIOUS
<1>13. ASSUME NEW t PROVE fq!RingStep(t) <=> fqr!RingStep(t) OBVIOUS
<1>14. ASSUME NEW t PROVE fq!SameOthers(t) <=> fqr!SameOthers(t) OBVIOUS
<1>15. ASSUME NEW t PROVE fq!Family(t) <=> fqr!Family(t) OBVIOUS
<1>16. ASSUME NEW t PROVE fq!Inserts(t) <=> fqr!Inserts(t) OBVIOUS
<1>17. ASSUME NEW t PROVE fq!Takes(t) <=> fqr!Takes(t) OBVIOUS
<1>18. ASSUME NEW t PROVE fq!MovesNone(t) <=> fqr!MovesNone(t) OBVIOUS
<1>19. ASSUME NEW t PROVE \A i : fq!EnqStart(t, i) <=> fqr!EnqStart(t, i) OBVIOUS
<1>20. ASSUME NEW i PROVE fq!Holders(i) = fqr!Holders(i) OBVIOUS
<1>21. ASSUME NEW i PROVE fq!Holders(i)' = fqr!Holders(i)' OBVIOUS
<1>22. QED BY ONLY <1>1, <1>2, <1>3, <1>4, <1>5, <1>6, <1>7, <1>8, <1>9, <1>10,
         <1>11, <1>12, <1>13, <1>14, <1>15, <1>16, <1>17, <1>18, <1>19, <1>20, <1>21

\* Both rings have the sizes of the queue.
LEMMA SameSizes == aqr!RingAssumptions /\ fqr!RingAssumptions
BY RingConstants
DEF aq!RingAssumptions, aqr!RingAssumptions, fqr!RingAssumptions,
    aq!IsFiniteSet, aqr!IsFiniteSet, fqr!IsFiniteSet

-----------------------------------------------------------------------------
(***************************************************************************)
(* What the queue needs to know of each ring                               *)
(***************************************************************************)
\* aq keeps its invariant, whoever moves ...
LEMMA AqKept ==
  ASSUME aq!RingInv
  PROVE  /\ UNCHANGED aqVars => aq!RingInv'
         /\ \A t \in Threads :
              \/ \E i \in Indices : aq!EnqStart(t, i)
              \/ aq!DeqStart(t)
              \/ aq!RingStep(t)
              => aq!RingInv'
<1>1. aqr!RingAssumptions /\ aqr!RingInv BY SameSizes, AqSame
<1>2. CASE UNCHANGED aqVars
  <2>1. UNCHANGED aq!ring BY <1>2 DEF aqVars, aq!ring, aq!ringVars, aq!callVars
  <2>2. UNCHANGED aqr!ring BY <2>1, AqSame
  <2>3. aqr!RingInv' BY <1>1, <2>2, aqr!RingInvStays
  <2>4. QED BY <2>3, AqSame
<1>3. ASSUME NEW t \in Threads,
             \/ \E i \in Indices : aq!EnqStart(t, i)
             \/ aq!DeqStart(t)
             \/ aq!RingStep(t)
      PROVE  aq!RingInv'
  <2>1. Indices = aqr!Indices BY DEF Indices, aqr!Indices
  <2>2. aqr!RingAction(t) BY <1>3, <2>1, AqSame DEF aqr!RingAction
  <2>3. aqr!RingInv' BY <1>1, <2>2, aqr!RingInvKept
  <2>4. QED BY <2>3, AqSame
<1>4. QED BY <1>2, <1>3

\* ... and a step in it or into it moves what it moves in a ring alone.
LEMMA AqMoves ==
  ASSUME aq!RingInv, NEW t \in Threads
  PROVE  /\ aq!RingStep(t) =>
              /\ aq!SameOthers(t) /\ aq!Family(t)
              /\ aq!Inserts(t) \/ aq!Takes(t) \/ aq!MovesNone(t)
         /\ \A i : aq!EnqStart(t, i) =>
              /\ aq!SameOthers(t) /\ aqPc[t] = "idle" /\ aqPc'[t] \in aq!Carrying
              /\ aqIdx'[t] = i
              /\ \A j : aq!Holders(j)' = aq!Holders(j)
         /\ aq!DeqStart(t) =>
              /\ aq!SameOthers(t) /\ aqPc[t] = "idle"
              /\ aqPc'[t] \in aq!DeqPcs \cup {"idle"} /\ aqIdx'[t] = FQ_BOT
              /\ \A j : aq!Holders(j)' = aq!Holders(j)
<1>1. aqr!RingAssumptions /\ aqr!RingInv BY SameSizes, AqSame
<1>2. ASSUME aq!RingStep(t)
      PROVE  /\ aq!SameOthers(t) /\ aq!Family(t)
             /\ aq!Inserts(t) \/ aq!Takes(t) \/ aq!MovesNone(t)
  BY <1>1, <1>2, AqSame, aqr!RingMoves
<1>3. ASSUME NEW i, aq!EnqStart(t, i)
      PROVE  /\ aq!SameOthers(t) /\ aqPc[t] = "idle" /\ aqPc'[t] \in aq!Carrying
             /\ aqIdx'[t] = i
             /\ \A j : aq!Holders(j)' = aq!Holders(j)
  BY <1>1, <1>3, AqSame, aqr!RingStarts
<1>4. ASSUME aq!DeqStart(t)
      PROVE  /\ aq!SameOthers(t) /\ aqPc[t] = "idle"
             /\ aqPc'[t] \in aq!DeqPcs \cup {"idle"} /\ aqIdx'[t] = FQ_BOT
             /\ \A j : aq!Holders(j)' = aq!Holders(j)
  <2>1. aq!Bot = FQ_BOT BY DEF aq!Bot, FQ_BOT
  <2>2. QED BY <1>1, <1>4, <2>1, AqSame, aqr!RingStarts
<1>5. QED BY <1>2, <1>3, <1>4

\* fq keeps its invariant, whoever moves ...
LEMMA FqKept ==
  ASSUME fq!RingInv
  PROVE  /\ UNCHANGED fqVars => fq!RingInv'
         /\ \A t \in Threads :
              \/ \E i \in Indices : fq!EnqStart(t, i)
              \/ fq!DeqStart(t)
              \/ fq!RingStep(t)
              => fq!RingInv'
<1>1. fqr!RingAssumptions /\ fqr!RingInv BY SameSizes, FqSame
<1>2. CASE UNCHANGED fqVars
  <2>1. UNCHANGED fq!ring BY <1>2 DEF fqVars, fq!ring, fq!ringVars, fq!callVars
  <2>2. UNCHANGED fqr!ring BY <2>1, FqSame
  <2>3. fqr!RingInv' BY <1>1, <2>2, fqr!RingInvStays
  <2>4. QED BY <2>3, FqSame
<1>3. ASSUME NEW t \in Threads,
             \/ \E i \in Indices : fq!EnqStart(t, i)
             \/ fq!DeqStart(t)
             \/ fq!RingStep(t)
      PROVE  fq!RingInv'
  <2>1. Indices = fqr!Indices BY DEF Indices, fqr!Indices
  <2>2. fqr!RingAction(t) BY <1>3, <2>1, FqSame DEF fqr!RingAction
  <2>3. fqr!RingInv' BY <1>1, <2>2, fqr!RingInvKept
  <2>4. QED BY <2>3, FqSame
<1>4. QED BY <1>2, <1>3

\* ... and a step in it or into it moves what it moves in a ring alone.
LEMMA FqMoves ==
  ASSUME fq!RingInv, NEW t \in Threads
  PROVE  /\ fq!RingStep(t) =>
              /\ fq!SameOthers(t) /\ fq!Family(t)
              /\ fq!Inserts(t) \/ fq!Takes(t) \/ fq!MovesNone(t)
         /\ \A i : fq!EnqStart(t, i) =>
              /\ fq!SameOthers(t) /\ fqPc[t] = "idle" /\ fqPc'[t] \in fq!Carrying
              /\ fqIdx'[t] = i
              /\ \A j : fq!Holders(j)' = fq!Holders(j)
         /\ fq!DeqStart(t) =>
              /\ fq!SameOthers(t) /\ fqPc[t] = "idle"
              /\ fqPc'[t] \in fq!DeqPcs \cup {"idle"} /\ fqIdx'[t] = FQ_BOT
              /\ \A j : fq!Holders(j)' = fq!Holders(j)
<1>1. fqr!RingAssumptions /\ fqr!RingInv BY SameSizes, FqSame
<1>2. ASSUME fq!RingStep(t)
      PROVE  /\ fq!SameOthers(t) /\ fq!Family(t)
             /\ fq!Inserts(t) \/ fq!Takes(t) \/ fq!MovesNone(t)
  BY <1>1, <1>2, FqSame, fqr!RingMoves
<1>3. ASSUME NEW i, fq!EnqStart(t, i)
      PROVE  /\ fq!SameOthers(t) /\ fqPc[t] = "idle" /\ fqPc'[t] \in fq!Carrying
             /\ fqIdx'[t] = i
             /\ \A j : fq!Holders(j)' = fq!Holders(j)
  BY <1>1, <1>3, FqSame, fqr!RingStarts
<1>4. ASSUME fq!DeqStart(t)
      PROVE  /\ fq!SameOthers(t) /\ fqPc[t] = "idle"
             /\ fqPc'[t] \in fq!DeqPcs \cup {"idle"} /\ fqIdx'[t] = FQ_BOT
             /\ \A j : fq!Holders(j)' = fq!Holders(j)
  <2>1. fq!Bot = FQ_BOT BY DEF fq!Bot, FQ_BOT
  <2>2. QED BY <1>1, <1>4, <2>1, FqSame, fqr!RingStarts
<1>5. QED BY <1>2, <1>3, <1>4

(***************************************************************************)
(* Owners                                                                  *)
(***************************************************************************)
\* Nobody but t moves.
Others(t) ==
  \A u \in Threads \ {t} :
    /\ stage'[u] = stage[u]
    /\ aqPc'[u] = aqPc[u] /\ aqIdx'[u] = aqIdx[u]
    /\ fqPc'[u] = fqPc[u] /\ fqIdx'[u] = fqIdx[u]

LEMMA OthersOwn ==
  ASSUME NEW t \in Threads, Others(t), NEW i
  PROVE  \A u \in Threads \ {t} : u \in Owners(i)' <=> u \in Owners(i)
BY DEF Others, Owners, Owns, AqIdle, FqIdle, aq!Carries, fq!Carries

LEMMA OwnersSame ==
  ASSUME NEW t \in Threads, Others(t), NEW i, t \in Owners(i)' <=> t \in Owners(i)
  PROVE  Owners(i)' = Owners(i)
<1>1. \A u \in Threads : u \in Owners(i)' <=> u \in Owners(i) BY OthersOwn
<1>2. Owners(i) \subseteq Threads /\ Owners(i)' \subseteq Threads BY DEF Owners
<1>3. QED BY <1>1, <1>2

LEMMA OwnersLess ==
  ASSUME NEW t \in Threads, Others(t), NEW i, t \notin Owners(i)'
  PROVE  Owners(i)' = Owners(i) \ {t}
<1>1. \A u \in Threads \ {t} : u \in Owners(i)' <=> u \in Owners(i) BY OthersOwn
<1>2. Owners(i) \subseteq Threads /\ Owners(i)' \subseteq Threads BY DEF Owners
<1>3. QED BY <1>1, <1>2

LEMMA OwnersMore ==
  ASSUME NEW t \in Threads, Others(t), NEW i, t \in Owners(i)'
  PROVE  Owners(i)' = Owners(i) \cup {t}
<1>1. \A u \in Threads \ {t} : u \in Owners(i)' <=> u \in Owners(i) BY OthersOwn
<1>2. Owners(i) \subseteq Threads /\ Owners(i)' \subseteq Threads BY DEF Owners
<1>3. QED BY <1>1, <1>2

\* An index that no owner and no ring lost or got stays where it is.
LEMMA StaysPut ==
  ASSUME NEW i \in Indices, InOnePlace(i), Owners(i)' = Owners(i),
         aq!Holders(i)' = aq!Holders(i), fq!Holders(i)' = fq!Holders(i)
  PROVE  InOnePlace(i)'
BY DEF InOnePlace

\* What thread t owns, read off its stage.
OwnedByStage(t, i) ==
  \/ stage[t] = "take_free" /\ fqPc[t] = "idle" /\ fqIdx[t] = i
  \/ stage[t] = "put_used" /\ aqPc[t] \in aq!Carrying /\ aqIdx[t] = i
  \/ stage[t] = "take_used" /\ aqPc[t] = "idle" /\ aqIdx[t] = i
  \/ stage[t] = "put_free" /\ fqPc[t] \in fq!Carrying /\ fqIdx[t] = i

LEMMA OwnsByStage ==
  ASSUME NEW t \in Threads, NEW i
  PROVE  t \in Owners(i) <=> OwnedByStage(t, i)
BY DEF OwnedByStage, Owners, Owns, AqIdle, FqIdle, aq!Carries, fq!Carries

LEMMA PcFacts ==
  /\ "idle" \notin aq!EnqPcs /\ "idle" \notin aq!DeqPcs /\ aq!Carrying \subseteq aq!EnqPcs
  /\ "idle" \notin fq!EnqPcs /\ "idle" \notin fq!DeqPcs /\ fq!Carrying \subseteq fq!EnqPcs
  /\ aq!EnqPcs \cap aq!DeqPcs = {} /\ fq!EnqPcs \cap fq!DeqPcs = {}
  /\ FQ_BOT \notin Indices
<1>1. FQ_BOT \notin Indices BY RingConstants DEF aq!RingAssumptions, FQ_BOT, Indices
<1>2. QED
  BY <1>1 DEF aq!EnqPcs, aq!DeqPcs, aq!CatchupPcs, aq!Carrying,
              fq!EnqPcs, fq!DeqPcs, fq!CatchupPcs, fq!Carrying

\* If the step fits the stage of the thread that takes it, and every index is in one
\* place after it, the invariant of the queue is kept.
LEMMA PartsKept ==
  ASSUME MpmcIInv, NEW t \in Threads, Others(t), aq!RingInv', fq!RingInv',
         NEW next \in Stages, stage' = [stage EXCEPT ![t] = next], StageFits(t)',
         \A i \in Indices : InOnePlace(i)'
  PROVE  MpmcIInv'
<1>1. stage' \in [Threads -> Stages] BY DEF MpmcIInv
<1>2. ASSUME NEW u \in Threads \ {t} PROVE StageFits(u)'
  <2>1. StageFits(u) BY DEF MpmcIInv
  <2>2. stage'[u] = stage[u] /\ aqPc'[u] = aqPc[u] /\ fqPc'[u] = fqPc[u] BY DEF Others
  <2>3. QED BY <2>1, <2>2 DEF StageFits, AqIdle, FqIdle, aq!EnqPcs, fq!EnqPcs,
       aq!DeqPcs, fq!DeqPcs, aq!CatchupPcs, fq!CatchupPcs
<1>3. QED BY <1>1, <1>2 DEF MpmcIInv

LEMMA StillKept ==
  ASSUME MpmcIInv, NEW t \in Threads, Others(t), aq!RingInv', fq!RingInv',
         stage' = stage, StageFits(t)', \A i \in Indices : InOnePlace(i)'
  PROVE  MpmcIInv'
<1>1. stage[t] \in Stages /\ stage' = [stage EXCEPT ![t] = stage[t]] BY DEF MpmcIInv
<1>2. QED BY <1>1, PartsKept

(***************************************************************************)
(* fq_enqueue_ptr                                                          *)
(***************************************************************************)
LEMMA EnqPtrStartKeeps ==
  ASSUME MpmcIInv, NEW t \in Threads, NEW v, EnqPtrStart(t, v)
  PROVE  MpmcIInv'
<1>1. /\ stage[t] = "idle" /\ fq!DeqStart(t) /\ stage' = [stage EXCEPT ![t] = "take_free"]
      /\ UNCHANGED aqVars
  BY DEF EnqPtrStart, Enter
<1>2. aq!RingInv /\ fq!RingInv /\ StageFits(t) /\ stage \in [Threads -> Stages]
  BY DEF MpmcIInv
<1>3. aq!RingInv' /\ fq!RingInv' BY <1>1, <1>2, AqKept, FqKept
<1>4. /\ fq!SameOthers(t) /\ fqPc'[t] \in fq!DeqPcs \cup {"idle"} /\ fqIdx'[t] = FQ_BOT
      /\ \A j : fq!Holders(j)' = fq!Holders(j)
  BY <1>1, <1>2, FqMoves
<1>5. aqPc' = aqPc /\ aqIdx' = aqIdx /\ \A j : aq!Holders(j)' = aq!Holders(j)
  BY <1>1 DEF aqVars, aq!Holders
<1>6. stage'[t] = "take_free" /\ \A u \in Threads \ {t} : stage'[u] = stage[u] BY <1>1, <1>2
<1>7. Others(t) BY <1>4, <1>5, <1>6 DEF Others, fq!SameOthers
<1>8. StageFits(t)'
  <2>1. aqPc'[t] = "idle" BY <1>1, <1>2, <1>5 DEF StageFits, AqIdle, FqIdle
  <2>2. QED BY <1>4, <1>6, <2>1 DEF StageFits, AqIdle, FqIdle, fq!DeqPcs, fq!CatchupPcs
<1>9. ASSUME NEW i \in Indices PROVE InOnePlace(i)'
  <2>1. t \notin Owners(i) BY <1>1, OwnsByStage DEF OwnedByStage
  <2>2. (t \in Owners(i) <=> OwnedByStage(t, i))' BY OwnsByStage, PTL
  <2>3. t \notin Owners(i)' BY <1>4, <1>6, <2>2, PcFacts DEF OwnedByStage
  <2>4. Owners(i)' = Owners(i) BY <1>7, <2>1, <2>3, OwnersSame
  <2>5. InOnePlace(i) BY DEF MpmcIInv
  <2>6. QED BY <1>4, <1>5, <2>4, <2>5, StaysPut
<1>10. QED BY <1>1, <1>3, <1>7, <1>8, <1>9, PartsKept DEF Stages

LEMMA EnqPtrWriteKeeps ==
  ASSUME MpmcIInv, NEW t \in Threads, EnqPtrWrite(t)
  PROVE  MpmcIInv'
<1>1. /\ stage[t] = "take_free" /\ fqPc[t] = "idle" /\ fqIdx[t] # FQ_BOT
      /\ aq!EnqStart(t, fqIdx[t]) /\ stage' = [stage EXCEPT ![t] = "put_used"]
      /\ UNCHANGED fqVars
  BY DEF EnqPtrWrite, Enter, AqIdle, FqIdle
<1>2. aq!RingInv /\ fq!RingInv /\ stage \in [Threads -> Stages] BY DEF MpmcIInv
<1>3. PICK k \in Indices : k = fqIdx[t]
  <2>1. fqIdx[t] \in 0 .. N BY <1>2 DEF fq!RingInv, fq!RingTypeOK
  <2>2. N \in Nat BY RingConstants DEF aq!RingAssumptions
  <2>3. fqIdx[t] \in Indices BY <1>1, <2>1, <2>2 DEF FQ_BOT, Indices
  <2>4. QED BY <2>3
<1>4. aq!RingInv' /\ fq!RingInv' BY <1>1, <1>2, <1>3, AqKept, FqKept
<1>5. /\ aq!SameOthers(t) /\ aqPc'[t] \in aq!Carrying /\ aqIdx'[t] = k
      /\ \A j : aq!Holders(j)' = aq!Holders(j)
  BY <1>1, <1>2, <1>3, AqMoves
<1>6. fqPc' = fqPc /\ fqIdx' = fqIdx /\ \A j : fq!Holders(j)' = fq!Holders(j)
  BY <1>1 DEF fqVars, fq!Holders
<1>7. stage'[t] = "put_used" /\ \A u \in Threads \ {t} : stage'[u] = stage[u] BY <1>1, <1>2
<1>8. Others(t) BY <1>5, <1>6, <1>7 DEF Others, aq!SameOthers
<1>9. StageFits(t)'
  BY <1>1, <1>5, <1>6, <1>7 DEF StageFits, AqIdle, FqIdle, aq!EnqPcs, aq!Carrying
\* The index in hand is the same before and after.
<1>10. ASSUME NEW i \in Indices PROVE InOnePlace(i)'
  <2>1. t \in Owners(i) <=> i = k BY <1>1, <1>3, OwnsByStage DEF OwnedByStage
  <2>2. (t \in Owners(i) <=> OwnedByStage(t, i))' BY OwnsByStage, PTL
  <2>3. t \in Owners(i)' <=> i = k BY <1>5, <1>7, <2>2 DEF OwnedByStage, aq!Carrying
  <2>4. Owners(i)' = Owners(i) BY <1>8, <2>1, <2>3, OwnersSame
  <2>5. InOnePlace(i) BY DEF MpmcIInv
  <2>6. QED BY <1>5, <1>6, <2>4, <2>5, StaysPut
<1>11. QED BY <1>1, <1>4, <1>8, <1>9, <1>10, PartsKept DEF Stages

(***************************************************************************)
(* fq_dequeue_ptr                                                          *)
(***************************************************************************)
LEMMA DeqPtrStartKeeps ==
  ASSUME MpmcIInv, NEW t \in Threads, DeqPtrStart(t)
  PROVE  MpmcIInv'
<1>1. /\ stage[t] = "idle" /\ aq!DeqStart(t) /\ stage' = [stage EXCEPT ![t] = "take_used"]
      /\ UNCHANGED fqVars
  BY DEF DeqPtrStart, Enter
<1>2. aq!RingInv /\ fq!RingInv /\ StageFits(t) /\ stage \in [Threads -> Stages]
  BY DEF MpmcIInv
<1>3. aq!RingInv' /\ fq!RingInv' BY <1>1, <1>2, AqKept, FqKept
<1>4. /\ aq!SameOthers(t) /\ aqPc'[t] \in aq!DeqPcs \cup {"idle"} /\ aqIdx'[t] = FQ_BOT
      /\ \A j : aq!Holders(j)' = aq!Holders(j)
  BY <1>1, <1>2, AqMoves
<1>5. fqPc' = fqPc /\ fqIdx' = fqIdx /\ \A j : fq!Holders(j)' = fq!Holders(j)
  BY <1>1 DEF fqVars, fq!Holders
<1>6. stage'[t] = "take_used" /\ \A u \in Threads \ {t} : stage'[u] = stage[u] BY <1>1, <1>2
<1>7. Others(t) BY <1>4, <1>5, <1>6 DEF Others, aq!SameOthers
<1>8. StageFits(t)'
  <2>1. fqPc'[t] = "idle" BY <1>1, <1>2, <1>5 DEF StageFits, AqIdle, FqIdle
  <2>2. QED BY <1>4, <1>6, <2>1 DEF StageFits, AqIdle, FqIdle, aq!DeqPcs, aq!CatchupPcs
<1>9. ASSUME NEW i \in Indices PROVE InOnePlace(i)'
  <2>1. t \notin Owners(i) BY <1>1, OwnsByStage DEF OwnedByStage
  <2>2. (t \in Owners(i) <=> OwnedByStage(t, i))' BY OwnsByStage, PTL
  <2>3. t \notin Owners(i)' BY <1>4, <1>6, <2>2, PcFacts DEF OwnedByStage
  <2>4. Owners(i)' = Owners(i) BY <1>7, <2>1, <2>3, OwnersSame
  <2>5. InOnePlace(i) BY DEF MpmcIInv
  <2>6. QED BY <1>4, <1>5, <2>4, <2>5, StaysPut
<1>10. QED BY <1>1, <1>3, <1>7, <1>8, <1>9, PartsKept DEF Stages

LEMMA DeqPtrReadKeeps ==
  ASSUME MpmcIInv, NEW t \in Threads, DeqPtrRead(t)
  PROVE  MpmcIInv'
<1>1. /\ stage[t] = "take_used" /\ aqPc[t] = "idle" /\ aqIdx[t] # FQ_BOT
      /\ fq!EnqStart(t, aqIdx[t]) /\ stage' = [stage EXCEPT ![t] = "put_free"]
      /\ UNCHANGED aqVars
  BY DEF DeqPtrRead, Enter, AqIdle, FqIdle
<1>2. aq!RingInv /\ fq!RingInv /\ stage \in [Threads -> Stages] BY DEF MpmcIInv
<1>3. PICK k \in Indices : k = aqIdx[t]
  <2>1. aqIdx[t] \in 0 .. N BY <1>2 DEF aq!RingInv, aq!RingTypeOK
  <2>2. N \in Nat BY RingConstants DEF aq!RingAssumptions
  <2>3. aqIdx[t] \in Indices BY <1>1, <2>1, <2>2 DEF FQ_BOT, Indices
  <2>4. QED BY <2>3
<1>4. aq!RingInv' /\ fq!RingInv' BY <1>1, <1>2, <1>3, AqKept, FqKept
<1>5. /\ fq!SameOthers(t) /\ fqPc'[t] \in fq!Carrying /\ fqIdx'[t] = k
      /\ \A j : fq!Holders(j)' = fq!Holders(j)
  BY <1>1, <1>2, <1>3, FqMoves
<1>6. aqPc' = aqPc /\ aqIdx' = aqIdx /\ \A j : aq!Holders(j)' = aq!Holders(j)
  BY <1>1 DEF aqVars, aq!Holders
<1>7. stage'[t] = "put_free" /\ \A u \in Threads \ {t} : stage'[u] = stage[u] BY <1>1, <1>2
<1>8. Others(t) BY <1>5, <1>6, <1>7 DEF Others, fq!SameOthers
<1>9. StageFits(t)'
  BY <1>1, <1>5, <1>6, <1>7 DEF StageFits, AqIdle, FqIdle, fq!EnqPcs, fq!Carrying
\* The index in hand is the same before and after.
<1>10. ASSUME NEW i \in Indices PROVE InOnePlace(i)'
  <2>1. t \in Owners(i) <=> i = k BY <1>1, <1>3, OwnsByStage DEF OwnedByStage
  <2>2. (t \in Owners(i) <=> OwnedByStage(t, i))' BY OwnsByStage, PTL
  <2>3. t \in Owners(i)' <=> i = k BY <1>5, <1>7, <2>2 DEF OwnedByStage, fq!Carrying
  <2>4. Owners(i)' = Owners(i) BY <1>8, <2>1, <2>3, OwnersSame
  <2>5. InOnePlace(i) BY DEF MpmcIInv
  <2>6. QED BY <1>5, <1>6, <2>4, <2>5, StaysPut
<1>11. QED BY <1>1, <1>4, <1>8, <1>9, <1>10, PartsKept DEF Stages

\* The last step of a call that has no index.
LEMMA EndKeeps ==
  ASSUME MpmcIInv, NEW t \in Threads,
         \/ stage[t] = "take_free" /\ fqPc[t] = "idle" /\ fqIdx[t] = FQ_BOT
         \/ stage[t] = "put_used" /\ aqPc[t] = "idle"
         \/ stage[t] = "take_used" /\ aqPc[t] = "idle" /\ aqIdx[t] = FQ_BOT
         \/ stage[t] = "put_free" /\ fqPc[t] = "idle",
         stage' = [stage EXCEPT ![t] = "idle"], UNCHANGED <<aqVars, fqVars>>
  PROVE  MpmcIInv'
<1>1. aq!RingInv /\ fq!RingInv /\ StageFits(t) /\ stage \in [Threads -> Stages]
  BY DEF MpmcIInv
<1>2. aq!RingInv' /\ fq!RingInv' BY <1>1, AqKept, FqKept
<1>3. /\ aqPc' = aqPc /\ aqIdx' = aqIdx /\ \A j : aq!Holders(j)' = aq!Holders(j)
      /\ fqPc' = fqPc /\ fqIdx' = fqIdx /\ \A j : fq!Holders(j)' = fq!Holders(j)
  BY DEF aqVars, fqVars, aq!Holders, fq!Holders
<1>4. stage'[t] = "idle" /\ \A u \in Threads \ {t} : stage'[u] = stage[u] BY <1>1
<1>5. Others(t) BY <1>3, <1>4 DEF Others
<1>6. StageFits(t)'
  <2>1. aqPc[t] = "idle" /\ fqPc[t] = "idle" BY <1>1 DEF StageFits, AqIdle, FqIdle
  <2>2. QED BY <1>3, <1>4, <2>1 DEF StageFits, AqIdle, FqIdle
<1>7. ASSUME NEW i \in Indices PROVE InOnePlace(i)'
  <2>1. t \notin Owners(i) BY OwnsByStage, PcFacts DEF OwnedByStage
  <2>2. (t \in Owners(i) <=> OwnedByStage(t, i))' BY OwnsByStage, PTL
  <2>3. t \notin Owners(i)' BY <1>4, <2>2 DEF OwnedByStage
  <2>4. Owners(i)' = Owners(i) BY <1>5, <2>1, <2>3, OwnersSame
  <2>5. InOnePlace(i) BY DEF MpmcIInv
  <2>6. QED BY <1>3, <2>4, <2>5, StaysPut
<1>8. QED BY <1>2, <1>5, <1>6, <1>7, PartsKept DEF Stages

(***************************************************************************)
(* Inside a ring                                                           *)
(***************************************************************************)
LEMMA AqStepKeeps ==
  ASSUME MpmcIInv, NEW t \in Threads, AqStep(t)
  PROVE  MpmcIInv'
<1>1. aq!RingStep(t) /\ UNCHANGED fqVars /\ stage' = stage BY DEF AqStep
<1>2. /\ aq!RingInv /\ fq!RingInv /\ StageFits(t) /\ stage \in [Threads -> Stages]
      /\ \A i \in Indices : InOnePlace(i)
  BY DEF MpmcIInv
<1>3. aq!RingInv' /\ fq!RingInv' BY <1>1, <1>2, AqKept, FqKept
<1>4. /\ aq!SameOthers(t) /\ aq!Family(t)
      /\ aq!Inserts(t) \/ aq!Takes(t) \/ aq!MovesNone(t)
  BY <1>1, <1>2, AqMoves
<1>5. fqPc' = fqPc /\ fqIdx' = fqIdx /\ \A j : fq!Holders(j)' = fq!Holders(j)
  BY <1>1 DEF fqVars, fq!Holders
<1>6. Others(t) BY <1>1, <1>4, <1>5 DEF Others, aq!SameOthers
\* Who moves in the ring has come to put an index there or to take one.
<1>7. \/ /\ stage[t] = "put_used" /\ fqPc[t] = "idle"
         /\ aqPc[t] \in aq!EnqPcs /\ aqPc'[t] \in aq!EnqPcs \cup {"idle"}
      \/ /\ stage[t] = "take_used" /\ fqPc[t] = "idle"
         /\ aqPc[t] \in aq!DeqPcs /\ aqPc'[t] \in aq!DeqPcs \cup {"idle"}
  BY <1>2, <1>4, PcFacts DEF aq!Family, StageFits, AqIdle, FqIdle
<1>8. stage'[t] = stage[t] /\ fqPc'[t] = fqPc[t] BY <1>1, <1>5
<1>9. StageFits(t)'
  BY <1>7, <1>8 DEF StageFits, AqIdle, FqIdle, aq!EnqPcs, aq!DeqPcs, aq!CatchupPcs
<1>10. \A i \in Indices : t \in Owners(i) <=>
         \/ stage[t] = "put_used" /\ aqPc[t] \in aq!Carrying /\ aqIdx[t] = i
         \/ stage[t] = "take_used" /\ aqPc[t] = "idle" /\ aqIdx[t] = i
  BY <1>7, OwnsByStage DEF OwnedByStage
<1>11. \A i \in Indices : t \in Owners(i)' <=>
         \/ stage[t] = "put_used" /\ aqPc'[t] \in aq!Carrying /\ aqIdx'[t] = i
         \/ stage[t] = "take_used" /\ aqPc'[t] = "idle" /\ aqIdx'[t] = i
  <2>1. SUFFICES ASSUME NEW i \in Indices
                 PROVE  t \in Owners(i)' <=>
                   \/ stage[t] = "put_used" /\ aqPc'[t] \in aq!Carrying /\ aqIdx'[t] = i
                   \/ stage[t] = "take_used" /\ aqPc'[t] = "idle" /\ aqIdx'[t] = i
    OBVIOUS
  <2>2. (t \in Owners(i) <=> OwnedByStage(t, i))' BY OwnsByStage, PTL
  <2>3. QED BY <1>7, <1>8, <2>2 DEF OwnedByStage, aq!Carrying
<1>12. CASE aq!Inserts(t)
  <2>1. PICK k \in Indices :
          /\ aqPc[t] \in aq!Carrying /\ aqPc'[t] \in aq!EnqPcs \ aq!Carrying
          /\ aqIdx[t] = k
          /\ \E s \in aq!Slots : aq!Holders(k)' = aq!Holders(k) \cup {s}
          /\ \A j \in aq!Indices \ {k} : aq!Holders(j)' = aq!Holders(j)
    BY <1>12 DEF aq!Inserts, Indices, aq!Indices
  <2>2. \A j \in Indices \ {k} : aq!Holders(j)' = aq!Holders(j)
    BY <2>1 DEF Indices, aq!Indices
  <2>3. stage[t] = "put_used" BY <1>7, <2>1, PcFacts
  <2>4. t \in Owners(k) /\ t \notin Owners(k)' BY <1>10, <1>11, <2>1, <2>3
  <2>5. Owners(k)' = Owners(k) \ {t} BY <1>6, <2>4, OwnersLess
  <2>6. InOnePlace(k)'
    <3>1. Owners(k) = {t} /\ aq!Holders(k) = {} /\ fq!Holders(k) = {}
      BY <1>2, <2>4 DEF InOnePlace
    <3>2. PICK s \in aq!Slots : aq!Holders(k)' = {s} BY <2>1, <3>1
    <3>3. Owners(k)' = {} BY <2>5, <3>1
    <3>4. fq!Holders(k)' = {} BY <1>5, <3>1
    <3>5. QED BY <3>2, <3>3, <3>4 DEF InOnePlace, aq!Slots, aq!NumSlots
  <2>7. ASSUME NEW j \in Indices \ {k} PROVE InOnePlace(j)'
    <3>1. t \notin Owners(j) /\ t \notin Owners(j)' BY <1>10, <1>11, <2>1, <2>3
    <3>2. Owners(j)' = Owners(j) BY <1>6, <3>1, OwnersSame
    <3>3. QED BY <1>2, <1>5, <2>2, <3>2, StaysPut
  <2>8. \A i \in Indices : InOnePlace(i)' BY <2>6, <2>7
  <2>9. QED BY <1>1, <1>2, <1>3, <1>6, <1>9, <2>8, StillKept
<1>13. CASE aq!Takes(t)
  <2>1. PICK k \in Indices :
          /\ aqPc[t] \in aq!DeqPcs /\ aqPc'[t] = "idle" /\ aqIdx'[t] = k
          /\ \E s \in aq!Holders(k) : aq!Holders(k)' = aq!Holders(k) \ {s}
          /\ \A j \in aq!Indices \ {k} : aq!Holders(j)' = aq!Holders(j)
    BY <1>13 DEF aq!Takes, Indices, aq!Indices
  <2>2. \A j \in Indices \ {k} : aq!Holders(j)' = aq!Holders(j)
    BY <2>1 DEF Indices, aq!Indices
  <2>3. stage[t] = "take_used" BY <1>7, <2>1, PcFacts
  <2>4. t \in Owners(k)' BY <1>11, <2>1, <2>3
  <2>5. Owners(k)' = Owners(k) \cup {t} BY <1>6, <2>4, OwnersMore
  <2>6. InOnePlace(k)'
    <3>1. PICK s \in aq!Holders(k) : aq!Holders(k)' = aq!Holders(k) \ {s} BY <2>1
    <3>2. Owners(k) = {} /\ aq!Holders(k) = {s} /\ fq!Holders(k) = {}
      BY <1>2, <3>1 DEF InOnePlace
    <3>3. Owners(k)' = {t} /\ aq!Holders(k)' = {} BY <2>5, <3>1, <3>2
    <3>4. fq!Holders(k)' = {} BY <1>5, <3>2
    <3>5. QED BY <3>3, <3>4 DEF InOnePlace
  <2>7. ASSUME NEW j \in Indices \ {k} PROVE InOnePlace(j)'
    <3>1. t \notin Owners(j) /\ t \notin Owners(j)'
      BY <1>10, <1>11, <2>1, <2>3, PcFacts
    <3>2. Owners(j)' = Owners(j) BY <1>6, <3>1, OwnersSame
    <3>3. QED BY <1>2, <1>5, <2>2, <3>2, StaysPut
  <2>8. \A i \in Indices : InOnePlace(i)' BY <2>6, <2>7
  <2>9. QED BY <1>1, <1>2, <1>3, <1>6, <1>9, <2>8, StillKept
<1>14. CASE aq!MovesNone(t)
  <2>1. /\ \/ aqPc[t] \in aq!Carrying /\ aqPc'[t] \in aq!Carrying /\ aqIdx'[t] = aqIdx[t]
           \/ aqPc[t] \notin aq!Carrying /\ aqPc'[t] \notin aq!Carrying
        /\ aqPc'[t] = "idle" => aqIdx'[t] = FQ_BOT
        /\ \A j \in Indices : aq!Holders(j)' = aq!Holders(j)
    BY <1>14 DEF aq!MovesNone, Indices, aq!Indices, aq!Bot, FQ_BOT
  <2>2. ASSUME NEW i \in Indices PROVE InOnePlace(i)'
    <3>1. t \in Owners(i)' <=> t \in Owners(i) BY <1>7, <1>10, <1>11, <2>1, PcFacts
    <3>2. Owners(i)' = Owners(i) BY <1>6, <3>1, OwnersSame
    <3>3. QED BY <1>2, <1>5, <2>1, <3>2, StaysPut
  <2>3. QED BY <1>1, <1>2, <1>3, <1>6, <1>9, <2>2, StillKept
<1>15. QED BY <1>4, <1>12, <1>13, <1>14

LEMMA FqStepKeeps ==
  ASSUME MpmcIInv, NEW t \in Threads, FqStep(t)
  PROVE  MpmcIInv'
<1>1. fq!RingStep(t) /\ UNCHANGED aqVars /\ stage' = stage BY DEF FqStep
<1>2. /\ aq!RingInv /\ fq!RingInv /\ StageFits(t) /\ stage \in [Threads -> Stages]
      /\ \A i \in Indices : InOnePlace(i)
  BY DEF MpmcIInv
<1>3. aq!RingInv' /\ fq!RingInv' BY <1>1, <1>2, AqKept, FqKept
<1>4. /\ fq!SameOthers(t) /\ fq!Family(t)
      /\ fq!Inserts(t) \/ fq!Takes(t) \/ fq!MovesNone(t)
  BY <1>1, <1>2, FqMoves
<1>5. aqPc' = aqPc /\ aqIdx' = aqIdx /\ \A j : aq!Holders(j)' = aq!Holders(j)
  BY <1>1 DEF aqVars, aq!Holders
<1>6. Others(t) BY <1>1, <1>4, <1>5 DEF Others, fq!SameOthers
\* Who moves in the ring has come to put an index there or to take one.
<1>7. \/ /\ stage[t] = "put_free" /\ aqPc[t] = "idle"
         /\ fqPc[t] \in fq!EnqPcs /\ fqPc'[t] \in fq!EnqPcs \cup {"idle"}
      \/ /\ stage[t] = "take_free" /\ aqPc[t] = "idle"
         /\ fqPc[t] \in fq!DeqPcs /\ fqPc'[t] \in fq!DeqPcs \cup {"idle"}
  BY <1>2, <1>4, PcFacts DEF fq!Family, StageFits, AqIdle, FqIdle
<1>8. stage'[t] = stage[t] /\ aqPc'[t] = aqPc[t] BY <1>1, <1>5
<1>9. StageFits(t)'
  BY <1>7, <1>8 DEF StageFits, AqIdle, FqIdle, fq!EnqPcs, fq!DeqPcs, fq!CatchupPcs
<1>10. \A i \in Indices : t \in Owners(i) <=>
         \/ stage[t] = "put_free" /\ fqPc[t] \in fq!Carrying /\ fqIdx[t] = i
         \/ stage[t] = "take_free" /\ fqPc[t] = "idle" /\ fqIdx[t] = i
  BY <1>7, OwnsByStage DEF OwnedByStage
<1>11. \A i \in Indices : t \in Owners(i)' <=>
         \/ stage[t] = "put_free" /\ fqPc'[t] \in fq!Carrying /\ fqIdx'[t] = i
         \/ stage[t] = "take_free" /\ fqPc'[t] = "idle" /\ fqIdx'[t] = i
  <2>1. SUFFICES ASSUME NEW i \in Indices
                 PROVE  t \in Owners(i)' <=>
                   \/ stage[t] = "put_free" /\ fqPc'[t] \in fq!Carrying /\ fqIdx'[t] = i
                   \/ stage[t] = "take_free" /\ fqPc'[t] = "idle" /\ fqIdx'[t] = i
    OBVIOUS
  <2>2. (t \in Owners(i) <=> OwnedByStage(t, i))' BY OwnsByStage, PTL
  <2>3. QED BY <1>7, <1>8, <2>2 DEF OwnedByStage, fq!Carrying
<1>12. CASE fq!Inserts(t)
  <2>1. PICK k \in Indices :
          /\ fqPc[t] \in fq!Carrying /\ fqPc'[t] \in fq!EnqPcs \ fq!Carrying
          /\ fqIdx[t] = k
          /\ \E s \in fq!Slots : fq!Holders(k)' = fq!Holders(k) \cup {s}
          /\ \A j \in fq!Indices \ {k} : fq!Holders(j)' = fq!Holders(j)
    BY <1>12 DEF fq!Inserts, Indices, fq!Indices
  <2>2. \A j \in Indices \ {k} : fq!Holders(j)' = fq!Holders(j)
    BY <2>1 DEF Indices, fq!Indices
  <2>3. stage[t] = "put_free" BY <1>7, <2>1, PcFacts
  <2>4. t \in Owners(k) /\ t \notin Owners(k)' BY <1>10, <1>11, <2>1, <2>3
  <2>5. Owners(k)' = Owners(k) \ {t} BY <1>6, <2>4, OwnersLess
  <2>6. InOnePlace(k)'
    <3>1. Owners(k) = {t} /\ aq!Holders(k) = {} /\ fq!Holders(k) = {}
      BY <1>2, <2>4 DEF InOnePlace
    <3>2. PICK s \in fq!Slots : fq!Holders(k)' = {s} BY <2>1, <3>1
    <3>3. Owners(k)' = {} BY <2>5, <3>1
    <3>4. aq!Holders(k)' = {} BY <1>5, <3>1
    <3>5. QED BY <3>2, <3>3, <3>4 DEF InOnePlace, fq!Slots, fq!NumSlots
  <2>7. ASSUME NEW j \in Indices \ {k} PROVE InOnePlace(j)'
    <3>1. t \notin Owners(j) /\ t \notin Owners(j)' BY <1>10, <1>11, <2>1, <2>3
    <3>2. Owners(j)' = Owners(j) BY <1>6, <3>1, OwnersSame
    <3>3. QED BY <1>2, <1>5, <2>2, <3>2, StaysPut
  <2>8. \A i \in Indices : InOnePlace(i)' BY <2>6, <2>7
  <2>9. QED BY <1>1, <1>2, <1>3, <1>6, <1>9, <2>8, StillKept
<1>13. CASE fq!Takes(t)
  <2>1. PICK k \in Indices :
          /\ fqPc[t] \in fq!DeqPcs /\ fqPc'[t] = "idle" /\ fqIdx'[t] = k
          /\ \E s \in fq!Holders(k) : fq!Holders(k)' = fq!Holders(k) \ {s}
          /\ \A j \in fq!Indices \ {k} : fq!Holders(j)' = fq!Holders(j)
    BY <1>13 DEF fq!Takes, Indices, fq!Indices
  <2>2. \A j \in Indices \ {k} : fq!Holders(j)' = fq!Holders(j)
    BY <2>1 DEF Indices, fq!Indices
  <2>3. stage[t] = "take_free" BY <1>7, <2>1, PcFacts
  <2>4. t \in Owners(k)' BY <1>11, <2>1, <2>3
  <2>5. Owners(k)' = Owners(k) \cup {t} BY <1>6, <2>4, OwnersMore
  <2>6. InOnePlace(k)'
    <3>1. PICK s \in fq!Holders(k) : fq!Holders(k)' = fq!Holders(k) \ {s} BY <2>1
    <3>2. Owners(k) = {} /\ fq!Holders(k) = {s} /\ aq!Holders(k) = {}
      BY <1>2, <3>1 DEF InOnePlace
    <3>3. Owners(k)' = {t} /\ fq!Holders(k)' = {} BY <2>5, <3>1, <3>2
    <3>4. aq!Holders(k)' = {} BY <1>5, <3>2
    <3>5. QED BY <3>3, <3>4 DEF InOnePlace
  <2>7. ASSUME NEW j \in Indices \ {k} PROVE InOnePlace(j)'
    <3>1. t \notin Owners(j) /\ t \notin Owners(j)'
      BY <1>10, <1>11, <2>1, <2>3, PcFacts
    <3>2. Owners(j)' = Owners(j) BY <1>6, <3>1, OwnersSame
    <3>3. QED BY <1>2, <1>5, <2>2, <3>2, StaysPut
  <2>8. \A i \in Indices : InOnePlace(i)' BY <2>6, <2>7
  <2>9. QED BY <1>1, <1>2, <1>3, <1>6, <1>9, <2>8, StillKept
<1>14. CASE fq!MovesNone(t)
  <2>1. /\ \/ fqPc[t] \in fq!Carrying /\ fqPc'[t] \in fq!Carrying /\ fqIdx'[t] = fqIdx[t]
           \/ fqPc[t] \notin fq!Carrying /\ fqPc'[t] \notin fq!Carrying
        /\ fqPc'[t] = "idle" => fqIdx'[t] = FQ_BOT
        /\ \A j \in Indices : fq!Holders(j)' = fq!Holders(j)
    BY <1>14 DEF fq!MovesNone, Indices, fq!Indices, fq!Bot, FQ_BOT
  <2>2. ASSUME NEW i \in Indices PROVE InOnePlace(i)'
    <3>1. t \in Owners(i)' <=> t \in Owners(i) BY <1>7, <1>10, <1>11, <2>1, PcFacts
    <3>2. Owners(i)' = Owners(i) BY <1>6, <3>1, OwnersSame
    <3>3. QED BY <1>2, <1>5, <2>1, <3>2, StaysPut
  <2>3. QED BY <1>1, <1>2, <1>3, <1>6, <1>9, <2>2, StillKept
<1>15. QED BY <1>4, <1>12, <1>13, <1>14

-----------------------------------------------------------------------------
(***************************************************************************)
(* The invariant and what follows from it                                  *)
(***************************************************************************)
LEMMA InitMpmcIInv == MpmcInit => MpmcIInv
<1>1. SUFFICES ASSUME MpmcInit PROVE MpmcIInv OBVIOUS
<1>2. aq!InitEmpty /\ fq!InitFull /\ stage = [t \in Threads |-> "idle"] BY <1>1 DEF MpmcInit
<1>3. aq!RingInv
  <2>1. aqr!RingInv BY <1>2, SameSizes, AqSame, aqr!RingInvInit
  <2>2. QED BY <2>1, AqSame
<1>4. fq!RingInv
  <2>1. fqr!RingInv BY <1>2, SameSizes, FqSame, fqr!RingInvInit
  <2>2. QED BY <2>1, FqSame
<1>5. stage \in [Threads -> Stages] /\ \A t \in Threads : StageFits(t)
  <2>1. aqPc = [t \in Threads |-> "idle"] /\ fqPc = [t \in Threads |-> "idle"]
    BY <1>2 DEF aq!InitEmpty, fq!InitFull, aq!InitCalls, fq!InitCalls
  <2>2. QED BY <1>2, <2>1 DEF StageFits, AqIdle, FqIdle, Stages
<1>6. ASSUME NEW i \in Indices PROVE InOnePlace(i)
  <2>1. i \in aqr!Indices /\ i \in fqr!Indices BY DEF Indices, aqr!Indices, fqr!Indices
  <2>2. aq!Holders(i) = {}
    <3>1. aqr!Holders(i) = {} BY <1>2, <2>1, SameSizes, AqSame, aqr!InitEmptyFacts
    <3>2. QED BY <3>1, AqSame
  <2>3. i \in fq!Slots /\ fq!Holders(i) = {i}
    <3>1. i \in fqr!Slots /\ fqr!Holders(i) = {i}
      BY <1>2, <2>1, SameSizes, FqSame, fqr!InitFullFacts
    <3>2. QED BY <3>1, FqSame
  <2>4. Owners(i) = {} BY <1>2 DEF Owners, Owns
  <2>5. QED BY <2>2, <2>3, <2>4 DEF InOnePlace
<1>7. QED BY <1>3, <1>4, <1>5, <1>6 DEF MpmcIInv

LEMMA NextMpmcIInv == MpmcIInv /\ [MpmcNext]_mpmcVars => MpmcIInv'
<1>1. SUFFICES ASSUME MpmcIInv, [MpmcNext]_mpmcVars PROVE MpmcIInv' OBVIOUS
<1>2. CASE UNCHANGED mpmcVars
  <2>1. aq!RingInv /\ fq!RingInv BY <1>1 DEF MpmcIInv
  <2>2. UNCHANGED aqVars /\ UNCHANGED fqVars /\ stage' = stage BY <1>2 DEF mpmcVars
  <2>3. aq!RingInv' /\ fq!RingInv' BY <2>1, <2>2, AqKept, FqKept
  <2>4. /\ aqPc' = aqPc /\ aqIdx' = aqIdx /\ \A j : aq!Holders(j)' = aq!Holders(j)
        /\ fqPc' = fqPc /\ fqIdx' = fqIdx /\ \A j : fq!Holders(j)' = fq!Holders(j)
    BY <2>2 DEF aqVars, fqVars, aq!Holders, fq!Holders
  <2>5. \A i : Owners(i)' = Owners(i)
    BY <2>2, <2>4 DEF Owners, Owns, AqIdle, FqIdle, aq!Carries, fq!Carries
  <2>6. \A i \in Indices : InOnePlace(i)' BY <1>1, <2>4, <2>5, StaysPut DEF MpmcIInv
  <2>7. \A t \in Threads : StageFits(t)'
    BY <1>1, <2>2, <2>4 DEF MpmcIInv, StageFits, AqIdle, FqIdle, aq!EnqPcs, fq!EnqPcs,
       aq!DeqPcs, fq!DeqPcs, aq!CatchupPcs, fq!CatchupPcs
  <2>8. stage' \in [Threads -> Stages] BY <1>1, <2>2 DEF MpmcIInv
  <2>9. QED BY <2>3, <2>6, <2>7, <2>8 DEF MpmcIInv
<1>3. ASSUME NEW t \in Threads, NEW v \in Values, EnqPtrStart(t, v) PROVE MpmcIInv'
  BY <1>1, <1>3, EnqPtrStartKeeps
<1>4. ASSUME NEW t \in Threads, DeqPtrStart(t) PROVE MpmcIInv'
  BY <1>1, <1>4, DeqPtrStartKeeps
<1>5. ASSUME NEW t \in Threads, InsideStep(t) PROVE MpmcIInv'
  BY <1>1, <1>5, AqStepKeeps, FqStepKeeps, EnqPtrWriteKeeps, DeqPtrReadKeeps DEF InsideStep
<1>6. ASSUME NEW t \in Threads,
             EnqPtrFull(t) \/ EnqPtrReturn(t) \/ DeqPtrEmpty(t) \/ DeqPtrReturn(t)
      PROVE  MpmcIInv'
  <2>1. /\ \/ stage[t] = "take_free" /\ fqPc[t] = "idle" /\ fqIdx[t] = FQ_BOT
           \/ stage[t] = "put_used" /\ aqPc[t] = "idle"
           \/ stage[t] = "take_used" /\ aqPc[t] = "idle" /\ aqIdx[t] = FQ_BOT
           \/ stage[t] = "put_free" /\ fqPc[t] = "idle"
        /\ stage' = [stage EXCEPT ![t] = "idle"] /\ UNCHANGED <<aqVars, fqVars>>
    BY <1>6 DEF EnqPtrFull, EnqPtrReturn, DeqPtrEmpty, DeqPtrReturn, Enter, AqIdle, FqIdle
  <2>2. QED BY <1>1, <2>1, EndKeeps
<1>7. QED BY <1>1, <1>2, <1>3, <1>4, <1>5, <1>6 DEF MpmcNext

\* The invariant of the queue of two rings holds in every state it reaches.
THEOREM QueueInvariant == MpmcSpec => []MpmcIInv
BY InitMpmcIInv, NextMpmcIInv, PTL DEF MpmcSpec

\* Every cell of fq_mpmc_t's payload array is in one place, however many threads use the
\* queue and however they interleave in its two rings: one thread is at work with it, or
\* its index is in one slot of one of the rings.  No payload is overwritten before it has
\* been read, no cell is delivered twice, and none is lost.
THEOREM CellsExclusive == MpmcSpec => []CellExclusive
<1>1. ASSUME MpmcIInv PROVE CellExclusive
  <2>1. ASSUME NEW i \in Indices
        PROVE  Cardinality(Owners(i)) + Cardinality(aq!Holders(i))
                 + Cardinality(fq!Holders(i)) = 1
    <3>1. InOnePlace(i) BY <1>1 DEF MpmcIInv
    <3>2. Cardinality({}) = 0 BY FS_EmptySet
    <3>3. \A x : Cardinality({x}) = 1 BY FS_Singleton
    <3>4. CASE \E t \in Threads : Owners(i) = {t} /\ aq!Holders(i) = {} /\ fq!Holders(i) = {}
      <4>1. /\ Cardinality(Owners(i)) = 1
            /\ Cardinality(aq!Holders(i)) = 0 /\ Cardinality(fq!Holders(i)) = 0
        BY <3>2, <3>3, <3>4, Zenon
      <4>2. QED BY <4>1
    <3>5. CASE \E s \in aq!Slots : Owners(i) = {} /\ aq!Holders(i) = {s} /\ fq!Holders(i) = {}
      <4>1. /\ Cardinality(Owners(i)) = 0
            /\ Cardinality(aq!Holders(i)) = 1 /\ Cardinality(fq!Holders(i)) = 0
        BY <3>2, <3>3, <3>5, Zenon
      <4>2. QED BY <4>1
    <3>6. CASE \E s \in fq!Slots : Owners(i) = {} /\ aq!Holders(i) = {} /\ fq!Holders(i) = {s}
      <4>1. /\ Cardinality(Owners(i)) = 0
            /\ Cardinality(aq!Holders(i)) = 0 /\ Cardinality(fq!Holders(i)) = 1
        BY <3>2, <3>3, <3>6, Zenon
      <4>2. QED BY <4>1
    <3>7. QED BY <3>1, <3>4, <3>5, <3>6 DEF InOnePlace
  <2>2. QED BY <2>1 DEF CellExclusive, Owners
<1>2. QED BY <1>1, QueueInvariant, PTL
===============================================================================
