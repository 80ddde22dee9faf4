----------------------------- MODULE GlfRingLemmas ----------------------------
(***************************************************************************)
(* Proofs about a GLFQ ring by itself, for every number of threads and     *)
(* indices and every width of cycles: its invariant survives every step,   *)
(* and a step moves at most one index, from a call to a slot or back.      *)
(* What rings need of their constants is a hypothesis here,                *)
(* RingAssumptions, so that the lemmas hold of both rings of a queue.      *)
(***************************************************************************)
EXTENDS GlfRingInv, ModArith, FiniteSetTheorems, TLAPS

-----------------------------------------------------------------------------
(***************************************************************************)
(* Tickets, laps and cycles                                                *)
(***************************************************************************)

Half == CycleMod \div 2

LEMMA SizeFacts ==
  ASSUME RingAssumptions
  PROVE  /\ N \in Nat \ {0} /\ NumSlots \in Nat \ {0}
         /\ CycleMod \in Nat \ {0} /\ Half \in Nat \ {0} /\ CycleMod = 2 * Half
         /\ Catchups \in Nat \ {0} /\ IsFiniteSet(Threads) /\ Threads # {}
<1>1. NumSlots \in Nat \ {0} BY DEF NumSlots, RingAssumptions
<1>2. CycleMod = 2 * (CycleMod \div 2) + (CycleMod % 2) /\ CycleMod \div 2 \in Nat
  <2>1. CycleMod \in Nat /\ 2 \in Nat \ {0} BY DEF RingAssumptions
  <2>2. QED BY <2>1, DivMod
<1>3. QED BY <1>1, <1>2 DEF Half, RingAssumptions

\* A ticket is its lap and its slot.
LEMMA SlotFacts ==
  ASSUME RingAssumptions, NEW n \in Nat
  PROVE  /\ Slot(n) \in Slots
         /\ LapOf(n) \in Nat
         /\ n = NumSlots * LapOf(n) + Slot(n)
         /\ CycleOf(n) \in 0 .. CycleMod - 1
<1>1. NumSlots \in Nat \ {0} /\ CycleMod \in Nat \ {0} BY SizeFacts
<1>2. LapOf(n) \in Nat /\ n = NumSlots * LapOf(n) + Slot(n) /\ Slot(n) \in Slots
  BY <1>1, DivMod DEF LapOf, Slot, Slots
<1>3. QED BY <1>1, <1>2, DivMod DEF CycleOf

LEMMA TicketUnique ==
  ASSUME RingAssumptions, NEW n \in Nat, NEW m \in Nat, Slot(n) = Slot(m),
         LapOf(n) = LapOf(m)
  PROVE  n = m
<1>1. n = NumSlots * LapOf(n) + Slot(n) BY SlotFacts
<1>2. m = NumSlots * LapOf(m) + Slot(m) BY SlotFacts
<1>3. QED BY <1>1, <1>2

LEMMA LapMonotone ==
  ASSUME RingAssumptions, NEW n \in Nat, NEW m \in Nat, n <= m
  PROVE  LapOf(n) <= LapOf(m)
<1>1. NumSlots \in Nat \ {0} BY SizeFacts
<1>2. n = NumSlots * LapOf(n) + Slot(n) /\ LapOf(n) \in Nat /\ Slot(n) \in 0 .. NumSlots - 1
  BY SlotFacts DEF Slots
<1>3. m = NumSlots * LapOf(m) + Slot(m) /\ LapOf(m) \in Nat /\ Slot(m) \in 0 .. NumSlots - 1
  BY SlotFacts DEF Slots
<1>4. ~ (LapOf(m) < LapOf(n))
  <2>1. SUFFICES ASSUME LapOf(m) < LapOf(n) PROVE FALSE OBVIOUS
  <2>2. NumSlots * LapOf(m) + NumSlots <= NumSlots * LapOf(n)
    BY <1>1, <1>2, <1>3, <2>1, MultiplesApart
  <2>3. NumSlots * LapOf(m) \in Int /\ NumSlots * LapOf(n) \in Int
    BY <1>1, <1>2, <1>3, Z3
  <2>4. QED BY <1>1, <1>2, <1>3, <2>2, <2>3
<1>5. QED BY <1>2, <1>3, <1>4

\* The ticket of the item in a slot belongs to that slot and lap.
LEMMA OriginFacts ==
  ASSUME RingAssumptions, NEW s \in Slots, lap[s] \in Nat
  PROVE  Origin(s) \in Nat /\ Slot(Origin(s)) = s /\ LapOf(Origin(s)) = lap[s]
<1>1. NumSlots \in Nat \ {0} /\ s \in 0 .. NumSlots - 1 BY SizeFacts DEF Slots
<1>2. NumSlots * lap[s] \in Nat BY <1>1, Z3
<1>3. PICK x \in Nat : x = NumSlots * lap[s] + s BY <1>1, <1>2
<1>4. x \div NumSlots = lap[s] /\ x % NumSlots = s BY <1>1, <1>3, DivModOf
<1>5. Origin(s) = x BY <1>3 DEF Origin
<1>6. QED BY <1>4, <1>5 DEF Slot, LapOf

(***************************************************************************)
(* Cycles of laps that are near each other compare as the laps do.         *)
(***************************************************************************)
LEMMA CycleCompare ==
  ASSUME RingAssumptions, NEW k \in Nat, NEW j \in Nat, Near(k, j)
  PROVE  /\ k % CycleMod = j % CycleMod <=> k = j
         /\ Behind(k % CycleMod, j % CycleMod) <=> k < j
<1>1. CycleMod \in Nat \ {0} /\ Half \in Nat \ {0} /\ CycleMod = 2 * Half BY SizeFacts
<1>2. k - j < Half /\ j - k < Half BY DEF Near, Half
<1>3. CycleMod = 2 * Half /\ k - j < Half /\ j - k < Half =>
        /\ k % CycleMod = j % CycleMod <=> k = j
        /\ ((k % CycleMod) - (j % CycleMod)) % CycleMod \in 1 .. Half - 1 <=> k > j
  BY <1>1, NearModCompare, Zenon
<1>4. k % CycleMod = j % CycleMod <=> k = j BY <1>1, <1>2, <1>3, Zenon
<1>5. Ahead(k % CycleMod, j % CycleMod) <=> k > j
  BY <1>1, <1>2, <1>3, Zenon DEF Ahead, Half
<1>6. (k < j) <=> (k # j /\ ~ (k > j)) OBVIOUS
<1>7. QED BY <1>4, <1>5, <1>6, Zenon DEF Behind

(***************************************************************************)
(* The parts of the invariant that speak of slots and of threads at slots  *)
(***************************************************************************)

LEMMA Ranges ==
  ASSUME RingAssumptions, RingTypeOK
  PROVE  /\ head \in Nat /\ tail \in Nat
         /\ \A t \in Threads : /\ tkt[t] \in Nat
                               /\ Slot(tkt[t]) \in Slots /\ LapOf(tkt[t]) \in Nat
                               /\ lap[Slot(tkt[t])] \in Nat
                               /\ entry[Slot(tkt[t])] \in Entries /\ ent[t] \in Entries
         /\ \A s \in Slots : lap[s] \in Nat /\ entry[s] \in Entries
<1>1. \A t \in Threads : tkt[t] \in Nat BY DEF RingTypeOK
<1>2. \A t \in Threads : Slot(tkt[t]) \in Slots /\ LapOf(tkt[t]) \in Nat
  BY <1>1, SlotFacts
<1>3. QED BY <1>1, <1>2 DEF RingTypeOK

\* What a thread reads off the cycle of its slot is true of laps.
LEMMA SlotCompare ==
  ASSUME RingAssumptions, RingTypeOK, CyclesFollowLaps, StallsBounded, NEW t \in Threads,
         pc[t] \in AtSlot
  PROVE  /\ entry[Slot(tkt[t])].cycle = CycleOf(tkt[t])
              <=> lap[Slot(tkt[t])] = LapOf(tkt[t])
         /\ Behind(entry[Slot(tkt[t])].cycle, CycleOf(tkt[t]))
              <=> lap[Slot(tkt[t])] < LapOf(tkt[t])
<1>1. /\ Slot(tkt[t]) \in Slots /\ LapOf(tkt[t]) \in Nat /\ lap[Slot(tkt[t])] \in Nat
  BY Ranges
<1>2. entry[Slot(tkt[t])].cycle = lap[Slot(tkt[t])] % CycleMod
  BY <1>1 DEF CyclesFollowLaps
<1>3. Near(lap[Slot(tkt[t])], LapOf(tkt[t])) BY DEF StallsBounded, Near
<1>4. QED BY <1>1, <1>2, <1>3, CycleCompare DEF CycleOf

\* A step at no slot leaves all of this alone.
LEMMA QuietStep ==
  ASSUME RingAssumptions, RingTypeOK, SlotInv, NEW t \in Threads, UNCHANGED <<head,
         entry, lap>>,
         pc[t] \notin AtSlot, pc'[t] \notin AtSlot,
         pc'[t] \in EnqPcs => idx'[t] \in Indices,
         \A u \in Threads \ {t} : /\ pc'[u] = pc[u] /\ tkt'[u] = tkt[u]
                                  /\ ent'[u] = ent[u] /\ idx'[u] = idx[u]
  PROVE  SlotInv'
<1>1. CyclesFollowLaps' BY DEF SlotInv, CyclesFollowLaps
<1>2. StallsBounded' BY DEF SlotInv, StallsBounded
<1>3. DeqTicketsTaken' BY DEF SlotInv, DeqTicketsTaken, AtSlot
<1>4. LooksKept' BY DEF SlotInv, LooksKept, AtSlot, DeqAtSlot
<1>5. LooksPast' BY DEF SlotInv, LooksPast, AtSlot, Live
<1>6. \A n : Expected(n) => Expected(n)' BY DEF Expected, AtSlot, DeqAtSlot
<1>7. GoneLeftMark' BY <1>6 DEF SlotInv, GoneLeftMark
<1>8. InsertInTime' BY <1>6 DEF SlotInv, InsertInTime, AtSlot
<1>9. ConsumeFindsItem' BY DEF SlotInv, ConsumeFindsItem, AtSlot, DeqAtSlot, Origin
<1>10. NoneStranded'
  <2>1. \A s \in Slots : Claimed(s) => Claimed(s)' BY DEF Claimed, Origin, AtSlot
  <2>2. QED BY <2>1 DEF SlotInv, NoneStranded, Live, Origin
<1>11. QED
  BY <1>1, <1>2, <1>3, <1>4, <1>5, <1>7, <1>8, <1>9, <1>10 DEF SlotInv

\* A ticket is taken within the bound on stalls.
LEMMA EnqTicketPreserves ==
  ASSUME RingAssumptions, RingTypeOK, SlotInv, NEW t \in Threads, EnqTicket(t)
  PROVE  SlotInv'
<1>1. /\ pc' = [pc EXCEPT ![t] = "enq_load"] /\ tkt' = [tkt EXCEPT ![t] = tail]
      /\ UNCHANGED <<head, entry, lap, idx, ent>> /\ pc[t] = "enq_faa"
  BY DEF EnqTicket, GoTo
<1>2. /\ pc \in [Threads -> {"idle"} \cup EnqPcs \cup DeqPcs]
      /\ tkt \in [Threads -> Nat] /\ tail \in Nat
  BY DEF RingTypeOK
<1>3. CyclesFollowLaps' BY <1>1 DEF SlotInv, CyclesFollowLaps
<1>4. StallsBounded'
  <2>1. Near(LapOf(tail), lap[Slot(tail)]) BY <1>2, SlotFacts DEF EnqTicket, WithinCycles
  <2>2. \A u \in Threads : pc[u] \in AtSlot => Near(LapOf(tail), LapOf(tkt[u]))
    BY DEF EnqTicket, WithinCycles
  <2>3. Near(LapOf(tail), LapOf(tail))
    BY <1>2, SlotFacts, SizeFacts DEF Near, Half
  <2>4. QED BY <1>1, <1>2, <2>1, <2>2, <2>3 DEF SlotInv, StallsBounded, Near
<1>5. DeqTicketsTaken' BY <1>1, <1>2 DEF SlotInv, DeqTicketsTaken, DeqAtSlot
<1>6. LooksKept' BY <1>1, <1>2 DEF SlotInv, LooksKept, EnqPcs
<1>7. LooksPast' BY <1>1, <1>2 DEF SlotInv, LooksPast, Live
<1>8. \A n : Expected(n) => Expected(n)' BY <1>1, <1>2 DEF Expected
<1>9. GoneLeftMark' BY <1>1, <1>8 DEF SlotInv, GoneLeftMark
<1>10. InsertInTime' BY <1>1, <1>2, <1>8 DEF SlotInv, InsertInTime
<1>11. ConsumeFindsItem' BY <1>1, <1>2 DEF SlotInv, ConsumeFindsItem, Origin
<1>12. NoneStranded'
  <2>1. \A s \in Slots : Claimed(s) => Claimed(s)'
    BY <1>1, <1>2 DEF Claimed, Origin, DeqAtSlot
  <2>2. QED BY <1>1, <2>1 DEF SlotInv, NoneStranded, Live, Origin
<1>13. QED
  BY <1>3, <1>4, <1>5, <1>6, <1>7, <1>9, <1>10, <1>11, <1>12 DEF SlotInv

LEMMA DeqTicketPreserves ==
  ASSUME RingAssumptions, RingTypeOK, SlotInv, NEW t \in Threads, DeqTicket(t)
  PROVE  SlotInv'
<1>1. /\ pc' = [pc EXCEPT ![t] = "deq_load"] /\ tkt' = [tkt EXCEPT ![t] = head]
      /\ UNCHANGED <<entry, lap, idx, ent>> /\ pc[t] = "deq_faa" /\ head' = head + 1
  BY DEF DeqTicket, GoTo
<1>2. /\ pc \in [Threads -> {"idle"} \cup EnqPcs \cup DeqPcs]
      /\ tkt \in [Threads -> Nat] /\ head \in Nat
  BY DEF RingTypeOK
<1>3. CyclesFollowLaps' BY <1>1 DEF SlotInv, CyclesFollowLaps
<1>4. StallsBounded'
  <2>1. Near(LapOf(head), lap[Slot(head)]) BY <1>2, SlotFacts DEF DeqTicket, WithinCycles
  <2>2. \A u \in Threads : pc[u] \in AtSlot => Near(LapOf(head), LapOf(tkt[u]))
    BY DEF DeqTicket, WithinCycles
  <2>3. Near(LapOf(head), LapOf(head))
    BY <1>2, SlotFacts, SizeFacts DEF Near, Half
  <2>4. QED BY <1>1, <1>2, <2>1, <2>2, <2>3 DEF SlotInv, StallsBounded, Near
<1>5. DeqTicketsTaken' BY <1>1, <1>2 DEF SlotInv, DeqTicketsTaken, DeqAtSlot
<1>6. LooksKept' BY <1>1, <1>2 DEF SlotInv, LooksKept, EnqPcs
<1>7. LooksPast' BY <1>1, <1>2 DEF SlotInv, LooksPast, Live
<1>8. \A n : Expected(n) \/ n = head => Expected(n)'
  BY <1>1, <1>2 DEF Expected
<1>9. GoneLeftMark'
  <2>1. \A n \in 0 .. head' - 1 : n \in 0 .. head - 1 \/ n = head BY <1>1, <1>2
  <2>2. QED BY <1>1, <1>8, <2>1 DEF SlotInv, GoneLeftMark
<1>10. InsertInTime'
  <2>1. \A u \in Threads : \A n \in tkt[u] .. head' - 1 : n \in tkt[u] .. head - 1 \/ n = head
    BY <1>1, <1>2
  <2>2. QED BY <1>1, <1>2, <1>8, <2>1 DEF SlotInv, InsertInTime
<1>11. ConsumeFindsItem' BY <1>1, <1>2 DEF SlotInv, ConsumeFindsItem, Origin
<1>12. NoneStranded'
  <2>1. \A s \in Slots : Claimed(s) => Claimed(s)'
    BY <1>1, <1>2 DEF Claimed, Origin, DeqAtSlot
  <2>2. \A s \in Slots : Origin(s) = head => Claimed(s)'
    BY <1>1, <1>2 DEF Claimed, Origin, DeqAtSlot
  <2>3. \A s \in Slots : Origin(s) \in Nat BY Ranges, OriginFacts
  <2>4. \A s \in Slots : Origin(s) < head + 1 => Origin(s) < head \/ Origin(s) = head
    BY <1>2, <2>3
  <2>5. QED BY <1>1, <2>1, <2>2, <2>4 DEF SlotInv, NoneStranded, Live, Origin
<1>13. QED
  BY <1>3, <1>4, <1>5, <1>6, <1>7, <1>9, <1>10, <1>11, <1>12 DEF SlotInv

(***************************************************************************)
(* A thread at a slot looks at it, or acts on what it saw, and changes no  *)
(* slot: only what the invariant says of this thread has to be shown.      *)
(***************************************************************************)
LookGood(t) ==
  /\ pc[t] \in EnqPcs => idx[t] \in Indices
  /\ pc[t] \in {"enq_head", "enq_cas", "deq_cas"} => Behind(ent[t].cycle, CycleOf(tkt[t]))
  /\ pc[t] = "enq_cas" => ~Real(ent[t])
  /\ pc[t] = "deq_consume" => Real(ent[t])
  /\ pc[t] \in {"enq_head", "enq_cas"} =>
       \E k \in 0 .. lap[Slot(tkt[t])] :
         /\ ent[t].cycle = k % CycleMod /\ Near(k, LapOf(tkt[t]))
         /\ Live(Slot(tkt[t])) => Real(ent[t]) \/ k < lap[Slot(tkt[t])]
  /\ pc[t] = "deq_consume" => /\ entry[Slot(tkt[t])].index = ent[t].index
                              /\ Origin(Slot(tkt[t])) = tkt[t]

InTime(t) ==
  pc[t] = "enq_cas" /\ entry[Slot(tkt[t])] = ent[t] =>
    \A n \in tkt[t] .. head - 1 : Slot(n) = Slot(tkt[t]) => Expected(n)

\* An insertion that is about to succeed comes before its lap and all later ones.
LEMMA SlotBehindInserter ==
  ASSUME RingAssumptions, RingTypeOK, SlotInv, NEW u \in Threads, pc[u] = "enq_cas",
         entry[Slot(tkt[u])] = ent[u]
  PROVE  lap[Slot(tkt[u])] < LapOf(tkt[u])
<1>1. Behind(entry[Slot(tkt[u])].cycle, CycleOf(tkt[u])) BY DEF SlotInv, LooksKept
<1>2. QED BY <1>1, SlotCompare DEF SlotInv, AtSlot

LEMMA LookStep ==
  ASSUME RingAssumptions, RingTypeOK, SlotInv, NEW t \in Threads, pc[t] \in AtSlot,
         UNCHANGED <<head, entry, lap, tkt>>,
         \A u \in Threads \ {t} : pc'[u] = pc[u] /\ ent'[u] = ent[u] /\ idx'[u] = idx[u],
         pc'[t] \in DeqAtSlot => pc[t] \in DeqAtSlot,
         pc[t] \in {"deq_load", "deq_cas"} =>
           pc'[t] \in {"deq_load", "deq_cas"} \/ LapOf(tkt[t]) <= lap[Slot(tkt[t])],
         pc[t] \in DeqAtSlot => pc'[t] \in DeqAtSlot \/ ~ Live(Slot(tkt[t]))
                                  \/ lap[Slot(tkt[t])] # LapOf(tkt[t]),
         LookGood(t)', InTime(t)'
  PROVE  SlotInv'
<1>1. CyclesFollowLaps' BY DEF SlotInv, CyclesFollowLaps
<1>2. StallsBounded' BY DEF SlotInv, StallsBounded
<1>3. DeqTicketsTaken' BY DEF SlotInv, DeqTicketsTaken
<1>4. LooksKept' BY DEF SlotInv, LooksKept, LookGood
<1>5. LooksPast' BY DEF SlotInv, LooksPast, LookGood, Live
<1>6. ConsumeFindsItem' BY DEF SlotInv, ConsumeFindsItem, LookGood, Origin
<1>7. \A n : Expected(n) => Expected(n)' \/ (n = tkt[t] /\ LapOf(n) <= lap[Slot(n)])
  BY DEF Expected
<1>8. GoneLeftMark' BY <1>7 DEF SlotInv, GoneLeftMark
<1>9. InsertInTime'
  <2>1. SUFFICES ASSUME NEW u \in Threads, u # t, pc[u] = "enq_cas",
                        entry[Slot(tkt[u])] = ent[u],
                        NEW n \in tkt[u] .. head - 1, Slot(n) = Slot(tkt[u])
                 PROVE  Expected(n)'
    BY DEF InsertInTime, InTime
  <2>2. Expected(n) BY <2>1 DEF SlotInv, InsertInTime
  <2>3. lap[Slot(tkt[u])] < LapOf(tkt[u]) BY <2>1, SlotBehindInserter
  <2>4. tkt[u] \in Nat /\ head \in Nat BY Ranges
  <2>5. n \in Nat /\ tkt[u] <= n BY <2>1, <2>4
  <2>6. LapOf(tkt[u]) <= LapOf(n) BY <2>4, <2>5, LapMonotone
  <2>7. LapOf(n) \in Nat /\ LapOf(tkt[u]) \in Nat /\ lap[Slot(n)] \in Nat
    BY <2>1, <2>5, Ranges, SlotFacts
  <2>8. ~ (LapOf(n) <= lap[Slot(n)]) BY <2>1, <2>3, <2>6, <2>7
  <2>9. QED BY <1>7, <2>2, <2>8
<1>10. NoneStranded'
  <2>1. \A s \in Slots : Live(s) /\ Claimed(s) => Claimed(s)'
    <3>1. SUFFICES ASSUME NEW s \in Slots, Live(s), pc[t] \in DeqAtSlot, tkt[t] = Origin(s)
                   PROVE  pc'[t] \in DeqAtSlot
      BY DEF Claimed, Origin
    <3>2. Slot(tkt[t]) = s /\ LapOf(tkt[t]) = lap[s] BY <3>1, Ranges, OriginFacts
    <3>3. QED BY <3>1, <3>2
  <2>2. QED BY <2>1 DEF SlotInv, NoneStranded, Live, Origin
<1>11. QED
  BY <1>1, <1>2, <1>3, <1>4, <1>5, <1>6, <1>8, <1>9, <1>10 DEF SlotInv

LEMMA EnqLookPreserves ==
  ASSUME RingAssumptions, RingTypeOK, SlotInv, NEW t \in Threads, pc[t] \in {"enq_load",
         "enq_cas"}, EnqLook(t),
         UNCHANGED <<head, entry, lap, tkt, idx>>
  PROVE  SlotInv'
<1> DEFINE e == entry[Slot(tkt[t])]
           n == tkt[t]
<1>1. /\ pc' = [pc EXCEPT ![t] = AfterEnqLook(e, n)] /\ ent' = [ent EXCEPT ![t] = e]
      /\ pc \in [Threads -> {"idle"} \cup EnqPcs \cup DeqPcs]
      /\ ent \in [Threads -> Entries]
  BY DEF EnqLook, GoTo, RingTypeOK
<1>2. pc'[t] = AfterEnqLook(e, n) /\ ent'[t] = e BY <1>1
<1>3. n \in Nat /\ head \in Nat /\ Slot(n) \in Slots /\ lap[Slot(n)] \in Nat /\ LapOf(n) \in Nat
  BY Ranges
<1>4. pc'[t] \in {"enq_head", "enq_cas"} => Behind(e.cycle, CycleOf(n)) /\ lap[Slot(n)] < LapOf(n)
  <2>1. Behind(e.cycle, CycleOf(n)) <=> lap[Slot(n)] < LapOf(n)
    BY SlotCompare DEF SlotInv, AtSlot
  <2>2. QED BY <1>2, <2>1 DEF AfterEnqLook
<1>5. pc'[t] = "enq_cas" => ~ Real(e) /\ e.safe BY <1>2 DEF AfterEnqLook
<1>6. pc'[t] \in {"enq_faa", "enq_head", "enq_cas"} BY <1>2 DEF AfterEnqLook
<1>7. LookGood(t)'
  <2>1. idx'[t] \in Indices BY DEF SlotInv, LooksKept, EnqPcs
  <2>2. e.cycle = lap[Slot(n)] % CycleMod /\ Near(lap[Slot(n)], LapOf(n))
    BY <1>3 DEF SlotInv, CyclesFollowLaps, StallsBounded, AtSlot, Near
  <2>3. lap[Slot(n)] \in 0 .. lap[Slot(n)] BY <1>3
  <2>4. QED BY <1>2, <1>4, <1>5, <1>6, <2>1, <2>2, <2>3 DEF LookGood, Live
<1>8. InTime(t)'
  <2>1. SUFFICES ASSUME pc'[t] = "enq_cas", NEW m \in n .. head - 1, Slot(m) = Slot(n)
                 PROVE  Expected(m)'
    BY DEF InTime
  <2>2. m \in Nat /\ n <= m /\ m \in 0 .. head - 1 BY <1>3, <2>1
  <2>3. LapOf(n) <= LapOf(m) /\ LapOf(m) \in Nat BY <1>3, <2>2, LapMonotone, SlotFacts
  <2>4. ~ (LapOf(m) <= lap[Slot(m)]) BY <1>3, <1>4, <2>1, <2>3
  <2>5. entry[Slot(m)].safe BY <1>5, <2>1
  <2>6. Expected(m) BY <2>2, <2>4, <2>5 DEF SlotInv, GoneLeftMark
  <2>7. QED BY <1>1, <2>6 DEF Expected
<1>9. \A u \in Threads \ {t} : pc'[u] = pc[u] /\ ent'[u] = ent[u] /\ idx'[u] = idx[u]
  BY <1>1
<1>10. pc[t] \in AtSlot /\ pc[t] \notin DeqAtSlot /\ pc'[t] \notin DeqAtSlot
  BY <1>6 DEF AtSlot, DeqAtSlot
<1>11. QED BY <1>7, <1>8, <1>9, <1>10, LookStep DEF DeqAtSlot

\* An enqueuer that head has not passed has all its dequeuers to come.
LEMMA EnqHeadPreserves ==
  ASSUME RingAssumptions, RingTypeOK, SlotInv, NEW t \in Threads, EnqHead(t)
  PROVE  SlotInv'
<1>1. /\ pc[t] = "enq_head" /\ UNCHANGED <<head, entry, lap, tkt, idx, ent>>
      /\ pc' = [pc EXCEPT ![t] = IF head <= tkt[t] /\ ~Real(ent[t]) THEN "enq_cas" ELSE "enq_faa"]
      /\ pc \in [Threads -> {"idle"} \cup EnqPcs \cup DeqPcs]
  BY DEF EnqHead, GoTo, RingTypeOK, ringVars
<1>2. pc'[t] = "enq_cas" => head <= tkt[t] /\ ~Real(ent[t]) BY <1>1
<1>3. pc'[t] \in {"enq_faa", "enq_cas"} BY <1>1
<1>4. LookGood(t)' BY <1>1, <1>2, <1>3 DEF SlotInv, LooksKept, LooksPast, LookGood, EnqPcs, Live
<1>5. InTime(t)'
  <2>1. tkt[t] \in Nat /\ head \in Nat BY Ranges
  <2>2. pc'[t] = "enq_cas" => \A n \in tkt[t] .. head - 1 : FALSE BY <1>2, <2>1
  <2>3. QED BY <1>1, <2>2 DEF InTime
<1>6. \A u \in Threads \ {t} : pc'[u] = pc[u] /\ ent'[u] = ent[u] /\ idx'[u] = idx[u]
  BY <1>1
<1>7. pc[t] \in AtSlot /\ pc[t] \notin DeqAtSlot /\ pc'[t] \notin DeqAtSlot
  BY <1>1, <1>3 DEF AtSlot, DeqAtSlot
<1>8. UNCHANGED <<head, entry, lap, tkt>> BY <1>1
<1>9. QED BY <1>4, <1>5, <1>6, <1>7, <1>8, LookStep DEF DeqAtSlot

\* A dequeuer goes on only from a slot that has reached its lap, and consumes what
\* it came for.
LEMMA DeqLookPreserves ==
  ASSUME RingAssumptions, RingTypeOK, SlotInv, NEW t \in Threads, pc[t] \in {"deq_load",
         "deq_cas"}, DeqLook(t),
         UNCHANGED <<head, entry, lap, tkt, idx>>
  PROVE  SlotInv'
<1> DEFINE e == entry[Slot(tkt[t])]
           n == tkt[t]
<1>1. /\ pc' = [pc EXCEPT ![t] = AfterDeqLook(e, n)] /\ ent' = [ent EXCEPT ![t] = e]
      /\ pc \in [Threads -> {"idle"} \cup EnqPcs \cup DeqPcs]
      /\ ent \in [Threads -> Entries]
  BY DEF DeqLook, GoTo, RingTypeOK
<1>2. pc'[t] = AfterDeqLook(e, n) /\ ent'[t] = e BY <1>1
<1>3. n \in Nat /\ Slot(n) \in Slots /\ lap[Slot(n)] \in Nat /\ LapOf(n) \in Nat
  BY Ranges
<1>4. /\ e.cycle = CycleOf(n) <=> lap[Slot(n)] = LapOf(n)
      /\ Behind(e.cycle, CycleOf(n)) <=> lap[Slot(n)] < LapOf(n)
  BY SlotCompare DEF SlotInv, AtSlot, DeqAtSlot
<1>5. pc'[t] = "deq_consume" => lap[Slot(n)] = LapOf(n) /\ Real(e)
  BY <1>2, <1>4 DEF AfterDeqLook
<1>6. pc'[t] = "deq_cas" => Behind(e.cycle, CycleOf(n)) BY <1>2 DEF AfterDeqLook
<1>7. pc'[t] = "deq_tail" => /\ ~ (lap[Slot(n)] < LapOf(n))
                            /\ ~ (lap[Slot(n)] = LapOf(n) /\ Real(e))
  BY <1>2, <1>4 DEF AfterDeqLook
<1>8. pc'[t] \in {"deq_consume", "deq_cas", "deq_tail"} BY <1>2 DEF AfterDeqLook
<1>9. LookGood(t)'
  <2>1. pc'[t] = "deq_consume" => Origin(Slot(n)) = n
    BY <1>3, <1>5, OriginFacts, TicketUnique
  <2>2. QED BY <1>2, <1>5, <1>6, <1>8, <2>1 DEF LookGood, EnqPcs, Origin
<1>10. InTime(t)' BY <1>8 DEF InTime
<1>11. \A u \in Threads \ {t} : pc'[u] = pc[u] /\ ent'[u] = ent[u] /\ idx'[u] = idx[u]
  BY <1>1
<1>12. pc[t] \in AtSlot /\ pc[t] \in DeqAtSlot BY DEF AtSlot, DeqAtSlot
<1>13. pc'[t] \in {"deq_load", "deq_cas"} \/ LapOf(tkt[t]) <= lap[Slot(tkt[t])]
  BY <1>3, <1>5, <1>7, <1>8
<1>14. \/ pc'[t] \in DeqAtSlot \/ ~ Live(Slot(tkt[t])) \/ lap[Slot(tkt[t])] # LapOf(tkt[t])
  BY <1>7, <1>8 DEF DeqAtSlot, Live
<1>15. QED BY <1>9, <1>10, <1>11, <1>12, <1>13, <1>14, LookStep

(***************************************************************************)
(* Steps that write a slot                                                 *)
(***************************************************************************)

\* What an enqueuer saw, if it is not what is there, is not taken for it.
LEMMA SeenIsNotThere ==
  ASSUME RingAssumptions, NEW k \in Nat, NEW j \in Nat, NEW n \in Nat,
         Near(k, n), Near(n, j), k % CycleMod = j % CycleMod
  PROVE  k = j
<1>1. CycleMod \in Nat \ {0} /\ Half \in Nat \ {0} /\ CycleMod = 2 * Half BY SizeFacts
<1>2. k < j + CycleMod /\ j < k + CycleMod BY <1>1 DEF Near, Half
<1>3. QED BY <1>1, <1>2, NearModEqual

LEMMA InsertPreserves ==
  ASSUME RingAssumptions, RingTypeOK, SlotInv, NEW t \in Threads, pc[t] = "enq_cas",
         Insert(t),
         UNCHANGED <<head, tkt, idx>>
  PROVE  SlotInv'
<1>0. PICK T \in Nat, S \in Slots : T = tkt[t] /\ S = Slot(tkt[t]) BY Ranges
<1>1. /\ entry[S] = ent[t] /\ UNCHANGED <<head, tkt, idx, ent>>
      /\ entry' = [entry EXCEPT ![S] = [cycle |-> CycleOf(T), safe |-> TRUE, index |-> idx[t]]]
      /\ lap' = [lap EXCEPT ![S] = LapOf(T)]
      /\ pc' = [pc EXCEPT ![t] = "enq_threshold"]
  BY <1>0 DEF Insert, GoTo
<1>2. /\ pc \in [Threads -> {"idle"} \cup EnqPcs \cup DeqPcs]
      /\ entry \in [Slots -> Entries] /\ lap \in [Slots -> Nat]
  BY DEF RingTypeOK
<1>3. head \in Nat /\ lap[S] \in Nat /\ LapOf(T) \in Nat BY <1>0, Ranges
<1>4. lap[S] < LapOf(T) BY <1>0, <1>1, SlotBehindInserter
<1>5. ~ Real(ent[t]) /\ idx[t] \in Indices BY DEF SlotInv, LooksKept, EnqPcs
<1>6. /\ entry'[S] = [cycle |-> CycleOf(T), safe |-> TRUE, index |-> idx[t]]
      /\ lap'[S] = LapOf(T) /\ pc'[t] = "enq_threshold"
      /\ \A s \in Slots \ {S} : entry'[s] = entry[s] /\ lap'[s] = lap[s]
      /\ \A u \in Threads \ {t} : pc'[u] = pc[u]
  BY <1>1, <1>2, <1>3
<1>7. Real(entry'[S]) BY <1>5, <1>6 DEF Real
<1>8. \A u \in Threads : tkt[u] \in Nat /\ Slot(tkt[u]) \in Slots BY Ranges
<1>9. \A n : Expected(n) => Expected(n)' BY <1>1, <1>6 DEF Expected
<1>10. CyclesFollowLaps' BY <1>3, <1>6 DEF SlotInv, CyclesFollowLaps, CycleOf
<1>11. StallsBounded'
  <2>1. SUFFICES ASSUME NEW u \in Threads, u # t, pc[u] \in AtSlot
                 PROVE  Near(LapOf(tkt[u]), lap'[Slot(tkt[u])])
    BY <1>1, <1>6 DEF SlotInv, StallsBounded, AtSlot, DeqAtSlot, Near
  <2>2. CASE Slot(tkt[u]) = S
    BY <1>0, <1>6, <2>1, <2>2 DEF SlotInv, StallsBounded, AtSlot
  <2>3. CASE Slot(tkt[u]) # S
    BY <1>6, <1>8, <2>1, <2>3 DEF SlotInv, StallsBounded
  <2>4. QED BY <2>2, <2>3
<1>12. DeqTicketsTaken' BY <1>1, <1>6 DEF SlotInv, DeqTicketsTaken, DeqAtSlot
<1>13. LooksKept' BY <1>1, <1>6 DEF SlotInv, LooksKept, EnqPcs
<1>14. LooksPast'
  <2>1. SUFFICES ASSUME NEW u \in Threads, u # t, pc[u] \in {"enq_head", "enq_cas"}
                 PROVE  \E k \in 0 .. lap'[Slot(tkt[u])] :
                          /\ ent[u].cycle = k % CycleMod /\ Near(k, LapOf(tkt[u]))
                          /\ Live(Slot(tkt[u]))' => Real(ent[u]) \/ k < lap'[Slot(tkt[u])]
    BY <1>1, <1>6 DEF LooksPast, Live
  <2>2. PICK k \in 0 .. lap[Slot(tkt[u])] :
          /\ ent[u].cycle = k % CycleMod /\ Near(k, LapOf(tkt[u]))
          /\ Live(Slot(tkt[u])) => Real(ent[u]) \/ k < lap[Slot(tkt[u])]
    BY <2>1 DEF SlotInv, LooksPast
  <2>3. CASE Slot(tkt[u]) = S
    <3>1. k \in 0 .. lap'[Slot(tkt[u])] /\ k < lap'[Slot(tkt[u])]
      BY <1>3, <1>4, <1>6, <2>2, <2>3
    <3>2. QED BY <2>2, <3>1
  <2>4. CASE Slot(tkt[u]) # S
    BY <1>1, <1>6, <1>8, <2>2, <2>4 DEF Live
  <2>5. QED BY <2>3, <2>4
<1>15. GoneLeftMark'
  <2>1. SUFFICES ASSUME NEW n \in 0 .. head - 1, ~ Expected(n)'
                 PROVE  LapOf(n) <= lap'[Slot(n)] \/ ~ entry'[Slot(n)].safe
    BY <1>1 DEF GoneLeftMark
  <2>2. n \in Nat /\ ~ Expected(n) /\ Slot(n) \in Slots
    BY <1>3, <1>9, <2>1, SlotFacts
  <2>3. CASE Slot(n) = S
    <3>1. ~ (n \in T .. head - 1) BY <1>0, <1>1, <2>2, <2>3 DEF SlotInv, InsertInTime
    <3>2. n <= T BY <1>3, <2>1, <2>2, <3>1
    <3>3. QED BY <1>3, <1>6, <2>2, <2>3, <3>2, LapMonotone
  <2>4. CASE Slot(n) # S BY <1>6, <2>2, <2>4 DEF SlotInv, GoneLeftMark
  <2>5. QED BY <2>3, <2>4
<1>16. InsertInTime'
  <2>1. SUFFICES ASSUME NEW u \in Threads, u # t, pc[u] = "enq_cas",
                        entry'[Slot(tkt[u])] = ent[u],
                        NEW n \in tkt[u] .. head - 1, Slot(n) = Slot(tkt[u])
                 PROVE  Expected(n)'
    BY <1>1, <1>6 DEF InsertInTime
  <2>2. ~ Real(ent[u]) BY <2>1 DEF SlotInv, LooksKept
  <2>3. Slot(tkt[u]) # S BY <1>7, <2>1, <2>2
  <2>4. QED BY <1>6, <1>8, <1>9, <2>1, <2>3 DEF SlotInv, InsertInTime
<1>17. ConsumeFindsItem'
  <2>1. SUFFICES ASSUME NEW u \in Threads, u # t, pc[u] = "deq_consume"
                 PROVE  /\ entry'[Slot(tkt[u])].index = ent[u].index
                        /\ Origin(Slot(tkt[u]))' = tkt[u]
    BY <1>1, <1>6 DEF ConsumeFindsItem, Origin
  <2>2. Real(ent[u]) /\ entry[Slot(tkt[u])].index = ent[u].index
    BY <2>1 DEF SlotInv, LooksKept, ConsumeFindsItem
  <2>3. Slot(tkt[u]) # S BY <1>1, <1>5, <2>2 DEF Real
  <2>4. QED BY <1>1, <1>6, <1>8, <2>1, <2>3 DEF SlotInv, ConsumeFindsItem, Origin
<1>18. NoneStranded'
  <2>1. \A s \in Slots \ {S} : Claimed(s) => Claimed(s)'
    BY <1>1, <1>6 DEF Claimed, Origin, DeqAtSlot
  <2>2. Origin(S)' = T
    <3>1. T = NumSlots * LapOf(T) + S BY <1>0, SlotFacts
    <3>2. QED BY <1>6, <3>1, Zenon DEF Origin
  <2>3. T < head => Claimed(S)'
    <3>1. SUFFICES ASSUME T < head PROVE Claimed(S)' OBVIOUS
    <3>2. T \in T .. head - 1 BY <1>3, <3>1
    <3>3. Expected(T) BY <1>0, <1>1, <3>2 DEF SlotInv, InsertInTime
    <3>4. PICK u \in Threads : pc'[u] \in {"deq_load", "deq_cas"} /\ tkt'[u] = T
      BY <1>9, <3>3 DEF Expected
    <3>5. QED BY <2>2, <3>4 DEF Claimed, DeqAtSlot
  <2>4. QED BY <1>1, <1>6, <2>1, <2>2, <2>3 DEF SlotInv, NoneStranded, Live, Origin
<1>19. QED
  BY <1>10, <1>11, <1>12, <1>13, <1>14, <1>15, <1>16, <1>17, <1>18 DEF SlotInv

\* A dequeuer that came before its item marks the item of an earlier lap ...
LEMMA MarkPreserves ==
  ASSUME RingAssumptions, RingTypeOK, SlotInv, NEW t \in Threads, pc[t] = "deq_cas",
         UNCHANGED <<head, tkt, idx, ent, lap>>,
         Real(ent[t]), entry[Slot(tkt[t])] = ent[t],
         entry' = [entry EXCEPT ![Slot(tkt[t])] = [ent[t] EXCEPT !.safe = FALSE]],
         pc' = [pc EXCEPT ![t] = "deq_tail"]
  PROVE  SlotInv'
<1>0. PICK T \in Nat, S \in Slots : T = tkt[t] /\ S = Slot(tkt[t]) BY Ranges
<1>1. /\ pc \in [Threads -> {"idle"} \cup EnqPcs \cup DeqPcs]
      /\ entry \in [Slots -> Entries] /\ ent \in [Threads -> Entries]
  BY DEF RingTypeOK
<1>2. /\ entry'[S].cycle = entry[S].cycle /\ entry'[S].index = entry[S].index
      /\ entry'[S].safe = FALSE /\ pc'[t] = "deq_tail"
      /\ \A s \in Slots \ {S} : entry'[s] = entry[s]
      /\ \A u \in Threads \ {t} : pc'[u] = pc[u]
  BY <1>0, <1>1 DEF Entries
<1>3. Real(entry[S]) /\ Real(entry'[S]) BY <1>0, <1>2 DEF Real
<1>4. lap[S] < LapOf(T) /\ lap[S] \in Nat /\ LapOf(T) \in Nat
  <2>1. Behind(entry[S].cycle, CycleOf(T)) BY <1>0 DEF SlotInv, LooksKept
  <2>2. QED BY <1>0, <2>1, SlotCompare, Ranges DEF SlotInv, AtSlot, DeqAtSlot
<1>5. \A u \in Threads : Slot(tkt[u]) \in Slots BY Ranges
<1>6. \A n : Expected(n) => Expected(n)' \/ Slot(n) = S BY <1>0, <1>2 DEF Expected
<1>7. \A s \in Slots : /\ Live(s)' <=> Live(s)
                       /\ Origin(s)' = Origin(s) /\ lap'[s] = lap[s]
                       /\ entry'[s].index = entry[s].index
                       /\ entry'[s].cycle = entry[s].cycle
                       /\ entry'[s].safe => entry[s].safe
  BY <1>2 DEF Live, Real, Origin
<1>8. CyclesFollowLaps' BY <1>7 DEF SlotInv, CyclesFollowLaps
<1>9. StallsBounded' BY <1>2 DEF SlotInv, StallsBounded, AtSlot, DeqAtSlot
<1>10. DeqTicketsTaken' BY <1>2 DEF SlotInv, DeqTicketsTaken, DeqAtSlot
<1>11. LooksKept' BY <1>2 DEF SlotInv, LooksKept, EnqPcs
<1>12. LooksPast' BY <1>2, <1>5, <1>7 DEF SlotInv, LooksPast
<1>13. GoneLeftMark'
  <2>1. \A n \in 0 .. head - 1 : n \in Nat /\ Slot(n) \in Slots BY Ranges, SlotFacts
  <2>2. QED BY <1>2, <1>6, <1>7, <2>1 DEF SlotInv, GoneLeftMark
<1>14. InsertInTime'
  <2>1. SUFFICES ASSUME NEW u \in Threads, u # t, pc[u] = "enq_cas",
                        entry'[Slot(tkt[u])] = ent[u],
                        NEW n \in tkt[u] .. head - 1, Slot(n) = Slot(tkt[u])
                 PROVE  Expected(n)'
    BY <1>2 DEF InsertInTime
  <2>2. ~ Real(ent[u]) BY <2>1 DEF SlotInv, LooksKept
  <2>3. Slot(tkt[u]) # S BY <1>3, <2>1, <2>2
  <2>4. QED BY <1>2, <1>5, <1>6, <2>1, <2>3 DEF SlotInv, InsertInTime
<1>15. ConsumeFindsItem' BY <1>2, <1>5, <1>7 DEF SlotInv, ConsumeFindsItem
<1>16. NoneStranded'
  <2>1. \A s \in Slots : Claimed(s) => Claimed(s)'
    <3>1. tkt[t] # Origin(S) BY <1>0, <1>4, OriginFacts
    <3>2. \A s \in Slots \ {S} : tkt[t] # Origin(s) BY <1>0, Ranges, OriginFacts
    <3>3. QED BY <1>2, <1>7, <3>1, <3>2 DEF Claimed
  <2>2. QED BY <1>7, <2>1 DEF SlotInv, NoneStranded
<1>17. QED
  BY <1>8, <1>9, <1>10, <1>11, <1>12, <1>13, <1>14, <1>15, <1>16 DEF SlotInv

\* ... and leaves its own cycle in an entry that holds none.
LEMMA SpoilPreserves ==
  ASSUME RingAssumptions, RingTypeOK, SlotInv, NEW t \in Threads, pc[t] = "deq_cas",
         UNCHANGED <<head, tkt, idx, ent>>,
         ~ Real(ent[t]), entry[Slot(tkt[t])] = ent[t],
         entry' = [entry EXCEPT ![Slot(tkt[t])] =
                     [ent[t] EXCEPT !.cycle = CycleOf(tkt[t]), !.index = Bot]],
         lap' = [lap EXCEPT ![Slot(tkt[t])] = LapOf(tkt[t])],
         pc' = [pc EXCEPT ![t] = "deq_tail"]
  PROVE  SlotInv'
<1>0. PICK T \in Nat, S \in Slots : T = tkt[t] /\ S = Slot(tkt[t]) BY Ranges
<1>1. /\ pc \in [Threads -> {"idle"} \cup EnqPcs \cup DeqPcs]
      /\ entry \in [Slots -> Entries] /\ ent \in [Threads -> Entries]
      /\ lap \in [Slots -> Nat]
  BY DEF RingTypeOK
<1>2. /\ entry'[S].cycle = CycleOf(T) /\ entry'[S].index = Bot
      /\ entry'[S].safe = entry[S].safe /\ lap'[S] = LapOf(T) /\ pc'[t] = "deq_tail"
      /\ \A s \in Slots \ {S} : entry'[s] = entry[s] /\ lap'[s] = lap[s]
      /\ \A u \in Threads \ {t} : pc'[u] = pc[u]
  BY <1>0, <1>1 DEF Entries
<1>3. ~ Real(entry[S]) /\ ~ Real(entry'[S])
  <2>1. Bot \notin Indices BY SizeFacts DEF Bot, Indices
  <2>2. QED BY <1>0, <1>2, <2>1 DEF Real
<1>4. lap[S] < LapOf(T) /\ lap[S] \in Nat /\ LapOf(T) \in Nat
  <2>1. Behind(entry[S].cycle, CycleOf(T)) BY <1>0 DEF SlotInv, LooksKept
  <2>2. QED BY <1>0, <2>1, SlotCompare, Ranges DEF SlotInv, AtSlot, DeqAtSlot
<1>5. \A u \in Threads : Slot(tkt[u]) \in Slots /\ tkt[u] \in Nat BY Ranges
<1>6. \A n : Expected(n) => Expected(n)' \/ n = T BY <1>0, <1>2 DEF Expected
<1>7. CyclesFollowLaps' BY <1>2 DEF SlotInv, CyclesFollowLaps, CycleOf
<1>8. StallsBounded'
  <2>1. SUFFICES ASSUME NEW u \in Threads, u # t, pc[u] \in AtSlot
                 PROVE  Near(LapOf(tkt[u]), lap'[Slot(tkt[u])])
    BY <1>2 DEF SlotInv, StallsBounded, AtSlot, DeqAtSlot, Near
  <2>2. CASE Slot(tkt[u]) = S
    BY <1>0, <1>2, <2>1, <2>2 DEF SlotInv, StallsBounded, AtSlot, DeqAtSlot
  <2>3. CASE Slot(tkt[u]) # S
    BY <1>2, <1>5, <2>1, <2>3 DEF SlotInv, StallsBounded
  <2>4. QED BY <2>2, <2>3
<1>9. DeqTicketsTaken' BY <1>2 DEF SlotInv, DeqTicketsTaken, DeqAtSlot
<1>10. LooksKept' BY <1>2 DEF SlotInv, LooksKept, EnqPcs
<1>11. LooksPast'
  <2>1. SUFFICES ASSUME NEW u \in Threads, u # t, pc[u] \in {"enq_head", "enq_cas"}
                 PROVE  \E k \in 0 .. lap'[Slot(tkt[u])] :
                          /\ ent[u].cycle = k % CycleMod /\ Near(k, LapOf(tkt[u]))
                          /\ Live(Slot(tkt[u]))' => Real(ent[u]) \/ k < lap'[Slot(tkt[u])]
    BY <1>2 DEF LooksPast, Live
  <2>2. PICK k \in 0 .. lap[Slot(tkt[u])] :
          /\ ent[u].cycle = k % CycleMod /\ Near(k, LapOf(tkt[u]))
          /\ Live(Slot(tkt[u])) => Real(ent[u]) \/ k < lap[Slot(tkt[u])]
    BY <2>1 DEF SlotInv, LooksPast
  <2>3. CASE Slot(tkt[u]) = S
    <3>1. k \in 0 .. lap'[Slot(tkt[u])] BY <1>2, <1>4, <2>2, <2>3
    <3>2. ~ Live(Slot(tkt[u]))' BY <1>3, <2>3 DEF Live
    <3>3. QED BY <2>2, <3>1, <3>2
  <2>4. CASE Slot(tkt[u]) # S BY <1>2, <1>5, <2>2, <2>4 DEF Live
  <2>5. QED BY <2>3, <2>4
<1>12. GoneLeftMark'
  <2>1. SUFFICES ASSUME NEW n \in 0 .. head - 1, ~ Expected(n)'
                 PROVE  LapOf(n) <= lap'[Slot(n)] \/ ~ entry'[Slot(n)].safe
    BY DEF GoneLeftMark
  <2>2. n \in Nat /\ Slot(n) \in Slots /\ LapOf(n) \in Nat BY <2>1, Ranges, SlotFacts
  <2>3. CASE n = T BY <1>0, <1>2, <1>4, <2>3
  <2>4. CASE n # T
    <3>1. LapOf(n) <= lap[Slot(n)] \/ ~ entry[Slot(n)].safe
      BY <1>6, <2>1, <2>4 DEF SlotInv, GoneLeftMark
    <3>2. QED BY <1>2, <1>4, <2>2, <3>1
  <2>5. QED BY <2>3, <2>4
<1>13. InsertInTime'
  <2>1. SUFFICES ASSUME NEW u \in Threads, u # t, pc[u] = "enq_cas",
                        entry'[Slot(tkt[u])] = ent[u],
                        NEW n \in tkt[u] .. head - 1, Slot(n) = Slot(tkt[u])
                 PROVE  Expected(n)'
    BY <1>2 DEF InsertInTime
  <2>2. CASE Slot(tkt[u]) # S
    BY <1>0, <1>2, <1>5, <1>6, <2>1, <2>2 DEF SlotInv, InsertInTime
  <2>3. CASE Slot(tkt[u]) = S
    <3>1. PICK k \in 0 .. lap[S] : ent[u].cycle = k % CycleMod /\ Near(k, LapOf(tkt[u]))
      BY <2>1, <2>3 DEF SlotInv, LooksPast
    <3>2. Near(LapOf(tkt[u]), LapOf(T))
      BY <1>0, <2>1 DEF SlotInv, StallsBounded, AtSlot, DeqAtSlot
    <3>3. k % CycleMod = LapOf(T) % CycleMod BY <1>2, <2>1, <2>3, <3>1 DEF CycleOf
    <3>4. k \in Nat /\ LapOf(tkt[u]) \in Nat BY <1>4, <1>5, SlotFacts
    <3>5. k = LapOf(T) BY <1>4, <3>1, <3>2, <3>3, <3>4, SeenIsNotThere
    <3>6. QED BY <1>4, <3>5
  <2>4. QED BY <2>2, <2>3
<1>14. ConsumeFindsItem'
  <2>1. SUFFICES ASSUME NEW u \in Threads, u # t, pc[u] = "deq_consume"
                 PROVE  /\ entry'[Slot(tkt[u])].index = ent[u].index
                        /\ Origin(Slot(tkt[u]))' = tkt[u]
    BY <1>2 DEF ConsumeFindsItem, Origin
  <2>2. Real(ent[u]) /\ entry[Slot(tkt[u])].index = ent[u].index
    BY <2>1 DEF SlotInv, LooksKept, ConsumeFindsItem
  <2>3. Slot(tkt[u]) # S BY <1>3, <2>2 DEF Real
  <2>4. /\ tkt'[u] = tkt[u] /\ lap'[Slot(tkt[u])] = lap[Slot(tkt[u])]
        /\ entry'[Slot(tkt[u])] = entry[Slot(tkt[u])]
    BY <1>2, <1>5, <2>3
  <2>5. Origin(Slot(tkt[u]))' = Origin(Slot(tkt[u])) BY <2>4, Zenon DEF Origin
  <2>6. QED BY <2>1, <2>4, <2>5 DEF SlotInv, ConsumeFindsItem
<1>15. NoneStranded'
  <2>1. \A s \in Slots \ {S} : Claimed(s) => Claimed(s)'
    <3>1. \A s \in Slots \ {S} : tkt[t] # Origin(s) BY <1>0, Ranges, OriginFacts
    <3>2. QED BY <1>2, <3>1 DEF Claimed, Origin
  <2>2. QED BY <1>2, <1>3, <2>1 DEF SlotInv, NoneStranded, Live, Origin
<1>16. QED
  BY <1>7, <1>8, <1>9, <1>10, <1>11, <1>12, <1>13, <1>14, <1>15 DEF SlotInv

\* A dequeuer that consumes is the only one with its ticket, and what it leaves has
\* been seen by no enqueuer yet.
LEMMA ConsumePreserves ==
  ASSUME RingAssumptions, RingTypeOK, SlotInv, NEW t \in Threads, DeqConsume(t)
  PROVE  SlotInv'
<1>0. PICK T \in Nat, S \in Slots : T = tkt[t] /\ S = Slot(tkt[t]) BY Ranges
<1>1. /\ pc \in [Threads -> {"idle"} \cup EnqPcs \cup DeqPcs]
      /\ entry \in [Slots -> Entries] /\ ent \in [Threads -> Entries]
      /\ tkt \in [Threads -> Nat] /\ idx \in [Threads -> 0 .. N]
  BY DEF RingTypeOK
<1>2. pc[t] = "deq_consume" /\ UNCHANGED <<head, lap>> BY DEF DeqConsume
<1>3. /\ entry'[S].cycle = entry[S].cycle /\ entry'[S].index = BotC
      /\ entry'[S].safe = entry[S].safe /\ pc'[t] = "idle"
      /\ \A s \in Slots \ {S} : entry'[s] = entry[s]
      /\ \A u \in Threads \ {t} : /\ pc'[u] = pc[u] /\ tkt'[u] = tkt[u]
                                  /\ ent'[u] = ent[u] /\ idx'[u] = idx[u]
  BY <1>0, <1>1 DEF Entries, DeqConsume, Return
<1>4. Real(entry[S]) /\ ~ Real(entry'[S]) /\ Origin(S) = T
  <2>1. BotC \notin Indices BY SizeFacts DEF BotC, Indices
  <2>2. QED BY <1>0, <1>2, <1>3, <2>1 DEF Real, SlotInv, LooksKept, ConsumeFindsItem
<1>5. \A u \in Threads : Slot(tkt[u]) \in Slots /\ LapOf(tkt[u]) \in Nat BY Ranges
<1>6. \A n : Expected(n) => Expected(n)' BY <1>2, <1>3 DEF Expected
<1>7. CyclesFollowLaps' BY <1>2, <1>3 DEF SlotInv, CyclesFollowLaps
<1>8. StallsBounded' BY <1>2, <1>3 DEF SlotInv, StallsBounded, AtSlot, DeqAtSlot
<1>9. DeqTicketsTaken' BY <1>2, <1>3 DEF SlotInv, DeqTicketsTaken, DeqAtSlot
<1>10. LooksKept' BY <1>3 DEF SlotInv, LooksKept, EnqPcs
<1>11. LooksPast'
  <2>1. \A s \in Slots : Live(s)' => Live(s) BY <1>3, <1>4 DEF Live
  <2>2. QED BY <1>2, <1>3, <1>5, <2>1 DEF SlotInv, LooksPast
<1>12. GoneLeftMark'
  <2>1. \A n \in 0 .. head - 1 : n \in Nat /\ Slot(n) \in Slots BY Ranges, SlotFacts
  <2>2. \A s \in Slots : entry'[s].safe = entry[s].safe BY <1>3
  <2>3. QED BY <1>2, <1>6, <2>1, <2>2 DEF SlotInv, GoneLeftMark
<1>13. InsertInTime'
  <2>1. SUFFICES ASSUME NEW u \in Threads, u # t, pc[u] = "enq_cas",
                        entry'[Slot(tkt[u])] = ent[u],
                        NEW n \in tkt[u] .. head - 1, Slot(n) = Slot(tkt[u])
                 PROVE  Expected(n)'
    BY <1>2, <1>3 DEF InsertInTime
  <2>2. CASE Slot(tkt[u]) # S
    BY <1>3, <1>5, <1>6, <2>1, <2>2 DEF SlotInv, InsertInTime
  <2>3. CASE Slot(tkt[u]) = S
    <3>1. ~ Real(ent[u]) BY <1>3, <1>4, <2>1, <2>3
    <3>2. PICK k \in 0 .. lap[S] : /\ ent[u].cycle = k % CycleMod
                                   /\ Near(k, LapOf(tkt[u])) /\ k < lap[S]
      BY <1>4, <2>1, <2>3, <3>1 DEF SlotInv, LooksPast, Live
    <3>3. Near(LapOf(tkt[u]), lap[S])
      BY <2>1, <2>3 DEF SlotInv, StallsBounded, AtSlot
    <3>4. k % CycleMod = lap[S] % CycleMod
      BY <1>3, <2>1, <2>3, <3>2 DEF SlotInv, CyclesFollowLaps
    <3>5. lap[S] \in Nat /\ k \in Nat BY Ranges
    <3>6. k = lap[S] BY <1>5, <3>2, <3>3, <3>4, <3>5, SeenIsNotThere
    <3>7. QED BY <3>2, <3>5, <3>6
  <2>4. QED BY <2>2, <2>3
<1>14. ConsumeFindsItem'
  <2>1. SUFFICES ASSUME NEW u \in Threads, u # t, pc[u] = "deq_consume"
                 PROVE  /\ entry'[Slot(tkt[u])].index = ent[u].index
                        /\ Origin(Slot(tkt[u]))' = tkt[u]
    BY <1>3 DEF ConsumeFindsItem, Origin
  <2>2. Origin(Slot(tkt[u])) = tkt[u] /\ entry[Slot(tkt[u])].index = ent[u].index
    BY <2>1 DEF SlotInv, ConsumeFindsItem
  <2>3. Slot(tkt[u]) # S
    BY <1>0, <1>2, <1>4, <2>1, <2>2 DEF SlotInv, DeqTicketsTaken, DeqAtSlot
  <2>4. /\ tkt'[u] = tkt[u] /\ lap'[Slot(tkt[u])] = lap[Slot(tkt[u])]
        /\ entry'[Slot(tkt[u])] = entry[Slot(tkt[u])]
    BY <1>2, <1>3, <1>5, <2>1, <2>3
  <2>5. Origin(Slot(tkt[u]))' = Origin(Slot(tkt[u])) BY <2>4, Zenon DEF Origin
  <2>6. QED BY <2>2, <2>4, <2>5
<1>15. NoneStranded'
  <2>1. \A s \in Slots \ {S} : Claimed(s) => Claimed(s)'
    <3>1. \A s \in Slots \ {S} : tkt[t] # Origin(s) BY <1>0, Ranges, OriginFacts
    <3>2. QED BY <1>2, <1>3, <3>1 DEF Claimed, Origin
  <2>2. QED BY <1>2, <1>3, <1>4, <2>1 DEF SlotInv, NoneStranded, Live, Origin
<1>16. QED
  BY <1>7, <1>8, <1>9, <1>10, <1>11, <1>12, <1>13, <1>14, <1>15 DEF SlotInv

-----------------------------------------------------------------------------
(***************************************************************************)
(* Every step                                                              *)
(***************************************************************************)

\* A step of a call, its start with an index or without one included.
RingAction(t) == (\E i \in Indices : EnqStart(t, i)) \/ DeqStart(t) \/ RingStep(t)

LEMMA StartPreserves ==
  ASSUME RingAssumptions, RingTypeOK, SlotInv, NEW t \in Threads,
         (\E i \in Indices : EnqStart(t, i)) \/ DeqStart(t)
  PROVE  SlotInv'
<1>1. /\ pc \in [Threads -> {"idle"} \cup EnqPcs \cup DeqPcs]
      /\ idx \in [Threads -> 0 .. N]
  BY DEF RingTypeOK
<1>2. CASE \E i \in Indices : EnqStart(t, i)
  <2>1. PICK i \in Indices : EnqStart(t, i) BY <1>2
  <2>2. /\ pc[t] = "idle" /\ UNCHANGED <<head, entry, lap, tkt, ent>>
        /\ pc' = [pc EXCEPT ![t] = "enq_faa"] /\ idx' = [idx EXCEPT ![t] = i]
    BY <2>1 DEF EnqStart, GoTo, ringVars
  <2>3. pc[t] \notin AtSlot /\ pc'[t] \notin AtSlot /\ idx'[t] \in Indices
    BY <1>1, <2>2 DEF AtSlot, DeqAtSlot
  <2>4. \A u \in Threads \ {t} : /\ pc'[u] = pc[u] /\ tkt'[u] = tkt[u]
                                 /\ ent'[u] = ent[u] /\ idx'[u] = idx[u]
    BY <1>1, <2>2
  <2>5. UNCHANGED <<head, entry, lap>> BY <2>2
  <2>6. QED BY <2>3, <2>4, <2>5, QuietStep
<1>3. CASE DeqStart(t)
  <2>1. /\ pc[t] = "idle" /\ UNCHANGED <<head, entry, lap, tkt, ent>>
        /\ pc' = [pc EXCEPT ![t] = IF threshold < 0 THEN "idle" ELSE "deq_faa"]
        /\ idx' = [idx EXCEPT ![t] = Bot]
    BY <1>3 DEF DeqStart, GoTo, ringVars
  <2>2. pc[t] \notin AtSlot /\ pc'[t] \notin AtSlot /\ pc'[t] \notin EnqPcs
    BY <1>1, <2>1 DEF AtSlot, DeqAtSlot, EnqPcs
  <2>3. \A u \in Threads \ {t} : /\ pc'[u] = pc[u] /\ tkt'[u] = tkt[u]
                                 /\ ent'[u] = ent[u] /\ idx'[u] = idx[u]
    BY <1>1, <2>1
  <2>4. UNCHANGED <<head, entry, lap>> BY <2>1
  <2>5. QED BY <2>2, <2>3, <2>4, QuietStep
<1>4. QED BY <1>2, <1>3

LEMMA EnqCasPreserves ==
  ASSUME RingAssumptions, RingTypeOK, SlotInv, NEW t \in Threads, EnqCas(t)
  PROVE  SlotInv'
<1>1. pc[t] = "enq_cas" /\ UNCHANGED <<head, tkt, idx>> BY DEF EnqCas
<1>2. CASE Insert(t) BY <1>1, <1>2, InsertPreserves
<1>3. CASE EnqLook(t) /\ UNCHANGED <<entry, lap>> BY <1>1, <1>3, EnqLookPreserves
<1>4. QED BY <1>2, <1>3 DEF EnqCas

LEMMA DeqCasPreserves ==
  ASSUME RingAssumptions, RingTypeOK, SlotInv, NEW t \in Threads, DeqCas(t)
  PROVE  SlotInv'
<1>1. pc[t] = "deq_cas" /\ UNCHANGED <<head, tkt, idx>> BY DEF DeqCas
<1>2. CASE /\ entry[Slot(tkt[t])] = ent[t]
           /\ entry' = [entry EXCEPT ![Slot(tkt[t])] = Spoiled(ent[t], tkt[t])]
           /\ lap' = [lap EXCEPT ![Slot(tkt[t])] = IF Real(ent[t]) THEN @ ELSE LapOf(tkt[t])]
           /\ GoTo(t, "deq_tail")
           /\ UNCHANGED ent
  <2>1. CASE Real(ent[t])
    <3>1. /\ lap' = lap
          /\ entry' = [entry EXCEPT ![Slot(tkt[t])] = [ent[t] EXCEPT !.safe = FALSE]]
      BY <1>2, <2>1, Ranges DEF RingTypeOK, Spoiled
    <3>2. QED BY <1>1, <1>2, <2>1, <3>1, MarkPreserves DEF GoTo
  <2>2. CASE ~ Real(ent[t])
    <3>1. /\ lap' = [lap EXCEPT ![Slot(tkt[t])] = LapOf(tkt[t])]
          /\ entry' = [entry EXCEPT ![Slot(tkt[t])] =
                         [ent[t] EXCEPT !.cycle = CycleOf(tkt[t]), !.index = Bot]]
      BY <1>2, <2>2 DEF Spoiled
    <3>2. QED BY <1>1, <1>2, <2>2, <3>1, SpoilPreserves DEF GoTo
  <2>3. QED BY <2>1, <2>2
<1>3. CASE DeqLook(t) /\ UNCHANGED <<entry, lap>> BY <1>1, <1>3, DeqLookPreserves
<1>4. QED BY <1>2, <1>3 DEF DeqCas

\* The steps of a call that are at no slot.
LEMMA ElsewherePreserves ==
  ASSUME RingAssumptions, RingTypeOK, SlotInv, NEW t \in Threads,
         \/ EnqThreshold(t) \/ EnqReset(t) \/ DeqTail(t) \/ DeqRetry(t) \/ DeqEmpty(t)
         \/ CatchupCas(t) \/ CatchupHead(t) \/ CatchupTail(t)
  PROVE  SlotInv'
<1>1. /\ pc \in [Threads -> {"idle"} \cup EnqPcs \cup DeqPcs]
      /\ idx \in [Threads -> 0 .. N] /\ tkt \in [Threads -> Nat] /\ ent \in [Threads -> Entries]
  BY DEF RingTypeOK
<1>2. UNCHANGED <<head, entry, lap>>
  BY DEF EnqThreshold, EnqReset, DeqTail, DeqRetry, DeqEmpty, CatchupCas, CatchupHead,
         CatchupTail, ringVars
<1>3. \A u \in Threads \ {t} : /\ pc'[u] = pc[u] /\ tkt'[u] = tkt[u]
                               /\ ent'[u] = ent[u] /\ idx'[u] = idx[u]
  BY <1>1 DEF EnqThreshold, EnqReset, DeqTail, DeqRetry, DeqEmpty, CatchupCas, CatchupHead,
              CatchupTail, GoTo, Return
<1>4. CASE EnqThreshold(t)
  <2>1. pc[t] = "enq_threshold" /\ pc'[t] \in {"idle", "enq_reset"} /\
        (pc'[t] = "enq_reset" => idx'[t] = idx[t])
    BY <1>1, <1>4 DEF EnqThreshold, GoTo, Return
  <2>2. idx[t] \in Indices BY <2>1 DEF SlotInv, LooksKept, EnqPcs
  <2>3. QED BY <1>2, <1>3, <2>1, <2>2, QuietStep DEF AtSlot, DeqAtSlot, EnqPcs
<1>5. CASE ~ EnqThreshold(t)
  <2>1. pc[t] \notin AtSlot /\ pc'[t] \notin AtSlot /\ pc'[t] \notin EnqPcs
    BY <1>1, <1>5 DEF EnqReset, DeqTail, DeqRetry, DeqEmpty, CatchupCas, CatchupHead,
              CatchupTail, GoTo, Return, AtSlot, DeqAtSlot, EnqPcs
  <2>2. QED BY <1>2, <1>3, <2>1, QuietStep
<1>6. QED BY <1>4, <1>5

LEMMA SlotNext ==
  ASSUME RingAssumptions, RingTypeOK, SlotInv, NEW t \in Threads, RingAction(t)
  PROVE  SlotInv'
<1>1. CASE (\E i \in Indices : EnqStart(t, i)) \/ DeqStart(t)
  BY <1>1, StartPreserves
<1>2. CASE RingStep(t)
  <2>1. CASE EnqLoad(t)
    <3>1. pc[t] = "enq_load" /\ EnqLook(t) /\ UNCHANGED <<head, entry, lap, tkt, idx>>
      BY <2>1 DEF EnqLoad, ringVars
    <3>2. QED BY <3>1, EnqLookPreserves
  <2>2. CASE DeqLoad(t)
    <3>1. pc[t] = "deq_load" /\ DeqLook(t) /\ UNCHANGED <<head, entry, lap, tkt, idx>>
      BY <2>2 DEF DeqLoad, ringVars
    <3>2. QED BY <3>1, DeqLookPreserves
  <2>3. CASE EnqTicket(t) BY <2>3, EnqTicketPreserves
  <2>4. CASE DeqTicket(t) BY <2>4, DeqTicketPreserves
  <2>5. CASE EnqHead(t) BY <2>5, EnqHeadPreserves
  <2>6. CASE EnqCas(t) BY <2>6, EnqCasPreserves
  <2>7. CASE DeqCas(t) BY <2>7, DeqCasPreserves
  <2>8. CASE DeqConsume(t) BY <2>8, ConsumePreserves
  <2>9. QED
    BY <1>2, <2>1, <2>2, <2>3, <2>4, <2>5, <2>6, <2>7, <2>8, ElsewherePreserves
    DEF RingStep, EnqStep, DeqStep
<1>3. QED BY <1>1, <1>2 DEF RingAction

(***************************************************************************)
(* threshold: a thread that is in a dequeue is owed one decrement.         *)
(***************************************************************************)
InDequeue == {t \in Threads : pc[t] \in DeqPcs}

LEMMA CountFacts ==
  ASSUME RingAssumptions, NEW D, D \subseteq Threads
  PROVE  IsFiniteSet(D) /\ Cardinality(D) \in 0 .. Cardinality(Threads)
<1>1. IsFiniteSet(D) /\ Cardinality(D) <= Cardinality(Threads)
  BY SizeFacts, FS_Subset
<1>2. Cardinality(D) \in Nat /\ Cardinality(Threads) \in Nat
  BY <1>1, SizeFacts, FS_CardinalityType
<1>3. QED BY <1>1, <1>2

LEMMA CountSubset ==
  ASSUME RingAssumptions, NEW D, NEW E, D \subseteq Threads, E \subseteq D
  PROVE  Cardinality(E) <= Cardinality(D)
  BY CountFacts, FS_Subset

LEMMA ThresholdNext ==
  ASSUME RingAssumptions, RingTypeOK, ThresholdCounts, NEW t \in Threads, RingAction(t)
  PROVE  ThresholdCounts' /\ threshold' \in -Cardinality(Threads) .. ThreshMax
<1>1. /\ threshold \in Int /\ threshold <= ThreshMax
      /\ pc \in [Threads -> {"idle"} \cup EnqPcs \cup DeqPcs]
      /\ ThreshMax \in Nat /\ Cardinality(Threads) \in Nat \ {0}
  <2>1. Cardinality(Threads) \in Nat BY CountFacts
  <2>2. Cardinality(Threads) # 0 BY SizeFacts, FS_EmptySet
  <2>3. ThreshMax \in Nat BY SizeFacts DEF ThreshMax
  <2>4. QED BY <2>1, <2>2, <2>3 DEF RingTypeOK
<1>2. InDequeue \subseteq Threads /\ InDequeue' \subseteq Threads BY DEF InDequeue
<1>3. /\ Cardinality(InDequeue) \in 0 .. Cardinality(Threads)
      /\ Cardinality(InDequeue') \in 0 .. Cardinality(Threads)
  BY <1>2, CountFacts
<1>4. threshold >= Cardinality(InDequeue) - Cardinality(Threads)
  BY DEF ThresholdCounts, InDequeue
<1>5. SUFFICES /\ threshold' \in Int /\ threshold' <= ThreshMax
               /\ threshold' >= Cardinality(InDequeue') - Cardinality(Threads)
  BY <1>1, <1>3 DEF ThresholdCounts, InDequeue
<1>6. CASE UNCHANGED threshold /\ InDequeue' \subseteq InDequeue
  <2>1. Cardinality(InDequeue') <= Cardinality(InDequeue) BY <1>2, <1>6, CountSubset
  <2>2. QED BY <1>1, <1>3, <1>4, <1>6, <2>1
<1>7. CASE threshold' \in {threshold, threshold - 1, ThreshMax} /\ threshold' >= 0
  BY <1>1, <1>3, <1>7
<1>8. CASE /\ threshold' = threshold - 1
           /\ t \in InDequeue /\ InDequeue' \subseteq InDequeue \ {t}
  <2>2. Cardinality(InDequeue \ {t}) = Cardinality(InDequeue) - 1
    BY <1>2, <1>8, CountFacts, FS_RemoveElement
  <2>3. Cardinality(InDequeue') <= Cardinality(InDequeue \ {t})
    BY <1>2, <1>8, CountSubset
  <2>4. Cardinality(InDequeue \ {t}) \in Nat BY <1>2, CountFacts
  <2>5. QED BY <1>1, <1>3, <1>4, <1>8, <2>2, <2>3, <2>4
<1>9. ASSUME NEW i \in Indices, EnqStart(t, i)
      PROVE  UNCHANGED threshold /\ InDequeue' \subseteq InDequeue
  BY <1>1, <1>9 DEF EnqStart, GoTo, ringVars, InDequeue, DeqPcs, CatchupPcs
<1>10. ASSUME DeqStart(t)
       PROVE  UNCHANGED threshold /\ (threshold >= 0 \/ InDequeue' \subseteq InDequeue)
  BY <1>1, <1>10 DEF DeqStart, GoTo, ringVars, InDequeue, DeqPcs, CatchupPcs
<1>11. ASSUME RingStep(t)
       PROVE  \/ UNCHANGED threshold /\ InDequeue' \subseteq InDequeue
              \/ threshold' \in {threshold, threshold - 1, ThreshMax} /\ threshold' >= 0
              \/ /\ threshold' = threshold - 1
                 /\ t \in InDequeue /\ InDequeue' \subseteq InDequeue \ {t}
  <2>1. CASE EnqReset(t) BY <1>1, <2>1 DEF EnqReset
  <2>2. CASE DeqRetry(t)
    <3>1. threshold' = threshold - 1 /\ pc[t] = "deq_retry" BY <2>2 DEF DeqRetry
    <3>2. CASE threshold > 0 BY <1>1, <3>1, <3>2
    <3>3. CASE threshold <= 0 /\ Return(t, Bot)
      BY <1>1, <3>1, <3>3 DEF Return, InDequeue, DeqPcs, CatchupPcs
    <3>4. QED BY <2>2, <3>2, <3>3 DEF DeqRetry
  <2>3. CASE DeqEmpty(t)
    BY <1>1, <2>3 DEF DeqEmpty, Return, InDequeue, DeqPcs, CatchupPcs
  <2>4. CASE EnqTicket(t) \/ EnqLoad(t) \/ EnqHead(t) \/ EnqThreshold(t)
    BY <1>1, <2>4 DEF EnqTicket, EnqLoad, EnqLook, AfterEnqLook, EnqHead, EnqThreshold,
       GoTo, Return, ringVars, InDequeue, DeqPcs, CatchupPcs
  <2>5. CASE EnqCas(t)
    BY <1>1, <2>5 DEF EnqCas, Insert, EnqLook, AfterEnqLook, GoTo, InDequeue, DeqPcs,
       CatchupPcs
  <2>6. CASE DeqTicket(t) \/ DeqLoad(t) \/ DeqConsume(t)
    BY <1>1, <2>6 DEF DeqTicket, DeqLoad, DeqLook, DeqConsume, GoTo, Return, ringVars,
       InDequeue, DeqPcs
  <2>7. CASE DeqCas(t) \/ DeqTail(t)
    BY <1>1, <2>7 DEF DeqCas, DeqLook, DeqTail, GoTo, ringVars, InDequeue, DeqPcs
  <2>8. CASE CatchupCas(t) \/ CatchupHead(t) \/ CatchupTail(t)
    BY <1>1, <2>8 DEF CatchupCas, CatchupHead, CatchupTail, GoTo, ringVars, InDequeue,
       DeqPcs, CatchupPcs
  <2>9. QED
    BY <1>11, <2>1, <2>2, <2>3, <2>4, <2>5, <2>6, <2>7, <2>8
    DEF RingStep, EnqStep, DeqStep
<1>12. QED BY <1>1, <1>6, <1>7, <1>8, <1>9, <1>10, <1>11 DEF RingAction

(***************************************************************************)
(* Types                                                                   *)
(***************************************************************************)
Pcs == {"idle"} \cup EnqPcs \cup DeqPcs
Goals == [tail : Nat, head : Nat, tries : 0 .. Catchups]

CallTypes == /\ pc \in [Threads -> Pcs] /\ tkt \in [Threads -> Nat]
             /\ idx \in [Threads -> 0 .. N] /\ ent \in [Threads -> Entries]
             /\ goal \in [Threads -> Goals]

RingTypes == /\ tail \in Nat /\ head \in Nat
             /\ entry \in [Slots -> Entries] /\ lap \in [Slots -> Nat]

LEMMA ValueTypes ==
  ASSUME RingAssumptions
  PROVE  /\ Fresh \in Entries /\ NoGoal \in Goals /\ Bot \in 0 .. N
         /\ Bot \in 0 .. N + 1 /\ BotC \in 0 .. N + 1 /\ Indices \subseteq 0 .. N
         /\ \A n \in Nat : CycleOf(n) \in 0 .. CycleMod - 1 /\ LapOf(n) \in Nat
<1>1. 0 \in 0 .. CycleMod - 1 BY SizeFacts
<1>2. \A n \in Nat : CycleOf(n) \in 0 .. CycleMod - 1 /\ LapOf(n) \in Nat BY SlotFacts
<1>3. QED
  BY <1>1, <1>2, SizeFacts
  DEF Fresh, Entries, NoGoal, Goals, Bot, BotC, Indices

LEMMA CallTypesNext ==
  ASSUME RingAssumptions, RingTypeOK, SlotInv, TriesLeft, NEW t \in Threads,
         RingAction(t)
  PROVE  CallTypes' /\ RingTypes'
<1>1. CallTypes /\ RingTypes
  BY DEF RingTypeOK, CallTypes, RingTypes, Pcs, Goals
<1>2. /\ Slot(tkt[t]) \in Slots /\ entry[Slot(tkt[t])] \in Entries /\ tkt[t] \in Nat
      /\ ent[t] \in Entries
  BY Ranges
<1>3. CASE \E i \in Indices : EnqStart(t, i)
  BY <1>1, <1>3, ValueTypes
  DEF EnqStart, GoTo, ringVars, CallTypes, RingTypes, Pcs, EnqPcs
<1>4. CASE DeqStart(t)
  BY <1>1, <1>4, ValueTypes
  DEF DeqStart, GoTo, ringVars, CallTypes, RingTypes, Pcs, DeqPcs
<1>5. CASE EnqTicket(t) \/ DeqTicket(t)
  BY <1>1, <1>5 DEF EnqTicket, DeqTicket, GoTo, CallTypes, RingTypes, Pcs, EnqPcs, DeqPcs
<1>6. CASE EnqLoad(t) \/ EnqHead(t)
  BY <1>1, <1>2, <1>6
  DEF EnqLoad, EnqLook, AfterEnqLook, EnqHead, GoTo, ringVars, CallTypes, RingTypes, Pcs,
      EnqPcs
<1>7. CASE EnqCas(t)
  <2>1. CASE Insert(t)
    <3>1. idx[t] \in 0 .. N + 1 BY <1>1, SizeFacts DEF CallTypes
    <3>2. [cycle |-> CycleOf(tkt[t]), safe |-> TRUE, index |-> idx[t]] \in Entries
      BY <1>2, <3>1, ValueTypes DEF Entries
    <3>3. QED
      BY <1>1, <1>2, <1>7, <2>1, <3>2, ValueTypes
      DEF EnqCas, Insert, GoTo, CallTypes, RingTypes, Pcs, EnqPcs
  <2>2. CASE EnqLook(t) /\ UNCHANGED <<entry, lap>>
    BY <1>1, <1>2, <1>7, <2>2
    DEF EnqCas, EnqLook, AfterEnqLook, GoTo, CallTypes, RingTypes, Pcs, EnqPcs
  <2>3. QED BY <1>7, <2>1, <2>2 DEF EnqCas
<1>8. CASE EnqThreshold(t) \/ EnqReset(t)
  BY <1>1, <1>8, ValueTypes
  DEF EnqThreshold, EnqReset, GoTo, Return, ringVars, CallTypes, RingTypes, Pcs, EnqPcs
<1>9. CASE DeqLoad(t)
  BY <1>1, <1>2, <1>9
  DEF DeqLoad, DeqLook, AfterDeqLook, GoTo, ringVars, CallTypes, RingTypes, Pcs, DeqPcs
<1>10. CASE DeqConsume(t)
  <2>1. ent[t].index \in 0 .. N
    BY <1>10, ValueTypes DEF DeqConsume, SlotInv, LooksKept, Real
  <2>2. entry' \in [Slots -> Entries]
    BY <1>1, <1>2, <1>10, ValueTypes DEF DeqConsume, RingTypes, Entries
  <2>3. QED
    BY <1>1, <1>10, <2>1, <2>2, ValueTypes
    DEF DeqConsume, Return, CallTypes, RingTypes, Pcs
<1>11. CASE DeqCas(t)
  <2>1. Spoiled(ent[t], tkt[t]) \in Entries
    BY <1>2, ValueTypes DEF Spoiled, Entries
  <2>2. entry' \in [Slots -> Entries] /\ lap' \in [Slots -> Nat]
    BY <1>1, <1>2, <1>11, <2>1, ValueTypes DEF DeqCas, RingTypes
  <2>3. QED
    BY <1>1, <1>2, <1>11, <2>2
    DEF DeqCas, DeqLook, AfterDeqLook, GoTo, CallTypes, RingTypes, Pcs, DeqPcs
<1>12. CASE DeqTail(t)
  <2>1. [tail |-> tail, head |-> tkt[t] + 1, tries |-> 0] \in Goals
    BY <1>1, <1>2, SizeFacts DEF RingTypes, Goals
  <2>2. QED
    BY <1>1, <1>12, <2>1 DEF DeqTail, GoTo, ringVars, CallTypes, RingTypes, Pcs, DeqPcs,
       CatchupPcs
<1>13. CASE DeqRetry(t) \/ DeqEmpty(t)
  BY <1>1, <1>13, ValueTypes
  DEF DeqRetry, DeqEmpty, GoTo, Return, CallTypes, RingTypes, Pcs, DeqPcs
<1>14. CASE CatchupCas(t) \/ CatchupHead(t) \/ CatchupTail(t)
  <2>2. /\ goal[t].head \in Nat /\ goal[t].tail \in Nat /\ goal[t].tries \in 0 .. Catchups
        /\ Catchups \in Nat /\ head \in Nat /\ tail \in Nat
    BY <1>1, SizeFacts DEF CallTypes, RingTypes, Goals
  <2>3. /\ pc[t] = "cu_cas" => [goal[t] EXCEPT !.tries = @ + 1] \in Goals
        /\ [goal[t] EXCEPT !.head = head] \in Goals
        /\ [goal[t] EXCEPT !.tail = tail] \in Goals
    <3>1. pc[t] = "cu_cas" => goal[t].tries + 1 \in 0 .. Catchups
      BY <2>2 DEF TriesLeft
    <3>2. goal[t] \in Goals BY <1>1 DEF CallTypes
    <3>3. QED BY <2>2, <3>1, <3>2 DEF Goals
  <2>4. CASE CatchupCas(t)
    BY <1>1, <2>2, <2>3, <2>4 DEF CatchupCas, GoTo, CallTypes, RingTypes, Pcs, DeqPcs, CatchupPcs
  <2>5. CASE CatchupHead(t) \/ CatchupTail(t)
    BY <1>1, <2>3, <2>5 DEF CatchupHead, CatchupTail, GoTo, ringVars, CallTypes, RingTypes,
       Pcs, DeqPcs, CatchupPcs
  <2>6. QED BY <1>14, <2>4, <2>5
<1>15. QED
  BY <1>3, <1>4, <1>5, <1>6, <1>7, <1>8, <1>9, <1>10, <1>11, <1>12, <1>13, <1>14
  DEF RingAction, RingStep, EnqStep, DeqStep

LEMMA TriesNext ==
  ASSUME RingAssumptions, RingTypeOK, TriesLeft, NEW t \in Threads,
         RingAction(t)
  PROVE  TriesLeft'
<1>1. CallTypes BY DEF RingTypeOK, CallTypes, Pcs, Goals
<1>2. \A u \in Threads : /\ pc[u] \in Pcs /\ goal[u] \in Goals
  BY <1>1 DEF CallTypes
<1>3. CASE DeqTail(t)
  BY <1>1, <1>3, SizeFacts DEF DeqTail, GoTo, CallTypes, TriesLeft
<1>4. CASE CatchupTail(t)
  <2>1. /\ pc' = [pc EXCEPT ![t] = IF tail >= goal[t].head \/ goal[t].tries = Catchups
                                   THEN "deq_empty" ELSE "cu_cas"]
        /\ goal' = [goal EXCEPT ![t].tail = tail]
    BY <1>4 DEF CatchupTail, GoTo
  <2>2. goal'[t].tries = goal[t].tries /\ goal[t].tries \in 0 .. Catchups
    BY <1>1, <2>1 DEF CallTypes, Goals
  <2>3. pc'[t] = "cu_cas" => goal'[t].tries < Catchups
    BY <1>1, <2>1, <2>2, SizeFacts DEF CallTypes
  <2>4. \A u \in Threads \ {t} : pc'[u] = pc[u] /\ goal'[u] = goal[u]
    BY <1>1, <2>1 DEF CallTypes
  <2>5. QED BY <2>3, <2>4 DEF TriesLeft
<1>5. CASE CatchupCas(t) \/ CatchupHead(t)
  BY <1>1, <1>5 DEF CatchupCas, CatchupHead, GoTo, CallTypes, TriesLeft
<1>6. CASE (\E i \in Indices : EnqStart(t, i)) \/ DeqStart(t)
  BY <1>1, <1>6 DEF EnqStart, DeqStart, GoTo, CallTypes, TriesLeft
<1>7. CASE EnqStep(t)
  BY <1>1, <1>7 DEF EnqStep, EnqTicket, EnqLoad, EnqHead, EnqCas, Insert, EnqLook,
     AfterEnqLook, EnqThreshold, EnqReset, GoTo, Return, CallTypes, TriesLeft
<1>8. CASE DeqTicket(t) \/ DeqLoad(t) \/ DeqConsume(t) \/ DeqCas(t)
  BY <1>1, <1>8 DEF DeqTicket, DeqLoad, DeqConsume, DeqCas, DeqLook, AfterDeqLook,
     GoTo, Return, CallTypes, TriesLeft
<1>9. CASE DeqRetry(t) \/ DeqEmpty(t)
  BY <1>1, <1>9 DEF DeqRetry, DeqEmpty, GoTo, Return, CallTypes, TriesLeft
<1>10. QED
  BY <1>3, <1>4, <1>5, <1>6, <1>7, <1>8, <1>9 DEF RingAction, RingStep, DeqStep

\* The invariant survives every step of a call ...
LEMMA RingInvKept ==
  ASSUME RingAssumptions, RingInv, NEW t \in Threads, RingAction(t)
  PROVE  RingInv'
<1>1. RingTypeOK /\ ThresholdCounts /\ TriesLeft /\ SlotInv BY DEF RingInv
<1>2. SlotInv' BY <1>1, SlotNext
<1>3. ThresholdCounts' /\ threshold' \in -Cardinality(Threads) .. ThreshMax
  BY <1>1, ThresholdNext
<1>4. CallTypes' /\ RingTypes' BY <1>1, CallTypesNext
<1>5. TriesLeft' BY <1>1, TriesNext
<1>6. RingTypeOK' BY <1>3, <1>4 DEF RingTypeOK, CallTypes, RingTypes, Pcs, Goals
<1>7. QED BY <1>2, <1>3, <1>5, <1>6 DEF RingInv

\* ... and what happens elsewhere.
LEMMA RingInvStays ==
  ASSUME RingInv, UNCHANGED ring
  PROVE  RingInv'
<1>1. SlotInv'
  BY DEF RingInv, ring, ringVars, callVars, SlotInv, CyclesFollowLaps, StallsBounded,
     DeqTicketsTaken, LooksKept, LooksPast, GoneLeftMark, InsertInTime, ConsumeFindsItem,
     NoneStranded, Expected, Claimed, Live, Origin
<1>2. RingTypeOK' /\ ThresholdCounts' /\ TriesLeft'
  BY DEF RingInv, ring, ringVars, callVars, RingTypeOK, ThresholdCounts, TriesLeft
<1>3. QED BY <1>1, <1>2 DEF RingInv

LEMMA ZeroCycle ==
  ASSUME RingAssumptions
  PROVE  0 % CycleMod = 0
<1>1. CycleMod \in Nat \ {0} BY SizeFacts
<1>2. 0 = CycleMod * 0 + 0 /\ 0 \in 0 .. CycleMod - 1 BY <1>1
<1>3. QED BY <1>1, <1>2, DivModOf

LEMMA InitEmptyFacts ==
  ASSUME RingAssumptions, InitEmpty
  PROVE  /\ tail \in Nat /\ head = NumSlots /\ threshold \in -1 .. ThreshMax
         /\ entry \in [Slots -> Entries] /\ lap \in [Slots -> {0, 1}]
         /\ \A s \in Slots : entry[s].cycle = lap[s] % CycleMod
         /\ \A s \in Slots : Live(s) => lap[s] = 1
         /\ \A i \in Indices : Holders(i) = {}
<1>1. /\ tail = NumSlots /\ head = NumSlots /\ threshold = -1
      /\ entry = [s \in Slots |-> Fresh] /\ lap = [s \in Slots |-> 0]
      /\ pc = [t \in Threads |-> "idle"]
  BY DEF InitEmpty, InitCalls
<1>2. NumSlots \in Nat \ {0} /\ Bot \notin Indices /\ ThreshMax \in Nat
  BY SizeFacts DEF Bot, Indices, ThreshMax
<1>3. \A s \in Slots : ~ Live(s) BY <1>1, <1>2 DEF Live, Real, Fresh
<1>4. \A i \in Indices : Holders(i) = {} BY <1>3 DEF Holders, Live, Real
<1>5. \A s \in Slots : entry[s].cycle = lap[s] % CycleMod BY <1>1, ZeroCycle DEF Fresh
<1>6. QED BY <1>1, <1>2, <1>3, <1>4, <1>5, ValueTypes

LEMMA InitFullFacts ==
  ASSUME RingAssumptions, InitFull
  PROVE  /\ tail \in Nat /\ head = NumSlots /\ threshold \in -1 .. ThreshMax
         /\ entry \in [Slots -> Entries] /\ lap \in [Slots -> {0, 1}]
         /\ \A s \in Slots : entry[s].cycle = lap[s] % CycleMod
         /\ \A s \in Slots : Live(s) => lap[s] = 1
         /\ \A i \in Indices : i \in Slots /\ Holders(i) = {i}
<1> DEFINE full(s) == [cycle |-> CycleOf(NumSlots), safe |-> TRUE, index |-> s]
<1>1. /\ tail = NumSlots + N /\ head = NumSlots /\ threshold = ThreshMax
      /\ entry = [s \in Slots |-> IF s < N THEN full(s) ELSE Fresh]
      /\ lap = [s \in Slots |-> IF s < N THEN 1 ELSE 0]
      /\ pc = [t \in Threads |-> "idle"]
  BY DEF InitFull, InitCalls
<1>2. /\ NumSlots \in Nat \ {0} /\ Bot \notin Indices /\ ThreshMax \in Nat
      /\ N \in Nat \ {0} /\ NumSlots = 2 * N
  BY SizeFacts DEF Bot, Indices, ThreshMax, NumSlots
<1>3. LapOf(NumSlots) = 1
  <2>1. NumSlots = NumSlots * 1 + 0 /\ 0 \in 0 .. NumSlots - 1 BY <1>2
  <2>2. QED BY <1>2, <2>1, DivModOf DEF LapOf
<1>4. \A s \in Slots : s < N <=> s \in Indices BY <1>2 DEF Slots, Indices
<1>5. \A s \in Slots : s < N => full(s) \in Entries
  <2>1. CycleOf(NumSlots) \in 0 .. CycleMod - 1 BY <1>2, ValueTypes
  <2>2. \A s \in Slots : s < N => s \in 0 .. N + 1 BY <1>2, <1>4 DEF Indices
  <2>3. QED BY <2>1, <2>2 DEF Entries
<1>6. \A s \in Slots : entry[s].cycle = lap[s] % CycleMod
  BY <1>1, <1>3, ZeroCycle DEF Fresh, CycleOf
<1>7. \A s \in Slots : Live(s) => s < N BY <1>1, <1>2 DEF Live, Real, Fresh
<1>8. ASSUME NEW i \in Indices PROVE i \in Slots /\ Holders(i) = {i}
  <2>2. i \in Slots /\ i < N BY <1>2 DEF Slots, Indices
  <2>3. \A s \in Slots : entry[s].index = i <=> s = i
    BY <1>1, <1>2, <1>4, <2>2 DEF Fresh
  <2>4. Holders(i) = {i} BY <2>2, <2>3 DEF Holders
  <2>5. QED BY <2>2, <2>4
<1>10. entry \in [Slots -> Entries]
  <2>1. \A s \in Slots : (IF s < N THEN full(s) ELSE Fresh) \in Entries
    BY <1>5, ValueTypes
  <2>2. QED BY <1>1, <2>1
<1>11. /\ tail \in Nat /\ threshold \in -1 .. ThreshMax /\ lap \in [Slots -> {0, 1}]
       /\ \A s \in Slots : Live(s) => lap[s] = 1
  BY <1>1, <1>2, <1>7
<1>12. QED BY <1>1, <1>6, <1>8, <1>10, <1>11

\* A ring begins with the invariant, empty or full.
LEMMA RingInvInit ==
  ASSUME RingAssumptions, InitEmpty \/ InitFull
  PROVE  RingInv
<1>2. /\ pc = [t \in Threads |-> "idle"] /\ tkt = [t \in Threads |-> 0]
      /\ idx = [t \in Threads |-> Bot] /\ ent = [t \in Threads |-> Fresh]
      /\ goal = [t \in Threads |-> NoGoal]
  BY DEF InitEmpty, InitFull, InitCalls
<1>3. /\ tail \in Nat /\ head = NumSlots /\ threshold \in -1 .. ThreshMax
      /\ entry \in [Slots -> Entries] /\ lap \in [Slots -> {0, 1}]
      /\ \A s \in Slots : entry[s].cycle = lap[s] % CycleMod
      /\ \A s \in Slots : Live(s) => lap[s] = 1
  BY InitEmptyFacts, InitFullFacts
<1>4. NumSlots \in Nat \ {0} /\ CycleMod \in Nat \ {0} BY SizeFacts
<1>5. Cardinality(Threads) \in Nat \ {0} /\ ThreshMax \in Nat
  BY CountFacts, SizeFacts, FS_EmptySet DEF ThreshMax
<1>6. RingTypeOK
  <2>1. lap \in [Slots -> Nat] BY <1>3
  <2>2. threshold \in -Cardinality(Threads) .. ThreshMax BY <1>3, <1>5
  <2>3. QED
    BY <1>2, <1>3, <1>4, <2>1, <2>2, ValueTypes
    DEF RingTypeOK, Goals
<1>7. ThresholdCounts
  <2>1. {t \in Threads : pc[t] \in DeqPcs} = {} BY <1>2 DEF DeqPcs, CatchupPcs
  <2>2. Cardinality({t \in Threads : pc[t] \in DeqPcs}) = 0 BY <2>1, FS_EmptySet
  <2>3. threshold >= 0 - Cardinality(Threads) BY <1>3, <1>5
  <2>4. QED BY <2>2, <2>3 DEF ThresholdCounts
<1>8. TriesLeft BY <1>2 DEF TriesLeft
<1>9. CyclesFollowLaps BY <1>3 DEF CyclesFollowLaps
<1>10. StallsBounded /\ DeqTicketsTaken /\ LooksKept /\ LooksPast /\ InsertInTime
       /\ ConsumeFindsItem
  BY <1>2 DEF StallsBounded, DeqTicketsTaken, LooksKept, LooksPast, InsertInTime,
     ConsumeFindsItem, AtSlot, DeqAtSlot, EnqPcs
<1>11. GoneLeftMark
  <2>1. \A n \in 0 .. head - 1 : LapOf(n) = 0 /\ Slot(n) \in Slots
    <3>1. SUFFICES ASSUME NEW n \in 0 .. head - 1 PROVE LapOf(n) = 0 /\ Slot(n) \in Slots
      OBVIOUS
    <3>2. n \in Nat /\ n \in 0 .. NumSlots - 1 /\ n = NumSlots * 0 + n BY <1>3, <1>4
    <3>3. n \div NumSlots = 0 BY <1>4, <3>2, DivModOf
    <3>4. QED BY <3>2, <3>3, SlotFacts DEF LapOf
  <2>2. \A s \in Slots : 0 <= lap[s] BY <1>3
  <2>3. QED BY <2>1, <2>2 DEF GoneLeftMark
<1>12. NoneStranded
  <2>1. SUFFICES ASSUME NEW s \in Slots, lap[s] = 1 PROVE ~ (Origin(s) < head)
    BY <1>3 DEF NoneStranded
  <2>2. Origin(s) = NumSlots + s BY <1>4, <2>1 DEF Origin
  <2>3. QED BY <1>3, <1>4, <2>2 DEF Slots
<1>13. QED
  BY <1>6, <1>7, <1>8, <1>9, <1>10, <1>11, <1>12 DEF RingInv, SlotInv

(***************************************************************************)
(* What a step moves                                                       *)
(***************************************************************************)
LEMMA RingMoves ==
  ASSUME RingAssumptions, RingInv, NEW t \in Threads, RingStep(t)
  PROVE  /\ SameOthers(t) /\ Family(t)
         /\ Inserts(t) \/ Takes(t) \/ MovesNone(t)
<1>1. /\ pc \in [Threads -> Pcs] /\ idx \in [Threads -> 0 .. N]
      /\ entry \in [Slots -> Entries] /\ tkt \in [Threads -> Nat]
      /\ ent \in [Threads -> Entries]
  BY DEF RingInv, RingTypeOK, Pcs
<1>2. Bot \notin Indices /\ BotC \notin Indices BY SizeFacts DEF Bot, BotC, Indices
<1>3. PICK S \in Slots : S = Slot(tkt[t]) BY Ranges DEF RingInv
<1>4. SameOthers(t)
  <2>1. CASE EnqStep(t)
    BY <1>1, <2>1
    DEF EnqStep, EnqTicket, EnqLoad, EnqLook, EnqHead, EnqCas, Insert, EnqThreshold,
        EnqReset, GoTo, Return, ringVars, SameOthers
  <2>2. CASE DeqStep(t)
    BY <1>1, <2>2
    DEF DeqStep, DeqTicket, DeqLoad, DeqLook, DeqConsume, DeqCas, DeqTail, DeqRetry,
        DeqEmpty, CatchupCas, CatchupHead, CatchupTail, GoTo, Return, ringVars, SameOthers
  <2>3. QED BY <2>1, <2>2 DEF RingStep
<1>5. CASE EnqCas(t) /\ Insert(t)
  <2>1. /\ pc[t] = "enq_cas" /\ entry[S] = ent[t] /\ pc' = [pc EXCEPT ![t] = "enq_threshold"]
        /\ entry' = [entry EXCEPT ![S] =
             [cycle |-> CycleOf(tkt[t]), safe |-> TRUE, index |-> idx[t]]]
        /\ UNCHANGED <<idx, ent>>
    BY <1>3, <1>5 DEF Insert, EnqCas, GoTo
  <2>2. pc'[t] = "enq_threshold" BY <1>1, <2>1
  <2>3. PICK i \in Indices : i = idx[t] BY <2>1 DEF RingInv, SlotInv, LooksKept, EnqPcs
  <2>4. entry[S].index \notin Indices BY <2>1 DEF RingInv, SlotInv, LooksKept, Real
  <2>5. entry'[S].index = i /\ \A s \in Slots \ {S} : entry'[s] = entry[s]
    BY <1>1, <2>1, <2>3
  <2>6. /\ Holders(i)' = Holders(i) \cup {S}
        /\ \A j \in Indices \ {i} : Holders(j)' = Holders(j)
    BY <2>4, <2>5 DEF Holders
  <2>7. Inserts(t) BY <2>1, <2>2, <2>3, <2>6 DEF Inserts, Carrying, EnqPcs
  <2>8. QED BY <1>4, <2>1, <2>2, <2>7 DEF Family, EnqPcs
<1>6. CASE DeqConsume(t)
  <2>1. /\ pc[t] = "deq_consume" /\ pc' = [pc EXCEPT ![t] = "idle"]
        /\ entry' = [entry EXCEPT ![S].index = BotC]
        /\ idx' = [idx EXCEPT ![t] = ent[t].index]
    BY <1>3, <1>6 DEF DeqConsume, Return
  <2>2. PICK i \in Indices : i = ent[t].index BY <2>1 DEF RingInv, SlotInv, LooksKept, Real
  <2>3. entry[S].index = i BY <1>3, <2>1, <2>2 DEF RingInv, SlotInv, ConsumeFindsItem
  <2>4. pc'[t] = "idle" /\ idx'[t] = i BY <1>1, <2>1, <2>2
  <2>5. entry'[S].index = BotC /\ \A s \in Slots \ {S} : entry'[s] = entry[s]
    BY <1>1, <2>1 DEF Entries
  <2>6. /\ Holders(i)' = Holders(i) \ {S} /\ S \in Holders(i)
        /\ \A j \in Indices \ {i} : Holders(j)' = Holders(j)
    BY <1>2, <2>3, <2>5 DEF Holders
  <2>7. pc[t] \in DeqPcs BY <2>1 DEF DeqPcs
  <2>8. Takes(t) BY <2>4, <2>6, <2>7 DEF Takes
  <2>9. QED BY <1>4, <2>4, <2>7, <2>8 DEF Family
<1>7. CASE DeqCas(t)
  <2>1. /\ pc[t] = "deq_cas" /\ idx' = idx
        /\ \E next \in DeqPcs : pc' = [pc EXCEPT ![t] = next]
    BY <1>7 DEF DeqCas, DeqLook, AfterDeqLook, GoTo, DeqPcs
  <2>2. pc[t] \in DeqPcs /\ pc'[t] \in DeqPcs BY <1>1, <2>1 DEF DeqPcs
  <2>3. pc[t] \notin Carrying /\ pc'[t] \notin Carrying /\ pc'[t] # "idle"
    BY <2>2 DEF DeqPcs, CatchupPcs, Carrying
  <2>4. \A s \in Slots : \/ entry'[s].index = entry[s].index
                         \/ entry'[s].index \notin Indices /\ entry[s].index \notin Indices
    <3>1. CASE entry' = entry BY <3>1
    <3>2. CASE entry[S] = ent[t] /\ entry' = [entry EXCEPT ![S] = Spoiled(ent[t], tkt[t])]
      <4>1. Real(ent[t]) => Spoiled(ent[t], tkt[t]).index = ent[t].index
        BY <1>1 DEF Spoiled, Entries
      <4>2. ~ Real(ent[t]) => Spoiled(ent[t], tkt[t]).index = Bot
        BY <1>1 DEF Spoiled, Entries
      <4>3. entry'[S] = Spoiled(ent[t], tkt[t]) /\ \A s \in Slots \ {S} : entry'[s] = entry[s]
        BY <1>1, <3>2
      <4>4. QED BY <1>2, <3>2, <4>1, <4>2, <4>3 DEF Real
    <3>3. QED BY <1>3, <1>7, <3>1, <3>2 DEF DeqCas
  <2>5. \A j \in Indices : Holders(j)' = Holders(j) BY <2>4 DEF Holders
  <2>6. QED BY <1>4, <2>2, <2>3, <2>5 DEF MovesNone, Family
<1>8. CASE EnqStep(t) /\ ~ (EnqCas(t) /\ Insert(t))
  <2>1. /\ entry' = entry /\ (pc'[t] = "idle" => idx'[t] = Bot)
        /\ pc[t] \in EnqPcs /\ pc'[t] \in EnqPcs \cup {"idle"}
        /\ \/ pc[t] \in Carrying /\ pc'[t] \in Carrying /\ idx'[t] = idx[t]
           \/ pc[t] \notin Carrying /\ pc'[t] \notin Carrying
    BY <1>1, <1>8
    DEF EnqStep, EnqTicket, EnqLoad, EnqLook, AfterEnqLook, EnqHead, EnqCas, EnqThreshold,
        EnqReset, GoTo, Return, ringVars, Carrying, EnqPcs
  <2>2. \A j : Holders(j)' = Holders(j) BY <2>1 DEF Holders
  <2>3. QED BY <1>4, <2>1, <2>2 DEF MovesNone, Family
<1>9. CASE DeqStep(t) /\ ~ DeqConsume(t) /\ ~ DeqCas(t)
  <2>1. /\ entry' = entry /\ (pc'[t] = "idle" => idx'[t] = Bot)
        /\ pc[t] \in DeqPcs /\ pc'[t] \in DeqPcs \cup {"idle"}
    BY <1>1, <1>9
    DEF DeqStep, DeqTicket, DeqLoad, DeqLook, AfterDeqLook, DeqTail, DeqRetry, DeqEmpty,
        CatchupCas, CatchupHead, CatchupTail, GoTo, Return, ringVars, DeqPcs, CatchupPcs
  <2>2. pc[t] \notin Carrying /\ pc'[t] \notin Carrying
    BY <2>1 DEF DeqPcs, CatchupPcs, Carrying
  <2>3. \A j : Holders(j)' = Holders(j) BY <2>1 DEF Holders
  <2>4. QED BY <1>4, <2>1, <2>2, <2>3 DEF MovesNone, Family
<1>10. QED BY <1>5, <1>6, <1>7, <1>8, <1>9 DEF RingStep

\* Calls begin with an index in hand, or without one.
LEMMA RingStarts ==
  ASSUME RingInv, NEW t \in Threads
  PROVE  /\ \A i : EnqStart(t, i) =>
              /\ SameOthers(t) /\ pc[t] = "idle" /\ pc'[t] \in Carrying /\ idx'[t] = i
              /\ \A j : Holders(j)' = Holders(j)
         /\ DeqStart(t) =>
              /\ SameOthers(t) /\ pc[t] = "idle" /\ pc'[t] \in DeqPcs \cup {"idle"}
              /\ idx'[t] = Bot
              /\ \A j : Holders(j)' = Holders(j)
<1>1. pc \in [Threads -> Pcs] /\ idx \in [Threads -> 0 .. N]
  BY DEF RingInv, RingTypeOK, Pcs
<1>2. ASSUME NEW i, EnqStart(t, i)
      PROVE  /\ SameOthers(t) /\ pc[t] = "idle" /\ pc'[t] \in Carrying /\ idx'[t] = i
             /\ \A j : Holders(j)' = Holders(j)
  BY <1>1, <1>2 DEF EnqStart, GoTo, ringVars, SameOthers, Carrying, Holders
<1>3. ASSUME DeqStart(t)
      PROVE  /\ SameOthers(t) /\ pc[t] = "idle" /\ pc'[t] \in DeqPcs \cup {"idle"}
             /\ idx'[t] = Bot
             /\ \A j : Holders(j)' = Holders(j)
  BY <1>1, <1>3 DEF DeqStart, GoTo, ringVars, SameOthers, DeqPcs, Holders
<1>4. QED BY <1>2, <1>3

(***************************************************************************)
(* The places of the slots and the tickets of a wavefront.                 *)
(***************************************************************************)
\* In a ring of whole cache lines every position has a slot of its own.  (In a ring
\* of less than one line, FQ_N < 4, all positions would get slot 0.)
THEOREM RemapPermutes ==
  ASSUME NEW perLine \in Nat \ {0}, NEW lines \in Nat \ {0}, NEW slots \in Nat,
         slots = perLine * lines,
         NEW p \in 0 .. slots - 1, NEW q \in 0 .. slots - 1
  PROVE  /\ cache_remap(p, slots, perLine) \in 0 .. slots - 1
         /\ cache_remap(p, slots, perLine) = cache_remap(q, slots, perLine) => p = q
<1>1. slots \div perLine = lines
  <2>1. slots = perLine * lines + 0 /\ 0 \in 0 .. perLine - 1 OBVIOUS
  <2>2. QED BY <2>1, DivModOf
\* Line and offset of a position, and the slot that they give.
<1>2. ASSUME NEW x \in 0 .. slots - 1
      PROVE  /\ x \div perLine \in 0 .. lines - 1 /\ x % perLine \in 0 .. perLine - 1
             /\ x = perLine * (x \div perLine) + (x % perLine)
             /\ cache_remap(x, slots, perLine) = lines * (x % perLine) + (x \div perLine)
  <2>1. x \in Nat BY <1>2
  <2>2. PICK l \in Nat, o \in 0 .. perLine - 1 :
          l = x \div perLine /\ o = x % perLine /\ x = perLine * l + o
    BY <2>1, DivMod
  <2>3. ~ (lines <= l)
    <3>1. SUFFICES ASSUME lines <= l PROVE FALSE OBVIOUS
    <3>2. CASE lines = l BY <1>2, <2>2, <3>2
    <3>3. CASE lines < l
      <4>1. perLine * lines + perLine <= perLine * l BY <2>2, <3>3, MultiplesApart
      <4>2. perLine * l \in Int BY Z3
      <4>3. QED BY <1>2, <2>2, <4>1, <4>2
    <3>4. QED BY <3>1, <3>2, <3>3
  <2>4. l \in 0 .. lines - 1 BY <2>2, <2>3
  <2>5. o * lines = lines * o BY Z3
  <2>6. cache_remap(x, slots, perLine) = o * lines + l
    BY <1>1, <2>2, Zenon DEF cache_remap
  <2>7. QED BY <2>2, <2>4, <2>5, <2>6
<1>3. cache_remap(p, slots, perLine) \in 0 .. slots - 1
  <2>1. PICK l \in 0 .. lines - 1, o \in 0 .. perLine - 1 :
          cache_remap(p, slots, perLine) = lines * o + l
    BY <1>2
  <2>2. lines * o + lines <= lines * perLine BY <2>1, MultiplesApart
  <2>3. lines * perLine = slots /\ lines * o \in Nat BY Z3
  <2>4. QED BY <2>1, <2>2, <2>3
<1>4. ASSUME cache_remap(p, slots, perLine) = cache_remap(q, slots, perLine) PROVE p = q
  <2>1. PICK l \in 0 .. lines - 1, o \in 0 .. perLine - 1 :
          p = perLine * l + o /\ cache_remap(p, slots, perLine) = lines * o + l
    BY <1>2
  <2>2. PICK m \in 0 .. lines - 1, r \in 0 .. perLine - 1 :
          q = perLine * m + r /\ cache_remap(q, slots, perLine) = lines * r + m
    BY <1>2
  <2>3. lines * o + l = lines * r + m BY <1>4, <2>1, <2>2
  <2>4. o = r /\ l = m BY <2>3, DivModUnique
  <2>5. QED BY <2>1, <2>2, <2>4
<1>5. QED BY <1>3, <1>4

\* The lanes below a lane of the batch.
LEMMA LanesBelow ==
  ASSUME NEW mask \in SUBSET Nat, IsFiniteSet(mask), NEW lane \in mask
  PROVE  LET below == {l \in mask : l < lane} IN
         IsFiniteSet(below) /\ Cardinality(below) \in 0 .. Cardinality(mask) - 1
<1> DEFINE below == {l \in mask : l < lane}
<1>1. below \in SUBSET mask /\ below # mask OBVIOUS
<1> HIDE DEF below
<1>2. /\ IsFiniteSet(below) /\ Cardinality(below) <= Cardinality(mask)
      /\ Cardinality(below) # Cardinality(mask)
  BY <1>1, FS_Subset
<1>3. Cardinality(below) \in Nat /\ Cardinality(mask) \in Nat BY <1>2, FS_CardinalityType
<1>4. QED BY <1>2, <1>3 DEF below

\* The tickets that a batch hands out are those between the counter's value before and
\* after, each to one lane, in the order of the lanes: what the lanes would get from
\* additions of their own, one after another.  The models let every thread take its
\* ticket by itself on the strength of this.
THEOREM BatchIsARun ==
  ASSUME NEW mask \in SUBSET Nat, IsFiniteSet(mask), NEW base \in Nat
  PROVE  LET ticket(lane) == wave_batched_faa_divergent(base, mask, lane)
             run == base .. counterAfter(base, mask) - 1
         IN /\ \A l, m \in mask : l < m => ticket(l) < ticket(m)
            /\ \A lane \in mask : ticket(lane) \in run
            /\ \A n \in run : \E lane \in mask : ticket(lane) = n
<1> DEFINE ticket(lane) == wave_batched_faa_divergent(base, mask, lane)
           size == Cardinality(mask)
           run == base .. base + size - 1
           f == [lane \in mask |-> ticket(lane)]
<1>1. size \in Nat BY FS_CardinalityType
<1>2. \A lane \in mask : ticket(lane) \in run
  <2> SUFFICES ASSUME NEW lane \in mask PROVE ticket(lane) \in run OBVIOUS
  <2>1. Cardinality({l \in mask : l < lane}) \in 0 .. size - 1 BY LanesBelow
  <2>2. QED BY <1>1, <2>1 DEF wave_batched_faa_divergent
<1>3. ASSUME NEW l \in mask, NEW m \in mask, l < m PROVE ticket(l) < ticket(m)
  <2> DEFINE A == {k \in mask : k < l}
             B == {k \in mask : k < m}
  <2>1. A \in SUBSET B /\ l \in B /\ l \notin A
    <3>1. \A k \in mask : k < l => k < m BY <1>3
    <3>2. A \in SUBSET B BY <3>1
    <3>3. l \in B /\ l \notin A BY <1>3
    <3>4. QED BY <3>2, <3>3
  <2>2. IsFiniteSet(A) /\ IsFiniteSet(B) BY LanesBelow
  <2>3. ticket(l) = base + Cardinality(A) /\ ticket(m) = base + Cardinality(B)
    BY DEF wave_batched_faa_divergent
  <2> HIDE DEF A, B, ticket
  <2>4. Cardinality(A) <= Cardinality(B) /\ Cardinality(A) # Cardinality(B)
    BY <2>1, <2>2, FS_Subset
  <2>5. Cardinality(A) \in Nat /\ Cardinality(B) \in Nat BY <2>2, FS_CardinalityType
  <2>6. QED BY <2>3, <2>4, <2>5
<1> HIDE DEF ticket, size, run
<1>4. \A l, m \in mask : ticket(l) = ticket(m) => l = m
  <2>1. \A lane \in mask : ticket(lane) \in Int BY <1>1, <1>2 DEF run
  <2>2. \A l, m \in mask : l = m \/ l < m \/ m < l OBVIOUS
  <2>3. QED BY <1>3, <2>1, <2>2
<1>5. IsFiniteSet(run) /\ Cardinality(run) = size
  <2> DEFINE last == base + size - 1
  <2>1. base \in Int /\ last \in Int /\ last - base + 1 = size BY <1>1
  <2>2. base > last => size = 0 BY <1>1
  <2> HIDE DEF last
  <2>3. /\ IsFiniteSet(base .. last)
        /\ Cardinality(base .. last) = IF base > last THEN 0 ELSE last - base + 1
    BY <2>1, FS_Interval
  <2>4. QED BY <2>1, <2>2, <2>3 DEF run, last
<1>6. f \in Injection(mask, run) BY <1>2, <1>4 DEF Injection, IsInjective
<1>7. f \in Surjection(mask, run) BY <1>5, <1>6, FS_Injection DEF size
<1>8. \A n \in run : \E lane \in mask : ticket(lane) = n BY <1>7 DEF Surjection
<1>9. \A l, m \in mask : l < m => ticket(l) < ticket(m) BY <1>3
<1>10. run = base .. counterAfter(base, mask) - 1
  <2>1. (base + size) - 1 = base + (size - 1) BY <1>1
  <2>2. QED BY <2>1 DEF run, size, counterAfter
<1>11. QED BY <1>2, <1>8, <1>9, <1>10, Zenon DEF ticket
===============================================================================
