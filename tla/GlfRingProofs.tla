---------------------------- MODULE GlfRingProofs -----------------------------
(***************************************************************************)
(* Proofs about a GLFQ ring in the use that one queue makes of it, for     *)
(* every number of threads, indices and calls and every width of cycles.   *)
(* What concerns the ring alone is proved in GlfRingLemmas; added here is  *)
(* that an index outside the ring is spare or in one enqueuer's hands.     *)
(***************************************************************************)
EXTENDS GlfRingUse, GlfRingLemmas

-----------------------------------------------------------------------------
(***************************************************************************)
(* Types of what GlfRingUse adds                                           *)
(***************************************************************************)
UseTypes ==
  /\ spare \subseteq Indices
  /\ calls \in 0 .. MaxCalls
  /\ older \in [Indices -> SUBSET Indices]
  /\ sawEmpty \in [Threads -> BOOLEAN]

LEMMA UseTypesNext ==
  ASSUME UseTypes, RingTypeOK', NEW t \in Threads, Enqueue(t) \/ Dequeue(t) \/ InRing(t)
  PROVE  UseTypes'
<1>1. spare' \subseteq Indices
  <2>1. CASE Enqueue(t) BY <2>1 DEF Enqueue, UseTypes
  <2>2. CASE Dequeue(t) BY <2>2 DEF Dequeue, UseTypes
  <2>3. CASE InRing(t)
    <3>1. idx'[t] \in 0 .. N BY DEF RingTypeOK
    <3>2. N \in Nat \ {0} BY ConstantsAssumption DEF RingAssumptions
    <3>3. idx'[t] # Bot => idx'[t] \in Indices BY <3>1, <3>2 DEF Bot, Indices
    <3>4. QED BY <2>3, <3>3 DEF InRing, UseTypes
  <2>4. QED BY <2>1, <2>2, <2>3
<1>2. calls' \in 0 .. MaxCalls
  BY MaxCallsAssumption DEF Enqueue, Dequeue, InRing, UseTypes
<1>3. older' \in [Indices -> SUBSET Indices]
  <2>1. CASE Enqueue(t)
    <3>1. Inside \subseteq Indices BY DEF Inside, Live, Real
    <3>2. QED BY <2>1, <3>1 DEF Enqueue, UseTypes
  <2>2. CASE Dequeue(t) BY <2>2 DEF Dequeue, UseTypes
  <2>3. CASE InRing(t)
    <3>1. older' = [i \in Indices |-> older[i] \ (spare' \ spare)] BY <2>3 DEF InRing
    <3>2. \A i \in Indices : older[i] \ (spare' \ spare) \in SUBSET Indices BY DEF UseTypes
    <3>3. QED BY <3>1, <3>2
  <2>4. QED BY <2>1, <2>2, <2>3
<1>4. sawEmpty' \in [Threads -> BOOLEAN]
  <2>1. NoteEmpty BY DEF Enqueue, Dequeue, InRing
  <2>2. QED BY <2>1 DEF NoteEmpty
<1>5. QED BY <1>1, <1>2, <1>3, <1>4 DEF UseTypes

(***************************************************************************)
(* Places of an index                                                      *)
(***************************************************************************)
Carriers(i) == {t \in Threads : Carries(t, i)}

OnePlace(i) ==
  \/ (\E t \in Threads : Carriers(i) = {t}) /\ Holders(i) = {} /\ i \notin spare
  \/ Carriers(i) = {} /\ (\E s \in Slots : Holders(i) = {s}) /\ i \notin spare
  \/ Carriers(i) = {} /\ Holders(i) = {} /\ i \in spare

LEMMA PlacesOne ==
  ASSUME NEW i \in Indices
  PROVE  (\E p \in Places(i) : Places(i) = {p}) <=> OnePlace(i)
<1>1. \A t \in Threads : t \in Carriers(i) <=> <<"thread", t>> \in Places(i)
  BY DEF Places, Carriers
<1>2. \A s \in Slots : s \in Holders(i) <=> <<"slot", s>> \in Places(i)
  BY DEF Places, Holders
<1>3. i \in spare <=> <<"spare", i>> \in Places(i) BY DEF Places
<1>4. \A p \in Places(i) : \/ \E t \in Carriers(i) : p = <<"thread", t>>
                           \/ \E s \in Holders(i) : p = <<"slot", s>>
                           \/ p = <<"spare", i>> /\ i \in spare
  BY DEF Places, Carriers, Holders
<1>5. ASSUME NEW p \in Places(i), Places(i) = {p} PROVE OnePlace(i)
  <2>1. CASE \E t \in Carriers(i) : p = <<"thread", t>>
    <3>1. PICK t \in Carriers(i) : p = <<"thread", t>> BY <2>1
    <3>2. Carriers(i) \subseteq {t} BY <1>1, <1>5, <3>1 DEF Carriers
    <3>3. Holders(i) = {} BY <1>2, <1>5, <3>1 DEF Holders
    <3>4. i \notin spare BY <1>3, <1>5, <3>1
    <3>5. t \in Threads /\ Carriers(i) = {t} BY <3>1, <3>2 DEF Carriers
    <3>6. QED BY <3>3, <3>4, <3>5 DEF OnePlace
  <2>2. CASE \E s \in Holders(i) : p = <<"slot", s>>
    <3>1. PICK s \in Holders(i) : p = <<"slot", s>> BY <2>2
    <3>2. Holders(i) \subseteq {s} BY <1>2, <1>5, <3>1 DEF Holders
    <3>3. Carriers(i) = {} BY <1>1, <1>5, <3>1 DEF Carriers
    <3>4. i \notin spare BY <1>3, <1>5, <3>1
    <3>5. s \in Slots /\ Holders(i) = {s} BY <3>1, <3>2 DEF Holders
    <3>6. QED BY <3>3, <3>4, <3>5 DEF OnePlace
  <2>3. CASE p = <<"spare", i>> /\ i \in spare
    <3>1. Carriers(i) = {} BY <1>1, <1>5, <2>3 DEF Carriers
    <3>2. Holders(i) = {} BY <1>2, <1>5, <2>3 DEF Holders
    <3>3. QED BY <2>3, <3>1, <3>2 DEF OnePlace
  <2>4. QED BY <1>4, <2>1, <2>2, <2>3
<1>6. ASSUME OnePlace(i) PROVE \E p \in Places(i) : Places(i) = {p}
  <2>1. CASE (\E t \in Threads : Carriers(i) = {t}) /\ Holders(i) = {} /\ i \notin spare
    <3>1. PICK t \in Threads : Carriers(i) = {t} BY <2>1
    <3>2. <<"thread", t>> \in Places(i) BY <1>1, <3>1
    <3>3. \A p \in Places(i) : p = <<"thread", t>> BY <1>4, <2>1, <3>1
    <3>4. QED BY <3>2, <3>3
  <2>2. CASE Carriers(i) = {} /\ (\E s \in Slots : Holders(i) = {s}) /\ i \notin spare
    <3>1. PICK s \in Slots : Holders(i) = {s} BY <2>2
    <3>2. <<"slot", s>> \in Places(i) BY <1>2, <3>1
    <3>3. \A p \in Places(i) : p = <<"slot", s>> BY <1>4, <2>2, <3>1
    <3>4. QED BY <3>2, <3>3
  <2>3. CASE Carriers(i) = {} /\ Holders(i) = {} /\ i \in spare
    <3>1. \A p \in Places(i) : p = <<"spare", i>> BY <1>4, <2>3
    <3>2. QED BY <1>3, <2>3, <3>1
  <2>4. QED BY <1>6, <2>1, <2>2, <2>3 DEF OnePlace
<1>7. QED BY <1>5, <1>6

\* A step that changes none of the three leaves an index where it is.
LEMMA StaysPut ==
  ASSUME NEW i \in Indices, OnePlace(i), Carriers(i)' = Carriers(i),
         Holders(i)' = Holders(i), i \in spare' <=> i \in spare
  PROVE  OnePlace(i)'
BY DEF OnePlace

LEMMA PlaceNext ==
  ASSUME RingInv, spare \subseteq Indices, \A i \in Indices : OnePlace(i),
         NEW t \in Threads, Enqueue(t) \/ Dequeue(t) \/ InRing(t)
  PROVE  \A i \in Indices : OnePlace(i)'
<1>1. RingAssumptions BY ConstantsAssumption
<1>2. Bot \notin Indices BY <1>1 DEF RingAssumptions, Bot, Indices
<1>3. "idle" \notin Carrying /\ "idle" \notin EnqPcs /\ DeqPcs \cap Carrying = {}
  BY DEF Carrying, EnqPcs, DeqPcs, CatchupPcs
<1>4. CASE Enqueue(t)
  <2>1. PICK i \in spare : EnqStart(t, i) /\ spare' = spare \ {i} BY <1>4 DEF Enqueue
  <2>2. /\ SameOthers(t) /\ pc[t] = "idle" /\ pc'[t] \in Carrying /\ idx'[t] = i
        /\ \A j : Holders(j)' = Holders(j)
    BY <2>1, RingStarts
  <2>3. /\ Carriers(i)' = Carriers(i) \cup {t}
        /\ \A j \in Indices \ {i} : Carriers(j)' = Carriers(j)
    <3>1. /\ Carries(t, i)'
          /\ \A j \in Indices \ {i} : ~ Carries(t, j)' /\ ~ Carries(t, j)
      BY <1>3, <2>2 DEF Carries
    <3>2. QED BY <2>2, <3>1 DEF SameOthers, Carries, Carriers
  <2>4. OnePlace(i)' BY <2>1, <2>2, <2>3 DEF OnePlace
  <2>5. \A j \in Indices \ {i} : OnePlace(j)' BY <2>1, <2>2, <2>3, StaysPut
  <2>6. QED BY <2>4, <2>5
<1>5. CASE Dequeue(t)
  <2>1. DeqStart(t) /\ spare' = spare BY <1>5 DEF Dequeue
  <2>2. /\ SameOthers(t) /\ pc[t] = "idle" /\ pc'[t] \in DeqPcs \cup {"idle"}
        /\ \A j : Holders(j)' = Holders(j)
    BY <2>1, RingStarts
  <2>3. \A j : Carriers(j)' = Carriers(j)
    BY <1>3, <2>2 DEF SameOthers, Carries, Carriers
  <2>4. QED BY <2>1, <2>2, <2>3, StaysPut
<1>6. CASE InRing(t)
  <2>1. /\ RingStep(t)
        /\ spare' = IF pc'[t] = "idle" /\ idx'[t] # Bot THEN spare \cup {idx'[t]} ELSE spare
    BY <1>6 DEF InRing
  <2>2. SameOthers(t) /\ (Inserts(t) \/ Takes(t) \/ MovesNone(t)) BY <1>1, <2>1, RingMoves
  <2>3. CASE Inserts(t)
    <3>1. PICK i \in Indices :
            /\ pc[t] \in Carrying /\ pc'[t] \in EnqPcs \ Carrying /\ idx[t] = i
            /\ \E s \in Slots : Holders(i)' = Holders(i) \cup {s}
            /\ \A j \in Indices \ {i} : Holders(j)' = Holders(j)
      BY <2>3 DEF Inserts
    <3>2. spare' = spare BY <1>3, <2>1, <3>1
    <3>3. /\ Carriers(i)' = Carriers(i) \ {t} /\ t \in Carriers(i)
          /\ \A j \in Indices \ {i} : Carriers(j)' = Carriers(j)
      <4>1. /\ ~ Carries(t, i)' /\ Carries(t, i)
            /\ \A j \in Indices \ {i} : ~ Carries(t, j)' /\ ~ Carries(t, j)
        BY <3>1 DEF Carries
      <4>2. t \in Carriers(i) BY <4>1 DEF Carriers
      <4>3. QED BY <2>2, <4>1, <4>2 DEF SameOthers, Carries, Carriers
    <3>4. OnePlace(i)' BY <3>1, <3>2, <3>3 DEF OnePlace
    <3>5. \A j \in Indices \ {i} : OnePlace(j)' BY <3>1, <3>2, <3>3, StaysPut
    <3>6. QED BY <3>4, <3>5
  <2>4. CASE Takes(t)
    <3>1. PICK i \in Indices :
            /\ pc[t] \in DeqPcs /\ pc'[t] = "idle" /\ idx'[t] = i
            /\ \E s \in Holders(i) : Holders(i)' = Holders(i) \ {s}
            /\ \A j \in Indices \ {i} : Holders(j)' = Holders(j)
      BY <2>4 DEF Takes
    <3>2. spare' = spare \cup {i} BY <1>2, <2>1, <3>1
    <3>3. \A j : Carriers(j)' = Carriers(j)
      BY <1>3, <2>2, <3>1 DEF SameOthers, Carries, Carriers
    <3>4. OnePlace(i)' BY <3>1, <3>2, <3>3 DEF OnePlace
    <3>5. \A j \in Indices \ {i} : OnePlace(j)' BY <3>1, <3>2, <3>3, StaysPut
    <3>6. QED BY <3>4, <3>5
  <2>5. CASE MovesNone(t)
    <3>1. /\ \/ pc[t] \in Carrying /\ pc'[t] \in Carrying /\ idx'[t] = idx[t]
             \/ pc[t] \notin Carrying /\ pc'[t] \notin Carrying
          /\ pc'[t] = "idle" => idx'[t] = Bot
          /\ \A j \in Indices : Holders(j)' = Holders(j)
      BY <2>5 DEF MovesNone
    <3>2. spare' = spare BY <2>1, <3>1
    <3>3. \A j : Carriers(j)' = Carriers(j)
      BY <2>2, <3>1 DEF SameOthers, Carries, Carriers
    <3>4. QED BY <3>1, <3>2, <3>3, StaysPut
  <2>6. QED BY <2>2, <2>3, <2>4, <2>5
<1>7. QED BY <1>4, <1>5, <1>6

-----------------------------------------------------------------------------
(***************************************************************************)
(* The order in which indices leave                                        *)
(***************************************************************************)
\* What a step of thread t does to slot s.
SlotMoves(t, s) ==
  \/ entry'[s].index = entry[s].index /\ lap'[s] = lap[s]
  \/ ~ Live(s) /\ ~ Live(s)'
  \/ /\ pc[t] = "enq_cas" /\ ~ Live(s)
     /\ entry'[s].index = idx[t] /\ Origin(s)' = tkt[t]
  \/ /\ pc[t] = "deq_consume" /\ pc'[t] = "idle"
     /\ idx'[t] = entry[s].index /\ ~ Live(s)'

LEMMA SlotsMove ==
  ASSUME RingAssumptions, RingInv, NEW t \in Threads, RingAction(t), NEW s \in Slots
  PROVE  SlotMoves(t, s)
<1>1. /\ pc \in [Threads -> Pcs] /\ idx \in [Threads -> 0 .. N] /\ lap \in [Slots -> Nat]
      /\ entry \in [Slots -> Entries] /\ tkt \in [Threads -> Nat]
      /\ ent \in [Threads -> Entries]
  BY DEF RingInv, RingTypeOK, Pcs
<1>2. Bot \notin Indices /\ BotC \notin Indices BY SizeFacts DEF Bot, BotC, Indices
<1>3. PICK S \in Slots : S = Slot(tkt[t]) BY Ranges DEF RingInv
<1>4. CASE UNCHANGED <<entry, lap>> BY <1>4 DEF SlotMoves
<1>5. CASE EnqCas(t) /\ Insert(t)
  <2>1. /\ pc[t] = "enq_cas" /\ entry[S] = ent[t]
        /\ entry' = [entry EXCEPT ![S] =
             [cycle |-> CycleOf(tkt[t]), safe |-> TRUE, index |-> idx[t]]]
        /\ lap' = [lap EXCEPT ![S] = LapOf(tkt[t])]
    BY <1>3, <1>5 DEF Insert, EnqCas
  <2>2. CASE s # S BY <1>1, <2>1, <2>2 DEF SlotMoves
  <2>3. CASE s = S
    <3>1. ~ Live(s) BY <2>1, <2>3 DEF RingInv, SlotInv, LooksKept, Real, Live
    <3>2. entry'[s].index = idx[t] /\ lap'[s] = LapOf(tkt[t]) BY <1>1, <2>1, <2>3
    <3>3. tkt[t] = NumSlots * LapOf(tkt[t]) + s BY <1>1, <1>3, <2>3, SlotFacts
    <3>4. Origin(s)' = tkt[t] BY <3>2, <3>3 DEF Origin
    <3>5. QED BY <2>1, <3>1, <3>2, <3>4 DEF SlotMoves
  <2>4. QED BY <2>2, <2>3
<1>6. CASE DeqConsume(t)
  <2>1. /\ pc[t] = "deq_consume" /\ pc' = [pc EXCEPT ![t] = "idle"] /\ lap' = lap
        /\ entry' = [entry EXCEPT ![S].index = BotC]
        /\ idx' = [idx EXCEPT ![t] = ent[t].index]
    BY <1>3, <1>6 DEF DeqConsume, Return
  <2>2. CASE s # S BY <1>1, <2>1, <2>2 DEF SlotMoves
  <2>3. CASE s = S
    <3>1. entry[s].index = ent[t].index
      BY <1>3, <2>1, <2>3 DEF RingInv, SlotInv, ConsumeFindsItem
    <3>2. entry'[s].index = BotC BY <1>1, <2>1, <2>3 DEF Entries
    <3>3. ~ Live(s)' BY <1>2, <3>2 DEF Live, Real
    <3>4. pc'[t] = "idle" /\ idx'[t] = entry[s].index BY <1>1, <2>1, <3>1
    <3>5. QED BY <2>1, <3>3, <3>4 DEF SlotMoves
  <2>4. QED BY <2>2, <2>3
<1>7. CASE /\ pc[t] = "deq_cas" /\ entry[S] = ent[t]
           /\ entry' = [entry EXCEPT ![S] = Spoiled(ent[t], tkt[t])]
           /\ lap' = [lap EXCEPT ![S] = IF Real(ent[t]) THEN @ ELSE LapOf(tkt[t])]
  <2>1. CASE s # S BY <1>1, <1>7, <2>1 DEF SlotMoves
  <2>2. CASE s = S /\ Real(ent[t])
    <3>1. Spoiled(ent[t], tkt[t]).index = ent[t].index
      BY <1>1, <2>2 DEF Spoiled, Entries
    <3>2. entry'[s] = Spoiled(ent[t], tkt[t]) /\ lap'[s] = lap[s] BY <1>1, <1>7, <2>2
    <3>3. QED BY <1>7, <2>2, <3>1, <3>2 DEF SlotMoves
  <2>3. CASE s = S /\ ~ Real(ent[t])
    <3>1. Spoiled(ent[t], tkt[t]).index = Bot BY <1>1, <2>3 DEF Spoiled, Entries
    <3>2. entry'[s] = Spoiled(ent[t], tkt[t]) BY <1>1, <1>7, <2>3
    <3>3. ~ Live(s) /\ ~ Live(s)' BY <1>2, <1>7, <2>3, <3>1, <3>2 DEF Live, Real
    <3>4. QED BY <3>3 DEF SlotMoves
  <2>4. QED BY <2>1, <2>2, <2>3
<1>8. CASE EnqStep(t)
  <2>1. \/ EnqCas(t) /\ Insert(t)
        \/ UNCHANGED <<entry, lap>>
    BY <1>8 DEF EnqStep, EnqTicket, EnqLoad, EnqHead, EnqCas, EnqThreshold, EnqReset, ringVars
  <2>2. QED BY <1>4, <1>5, <2>1
<1>9. CASE DeqCas(t)
  <2>1. \/ UNCHANGED <<entry, lap>>
        \/ /\ pc[t] = "deq_cas" /\ entry[S] = ent[t]
           /\ entry' = [entry EXCEPT ![S] = Spoiled(ent[t], tkt[t])]
           /\ lap' = [lap EXCEPT ![S] = IF Real(ent[t]) THEN @ ELSE LapOf(tkt[t])]
    BY <1>3, <1>9 DEF DeqCas
  <2>2. QED BY <1>4, <1>7, <2>1
<1>10. CASE DeqStep(t) /\ ~ DeqConsume(t) /\ ~ DeqCas(t)
  <2>1. UNCHANGED <<entry, lap>>
    BY <1>10 DEF DeqStep, DeqTicket, DeqLoad, DeqTail, DeqRetry, DeqEmpty,
                 CatchupCas, CatchupHead, CatchupTail, ringVars
  <2>2. QED BY <1>4, <2>1
<1>11. CASE (\E i \in Indices : EnqStart(t, i)) \/ DeqStart(t)
  <2>1. UNCHANGED <<entry, lap>> BY <1>11 DEF EnqStart, DeqStart, ringVars
  <2>2. QED BY <1>4, <2>1
<1>12. QED
  BY <1>6, <1>8, <1>9, <1>10, <1>11 DEF RingAction, RingStep

\* tail only grows, and an enqueuer gets the ticket that it has just passed.
TicketMoves(t) ==
  /\ tail <= tail'
  /\ \A u \in Threads \ {t} : /\ pc'[u] = pc[u] /\ idx'[u] = idx[u]
                              /\ tkt'[u] = tkt[u] /\ goal'[u] = goal[u]
  /\ pc'[t] \in {"enq_load", "enq_head", "enq_cas"} =>
       /\ pc[t] \in Carrying /\ idx'[t] = idx[t]
       /\ \/ pc[t] # "enq_faa" /\ tkt'[t] = tkt[t]
          \/ tkt'[t] = tail /\ tail' = tail + 1
  /\ pc'[t] = "cu_cas" => goal'[t].tail <= goal'[t].head

LEMMA TicketsMove ==
  ASSUME RingAssumptions, RingInv, TailAhead, NEW t \in Threads, RingAction(t)
  PROVE  TicketMoves(t)
<1>1. /\ pc \in [Threads -> Pcs] /\ idx \in [Threads -> 0 .. N] /\ tkt \in [Threads -> Nat]
      /\ goal \in [Threads -> [tail : Nat, head : Nat, tries : 0 .. Catchups]]
      /\ tail \in Nat /\ head \in Nat
  BY DEF RingInv, RingTypeOK, Pcs
<1>2. \A u \in Threads \ {t} : /\ pc'[u] = pc[u] /\ idx'[u] = idx[u]
                               /\ tkt'[u] = tkt[u] /\ goal'[u] = goal[u]
  <2>1. CASE EnqStep(t)
    BY <1>1, <2>1
    DEF EnqStep, EnqTicket, EnqLoad, EnqLook, EnqHead, EnqCas, Insert, EnqThreshold,
        EnqReset, GoTo, Return, ringVars
  <2>2. CASE DeqStep(t)
    BY <1>1, <2>2
    DEF DeqStep, DeqTicket, DeqLoad, DeqLook, DeqConsume, DeqCas, DeqTail, DeqRetry,
        DeqEmpty, CatchupCas, CatchupHead, CatchupTail, GoTo, Return, ringVars
  <2>3. CASE (\E i \in Indices : EnqStart(t, i)) \/ DeqStart(t)
    BY <1>1, <2>3 DEF EnqStart, DeqStart, GoTo, ringVars
  <2>4. QED BY <2>1, <2>2, <2>3 DEF RingAction, RingStep
<1>3. CASE EnqTicket(t)
  BY <1>1, <1>2, <1>3 DEF EnqTicket, GoTo, TicketMoves, Carrying
<1>4. CASE EnqStep(t) /\ ~ EnqTicket(t)
  <2>1. /\ tail' = tail /\ tkt'[t] \in {tkt[t], 0} /\ pc'[t] # "cu_cas"
        /\ pc[t] \in {"enq_load", "enq_head", "enq_cas"} =>
             tkt'[t] = tkt[t] /\ idx'[t] = idx[t]
        /\ pc[t] \notin {"enq_load", "enq_head", "enq_cas"} =>
             pc'[t] \notin {"enq_load", "enq_head", "enq_cas"}
    BY <1>1, <1>4
    DEF EnqStep, EnqLoad, EnqLook, AfterEnqLook, EnqHead, EnqCas, Insert, EnqThreshold,
        EnqReset, GoTo, Return, ringVars
  <2>2. QED BY <1>1, <1>2, <2>1 DEF TicketMoves, Carrying
<1>5. CASE CatchupCas(t)
  <2>1. pc[t] = "cu_cas" /\ pc'[t] \in {"deq_empty", "cu_head"}
    BY <1>1, <1>5 DEF CatchupCas, GoTo
  <2>2. tail <= tail' BY <1>1, <1>5, <2>1 DEF CatchupCas, TailAhead
  <2>3. QED BY <1>2, <2>1, <2>2 DEF TicketMoves
<1>6. CASE DeqTail(t)
  <2>1. tail' = tail BY <1>6 DEF DeqTail, ringVars
  <2>2. pc'[t] \in {"cu_cas", "deq_retry"} BY <1>1, <1>6 DEF DeqTail, GoTo
  <2>3. pc'[t] = "cu_cas" => goal'[t].tail <= goal'[t].head
    BY <1>1, <1>6 DEF DeqTail, GoTo
  <2>4. QED BY <1>1, <1>2, <2>1, <2>2, <2>3 DEF TicketMoves
<1>7. CASE CatchupTail(t)
  <2>1. tail' = tail BY <1>7 DEF CatchupTail, ringVars
  <2>2. pc'[t] \in {"deq_empty", "cu_cas"} BY <1>1, <1>7 DEF CatchupTail, GoTo
  <2>3. pc'[t] = "cu_cas" => goal'[t].tail <= goal'[t].head
    BY <1>1, <1>7 DEF CatchupTail, GoTo
  <2>4. QED BY <1>1, <1>2, <2>1, <2>2, <2>3 DEF TicketMoves
<1>8. CASE \/ DeqTicket(t) \/ DeqLoad(t) \/ DeqConsume(t) \/ DeqCas(t) \/ DeqRetry(t)
           \/ DeqEmpty(t) \/ CatchupHead(t)
  <2>1. tail' = tail /\ pc'[t] \notin {"enq_load", "enq_head", "enq_cas", "cu_cas"}
    BY <1>1, <1>8
    DEF DeqTicket, DeqLoad, DeqLook, AfterDeqLook, DeqConsume, DeqCas, DeqRetry, DeqEmpty,
        CatchupHead, GoTo, Return, ringVars
  <2>2. QED BY <1>1, <1>2, <2>1 DEF TicketMoves
<1>9. CASE (\E i \in Indices : EnqStart(t, i)) \/ DeqStart(t)
  <2>1. tail' = tail /\ pc'[t] \in {"enq_faa", "idle", "deq_faa"}
    BY <1>1, <1>9 DEF EnqStart, DeqStart, GoTo, ringVars
  <2>2. QED BY <1>1, <1>2, <2>1 DEF TicketMoves
<1>10. QED
  BY <1>3, <1>4, <1>5, <1>6, <1>7, <1>8, <1>9 DEF RingAction, RingStep, DeqStep

LEMMA TailAheadNext ==
  ASSUME RingAssumptions, RingInv, TailAhead, NEW t \in Threads, RingAction(t)
  PROVE  TailAhead'
<1>1. TicketMoves(t) BY TicketsMove
<1>2. RingInv' BY RingInvKept
<1>3. /\ tail \in Nat /\ tail' \in Nat /\ lap \in [Slots -> Nat] /\ lap' \in [Slots -> Nat]
      /\ tkt \in [Threads -> Nat] /\ tkt' \in [Threads -> Nat]
  BY <1>2 DEF RingInv, RingTypeOK
<1>4. ASSUME NEW u \in Threads
      PROVE  /\ pc'[u] \in {"enq_load", "enq_head", "enq_cas"} => tkt'[u] < tail'
             /\ pc'[u] = "cu_cas" => goal'[u].tail <= goal'[u].head
  <2>1. pc[u] \in {"enq_load", "enq_head", "enq_cas"} => tkt[u] < tail BY DEF TailAhead
  <2>2. pc[u] = "cu_cas" => goal[u].tail <= goal[u].head BY DEF TailAhead
  <2>3. CASE u = t BY <1>1, <1>3, <2>1, <2>3 DEF TicketMoves, Carrying
  <2>4. CASE u # t BY <1>1, <1>3, <2>1, <2>2, <2>4 DEF TicketMoves
  <2>5. QED BY <2>3, <2>4
<1>5. ASSUME NEW s \in Slots, Live(s)' PROVE Origin(s)' < tail'
  <2>1. SlotMoves(t, s) BY SlotsMove
  <2>2. Live(s) => Origin(s) < tail BY DEF TailAhead
  <2>3. lap[s] \in Nat BY <1>3
  <2>4. Origin(s) \in Nat BY <2>3, OriginFacts
  <2>5. CASE entry'[s].index = entry[s].index /\ lap'[s] = lap[s]
    <3>1. Live(s) BY <1>5, <2>5 DEF Live, Real
    <3>2. Origin(s)' = Origin(s) BY <2>5 DEF Origin
    <3>3. QED BY <1>1, <1>3, <2>2, <2>4, <3>1, <3>2 DEF TicketMoves
  <2>6. CASE pc[t] = "enq_cas" /\ Origin(s)' = tkt[t]
    <3>1. tkt[t] < tail BY <2>6 DEF TailAhead
    <3>2. QED BY <1>1, <1>3, <2>6, <3>1 DEF TicketMoves
  <2>7. QED BY <1>5, <2>1, <2>5, <2>6 DEF SlotMoves
<1>6. QED BY <1>4, <1>5 DEF TailAhead

\* The steps of the ring are those of GlfRing.
LEMMA RingActions ==
  ASSUME spare \subseteq Indices, NEW t \in Threads, Enqueue(t) \/ Dequeue(t) \/ InRing(t)
  PROVE  RingAction(t)
<1>1. Enqueue(t) => \E i \in Indices : EnqStart(t, i) BY DEF Enqueue
<1>2. (Dequeue(t) => DeqStart(t)) /\ (InRing(t) => RingStep(t)) BY DEF Dequeue, InRing
<1>3. QED BY <1>1, <1>2 DEF RingAction

\* Slot s holds an item that is ahead of index i.
AheadOf(s, i) ==
  /\ \A t \in Threads : Carries(t, i) /\ pc[t] # "enq_faa" => Origin(s) < tkt[t]
  /\ \A r \in Holders(i) : Origin(s) < Origin(r)

\* An item that is not taken stays ahead of the indices that it is ahead of.
LEMMA StaysAhead ==
  ASSUME RingAssumptions, RingInv, TailAhead, NEW t \in Threads, RingAction(t),
         NEW i \in Indices, NEW j \in Indices, NEW s \in Holders(j), AheadOf(s, i),
         ~ (pc[t] = "deq_consume" /\ pc'[t] = "idle" /\ idx'[t] = j)
  PROVE  s \in Holders(j)' /\ AheadOf(s, i)'
<1>1. s \in Slots /\ Live(s) /\ entry[s].index = j BY DEF Holders, Live, Real
<1>2. entry'[s].index = j /\ Origin(s)' = Origin(s)
  <2>1. SlotMoves(t, s) BY <1>1, SlotsMove
  <2>2. entry'[s].index = j /\ lap'[s] = lap[s] BY <1>1, <2>1 DEF SlotMoves
  <2>3. QED BY <2>2 DEF Origin
<1>3. TicketMoves(t) BY TicketsMove
<1>4. Origin(s) < tail BY <1>1 DEF TailAhead
<1>5. ASSUME NEW u \in Threads, Carries(u, i)', pc'[u] # "enq_faa"
      PROVE  Origin(s)' < tkt'[u]
  <2>1. pc'[u] \in Carrying /\ idx'[u] = i BY <1>5 DEF Carries
  <2>2. CASE u # t
    <3>1. pc'[u] = pc[u] /\ idx'[u] = idx[u] /\ tkt'[u] = tkt[u]
      BY <1>3, <2>2 DEF TicketMoves
    <3>2. QED BY <1>2, <1>5, <2>1, <3>1 DEF AheadOf, Carries
  <2>3. CASE u = t
    <3>1. pc'[t] \in {"enq_load", "enq_head", "enq_cas"} BY <1>5, <2>1, <2>3 DEF Carrying
    <3>2. /\ Carries(t, i)
          /\ \/ pc[t] # "enq_faa" /\ tkt'[t] = tkt[t]
             \/ tkt'[t] = tail
      BY <1>3, <2>1, <2>3, <3>1 DEF TicketMoves, Carries
    <3>3. QED BY <1>2, <1>4, <2>3, <3>2 DEF AheadOf
  <2>4. QED BY <2>2, <2>3
<1>6. ASSUME NEW r \in Slots, entry'[r].index = i PROVE Origin(s)' < Origin(r)'
  <2>1. SlotMoves(t, r) BY SlotsMove
  <2>2. Live(r)' BY <1>6 DEF Live, Real
  <2>3. CASE entry'[r].index = entry[r].index /\ lap'[r] = lap[r]
    <3>1. r \in Holders(i) /\ Origin(r)' = Origin(r) BY <1>6, <2>3 DEF Holders, Origin
    <3>2. QED BY <1>2, <3>1 DEF AheadOf
  <2>4. CASE pc[t] = "enq_cas" /\ entry'[r].index = idx[t] /\ Origin(r)' = tkt[t]
    <3>1. Carries(t, i) BY <1>6, <2>4 DEF Carries, Carrying
    <3>2. QED BY <1>2, <2>4, <3>1 DEF AheadOf
  <2>5. QED BY <2>1, <2>2, <2>3, <2>4 DEF SlotMoves
<1>7. QED BY <1>1, <1>2, <1>5, <1>6 DEF Holders, AheadOf

LEMMA OlderNext ==
  ASSUME RingInv, UseTypes, \A i \in Indices : OnePlace(i), TailAhead, OlderAhead,
         NEW t \in Threads, Enqueue(t) \/ Dequeue(t) \/ InRing(t)
  PROVE  OlderAhead'
<1>1. RingAssumptions BY ConstantsAssumption
<1>2. RingAction(t) BY RingActions DEF UseTypes
<1>3. older \in [Indices -> SUBSET Indices] /\ spare \subseteq Indices BY DEF UseTypes
<1>4. ASSUME NEW i \in Indices, NEW j \in older[i],
             ~ (pc[t] = "deq_consume" /\ pc'[t] = "idle" /\ idx'[t] = j)
      PROVE  \E s \in Holders(j)' : AheadOf(s, i)'
  <2>1. j \in Indices BY <1>3
  <2>2. PICK s \in Holders(j) : AheadOf(s, i) BY DEF OlderAhead, AheadOf
  <2>3. QED BY <1>1, <1>2, <1>4, <2>1, <2>2, StaysAhead
<1>5. ASSUME NEW i \in Indices, NEW j \in older'[i] PROVE \E s \in Holders(j)' : AheadOf(s, i)'
  <2>1. CASE Enqueue(t)
    <3>1. PICK k \in spare : /\ EnqStart(t, k)
                             /\ older' = [older EXCEPT ![k] = {x \in Inside : ~ Returning(x)}]
      BY <2>1 DEF Enqueue
    <3>2. /\ SameOthers(t) /\ pc[t] = "idle" /\ pc'[t] \in Carrying
          /\ \A x : Holders(x)' = Holders(x)
      BY <3>1, RingStarts
    <3>3. CASE i = k
      <4>1. j \in Inside BY <1>3, <1>5, <3>1, <3>3
      <4>2. PICK s \in Slots : s \in Holders(j) BY <4>1 DEF Inside, Holders
      <4>3. Holders(i)' = {} /\ \A u \in Threads : ~ Carries(u, i)
        BY <1>5, <3>1, <3>2, <3>3 DEF OnePlace, Carriers
      <4>4. pc'[t] = "enq_faa"
        BY <3>1 DEF EnqStart, GoTo, RingInv, RingTypeOK
      <4>5. AheadOf(s, i)'
        <5>1. \A u \in Threads : ~ (Carries(u, i)' /\ pc'[u] # "enq_faa")
          BY <3>2, <4>3, <4>4 DEF SameOthers, Carries
        <5>2. QED BY <4>3, <5>1 DEF AheadOf
      <4>6. s \in Holders(j)' BY <3>2, <4>2
      <4>7. QED BY <4>5, <4>6
    <3>4. CASE i # k
      <4>1. j \in older[i] BY <1>3, <1>5, <3>1, <3>4
      <4>2. QED BY <1>4, <3>2, <4>1
    <3>5. QED BY <3>3, <3>4
  <2>2. CASE Dequeue(t)
    <3>1. j \in older[i] /\ pc[t] = "idle" BY <1>5, <2>2 DEF Dequeue, DeqStart
    <3>2. QED BY <1>4, <3>1
  <2>3. CASE InRing(t)
    <3>1. /\ spare' = IF pc'[t] = "idle" /\ idx'[t] # Bot THEN spare \cup {idx'[t]} ELSE spare
          /\ older' = [x \in Indices |-> older[x] \ (spare' \ spare)]
      BY <2>3 DEF InRing
    <3>2. j \in older[i] /\ j \notin spare' \ spare BY <1>5, <3>1
    <3>3. j \in Indices /\ j \notin spare
      <4>1. j \in Indices /\ Holders(j) # {} BY <1>3, <3>2 DEF OlderAhead
      <4>2. QED BY <4>1 DEF OnePlace
    <3>4. Bot \notin Indices BY <1>1, SizeFacts DEF Bot, Indices
    <3>5. ~ (pc'[t] = "idle" /\ idx'[t] = j) BY <3>1, <3>2, <3>3, <3>4
    <3>6. QED BY <1>4, <3>2, <3>5
  <2>4. QED BY <2>1, <2>2, <2>3
<1>6. QED BY <1>5 DEF OlderAhead, AheadOf

LEMMA OrderInit == Init => TailAhead /\ OlderAhead
<1>1. SUFFICES ASSUME Init PROVE TailAhead /\ OlderAhead OBVIOUS
<1>2. RingAssumptions BY ConstantsAssumption
<1>3. /\ NumSlots \in Nat \ {0} /\ N \in Nat \ {0}
  BY <1>2, SizeFacts
<1>4. \A t \in Threads : pc[t] = "idle" BY <1>1 DEF Init, InitEmpty, InitFull, InitCalls
<1>5. CASE InitEmpty /\ older = [i \in Indices |-> {}]
  <2>1. \A i \in Indices : Holders(i) = {} BY <1>2, <1>5, InitEmptyFacts
  <2>2. \A s \in Slots : ~ Live(s) BY <2>1 DEF Live, Real, Holders
  <2>3. QED BY <1>4, <1>5, <2>2 DEF TailAhead, OlderAhead
<1>6. CASE InitFull /\ older = [i \in Indices |-> 0 .. i - 1]
  <2>1. /\ \A s \in Slots : Live(s) => lap[s] = 1
        /\ \A i \in Indices : i \in Slots /\ Holders(i) = {i}
    BY <1>2, <1>6, InitFullFacts
  <2>2. tail = NumSlots + N BY <1>6 DEF InitFull
  <2>3. ASSUME NEW s \in Slots, Live(s) PROVE s \in Indices /\ Origin(s) = NumSlots + s
    <3>1. entry[s].index \in Indices /\ s \in Holders(entry[s].index)
      BY <2>3 DEF Live, Real, Holders
    <3>2. s \in Indices BY <2>1, <3>1
    <3>3. QED BY <1>3, <2>1, <2>3, <3>2 DEF Origin
  <2>4. TailAhead BY <1>3, <1>4, <2>2, <2>3 DEF TailAhead, Indices
  <2>5. ASSUME NEW i \in Indices, NEW j \in older[i] PROVE \E s \in Holders(j) : AheadOf(s, i)
    <3>1. j \in Indices /\ j < i BY <1>3, <1>6 DEF Indices
    <3>2. /\ i \in Slots /\ Holders(i) = {i} /\ j \in Slots /\ Holders(j) = {j}
      BY <2>1, <3>1
    <3>3. Live(i) /\ Live(j) BY <3>1, <3>2 DEF Holders, Live, Real
    <3>4. Origin(j) < Origin(i) BY <1>3, <2>3, <3>1, <3>2, <3>3 DEF Indices
    <3>5. \A t \in Threads : ~ Carries(t, i) BY <1>4 DEF Carries, Carrying
    <3>6. QED BY <3>2, <3>4, <3>5 DEF AheadOf
  <2>6. QED BY <2>4, <2>5 DEF OlderAhead, AheadOf
<1>7. QED BY <1>1, <1>5, <1>6 DEF Init

-----------------------------------------------------------------------------
(***************************************************************************)
(* The inductive invariant and what follows from it                        *)
(***************************************************************************)
LEMMA InitIInv == Init => IInv
<1>1. SUFFICES ASSUME Init PROVE IInv OBVIOUS
<1>2. RingAssumptions BY ConstantsAssumption
<1>3. RingInv BY <1>1, <1>2, RingInvInit DEF Init
<1>4. UseTypes
  <2>1. CASE InitEmpty /\ spare = Indices /\ older = [i \in Indices |-> {}]
    BY <1>1, <2>1, MaxCallsAssumption DEF Init, UseTypes
  <2>2. CASE InitFull /\ spare = {} /\ older = [i \in Indices |-> 0 .. i - 1]
    <3>1. \A i \in Indices : 0 .. i - 1 \in SUBSET Indices BY <1>2 DEF RingAssumptions, Indices
    <3>2. older \in [Indices -> SUBSET Indices] BY <2>2, <3>1
    <3>3. QED BY <1>1, <2>2, <3>2, MaxCallsAssumption DEF Init, UseTypes
  <2>3. QED BY <1>1, <2>1, <2>2 DEF Init
<1>5. ASSUME NEW i \in Indices PROVE OnePlace(i)
  <2>1. pc = [t \in Threads |-> "idle"] BY <1>1 DEF Init, InitEmpty, InitFull, InitCalls
  <2>2. Carriers(i) = {} BY <2>1 DEF Carriers, Carries, Carrying
  <2>3. CASE InitEmpty /\ spare = Indices
    BY <1>2, <2>2, <2>3, InitEmptyFacts DEF OnePlace
  <2>4. CASE InitFull /\ spare = {}
    BY <1>2, <2>2, <2>4, InitFullFacts DEF OnePlace
  <2>5. QED BY <1>1, <2>3, <2>4 DEF Init
<1>6. IndicesConserved BY <1>5, PlacesOne DEF IndicesConserved
<1>7. TypeOK BY <1>3, <1>4 DEF RingInv, UseTypes, TypeOK
<1>8. TailAhead /\ OlderAhead BY <1>1, OrderInit
<1>9. QED BY <1>3, <1>6, <1>7, <1>8 DEF IInv

LEMMA NextIInv == IInv /\ [Next]_vars => IInv'
<1>1. SUFFICES ASSUME IInv, [Next]_vars PROVE IInv' OBVIOUS
<1>2. RingAssumptions /\ RingInv /\ UseTypes /\ TailAhead /\ OlderAhead
  BY <1>1, ConstantsAssumption DEF IInv, TypeOK, UseTypes
<1>3. \A i \in Indices : OnePlace(i) BY <1>1, PlacesOne DEF IInv, IndicesConserved
<1>4. RingInv' /\ UseTypes' /\ TailAhead' /\ OlderAhead' /\ \A i \in Indices : OnePlace(i)'
  <2>1. CASE UNCHANGED vars
    <3>1. RingInv' BY <1>2, <2>1, RingInvStays DEF vars
    <3>2. UseTypes' BY <1>2, <2>1 DEF UseTypes, vars, useVars
    <3>3. \A i \in Indices : /\ Carriers(i)' = Carriers(i) /\ Holders(i)' = Holders(i)
                             /\ spare' = spare
      BY <2>1 DEF Carriers, Carries, Holders, vars, ring, ringVars, callVars, useVars
    <3>4. TailAhead' /\ OlderAhead'
      BY <1>2, <2>1 DEF TailAhead, OlderAhead, Holders, Carries, Live, Origin,
                        vars, ring, ringVars, callVars, useVars
    <3>5. QED BY <1>3, <3>1, <3>2, <3>3, <3>4, StaysPut
  <2>2. ASSUME NEW t \in Threads, Enqueue(t) \/ Dequeue(t) \/ InRing(t)
        PROVE  /\ RingInv' /\ UseTypes' /\ TailAhead' /\ OlderAhead'
               /\ \A i \in Indices : OnePlace(i)'
    <3>1. RingAction(t) BY <1>2, <2>2, RingActions DEF UseTypes
    <3>2. RingInv' BY <1>2, <3>1, RingInvKept
    <3>3. UseTypes' BY <1>2, <2>2, <3>2, UseTypesNext DEF RingInv
    <3>4. spare \subseteq Indices BY <1>2 DEF UseTypes
    <3>5. \A i \in Indices : OnePlace(i)' BY <1>2, <1>3, <2>2, <3>4, PlaceNext
    <3>6. TailAhead' BY <1>2, <3>1, TailAheadNext
    <3>7. OlderAhead' BY <1>2, <1>3, <2>2, OlderNext
    <3>8. QED BY <3>2, <3>3, <3>5, <3>6, <3>7
  <2>3. QED BY <1>1, <2>1, <2>2 DEF Next
<1>5. IndicesConserved'
  <2>1. ASSUME NEW i \in Indices PROVE (\E p \in Places(i) : Places(i) = {p})'
    <3>1. ((\E p \in Places(i) : Places(i) = {p}) <=> OnePlace(i))' BY PlacesOne, PTL
    <3>2. QED BY <1>4, <3>1
  <2>2. QED BY <2>1 DEF IndicesConserved
<1>6. TypeOK' BY <1>4 DEF RingInv, UseTypes, TypeOK
<1>7. QED BY <1>4, <1>5, <1>6 DEF IInv

\* The invariant above holds in every reachable state of the ring.
THEOREM InvariantHolds == Spec => []IInv
BY InitIInv, NextIInv, PTL DEF Spec

\* Every variable keeps its range; threshold, which dequeuers decrement without
\* looking, goes below zero by at most one per thread.
THEOREM TypesKept == Spec => []TypeOK
<1>1. IInv => TypeOK BY DEF IInv
<1>2. QED BY <1>1, InvariantHolds, PTL

\* No index of fq_ring_t is lost, delivered twice or overwritten, for any number of
\* threads and slots, as long as stalls stay within half the range of cycles.
THEOREM NoIndexLost == Spec => []IndicesConserved
<1>1. IInv => IndicesConserved BY DEF IInv
<1>2. QED BY <1>1, InvariantHolds, PTL

\* Between its look at a slot and its atomicOr a dequeuer's item stays in place.
THEOREM ItemsAwaitConsumers == Spec => []ConsumeFindsItem
<1>1. IInv => ConsumeFindsItem BY DEF IInv, RingInv, SlotInv
<1>2. QED BY <1>1, InvariantHolds, PTL

\* An item that head has passed still has its dequeuer on the way: fq_enqueue never
\* inserts where fq_dequeue has already gone by.
THEOREM NoItemStranded == Spec => []NoneStranded
<1>1. IInv => NoneStranded BY DEF IInv, RingInv, SlotInv
<1>2. QED BY <1>1, InvariantHolds, PTL

\* fq_ring_t is first in, first out: when fq_dequeue takes an index, every index
\* whose fq_enqueue had returned before that of this one began has been taken, or
\* the dequeuer with its ticket is on the way to it.
THEOREM FirstInFirstOut == Spec => OldestFirst
<1>1. ASSUME IInv, NEW t \in Threads, pc[t] = "deq_consume", NEW s \in Slots, Live(s),
             entry[s].index \in older[ent[t].index]
      PROVE  Claimed(s)
  <2>1. RingInv /\ TypeOK BY <1>1 DEF IInv
  <2>2. PICK i \in Indices, j \in Indices : i = ent[t].index /\ j = entry[s].index
    BY <1>1, <2>1 DEF RingInv, SlotInv, LooksKept, Real, Live
  <2>3. s \in Holders(j) BY <2>2 DEF Holders
  <2>4. PICK first \in Holders(j) : \A r \in Holders(i) : Origin(first) < Origin(r)
    BY <1>1, <2>2 DEF IInv, OlderAhead
  <2>5. first = s
    <3>1. OnePlace(j) BY <1>1, PlacesOne DEF IInv, IndicesConserved
    <3>2. QED BY <2>3, <2>4, <3>1 DEF OnePlace
  <2>6. tkt[t] < head /\ tkt[t] \in Nat /\ head \in Nat
    BY <1>1, <2>1 DEF RingInv, RingTypeOK, SlotInv, DeqTicketsTaken, DeqAtSlot
  <2>7. Slot(tkt[t]) \in Holders(i) /\ Origin(Slot(tkt[t])) = tkt[t]
    <3>1. Slot(tkt[t]) \in Slots BY <2>6, ConstantsAssumption, SlotFacts
    <3>2. QED BY <1>1, <2>1, <2>2, <3>1 DEF RingInv, SlotInv, ConsumeFindsItem, Holders
  <2>8. Origin(s) \in Nat
    <3>1. lap[s] \in Nat BY <2>1 DEF RingInv, RingTypeOK
    <3>2. QED BY <3>1, ConstantsAssumption, OriginFacts
  <2>9. Origin(s) < head BY <2>4, <2>5, <2>6, <2>7, <2>8
  <2>10. QED BY <1>1, <2>1, <2>9 DEF RingInv, SlotInv, NoneStranded
<1>2. IInv => [\A t \in Threads :
                 pc[t] = "deq_consume" /\ pc'[t] = "idle" =>
                   \A s \in Slots :
                     Live(s) /\ entry[s].index \in older[ent[t].index] => Claimed(s)]_vars
  BY <1>1
<1>3. QED BY <1>2, InvariantHolds, PTL DEF OldestFirst
===============================================================================
