---------------------------- MODULE SfQueueProofs ----------------------------
(***************************************************************************)
(* Machine-checked proofs about SfQueue, for every number of threads,      *)
(* queue length and counter width that satisfy the program's #error checks.*)
(***************************************************************************)
EXTENDS SfQueue, ModArith, FiniteSetTheorems, SequenceTheorems

-----------------------------------------------------------------------------
(***************************************************************************)
(* Slots, turns and ids of tickets                                         *)
(***************************************************************************)

\* How many times a ticket counter goes round the ring before it wraps.
Laps == TicketMod \div QueueLength

\* The ring divides the counter range evenly.
LEMMA LapsFacts ==
  /\ Laps \in Nat \ {0}
  /\ TicketMod = QueueLength * Laps
  /\ MaxId = 2 * Laps
  /\ MaxId \in Nat \ {0}
<1>1. TicketMod = QueueLength * Laps + (TicketMod % QueueLength) /\ Laps \in Nat
  BY DivMod, LengthAssumption, WrapAssumption DEF Laps
<1>2. TicketMod = QueueLength * Laps BY <1>1, LengthAssumption, WrapAssumption
<1>3. Laps # 0
  <2>1. SUFFICES ASSUME Laps = 0 PROVE FALSE OBVIOUS
  <2>2. QueueLength * 0 = 0 BY LengthAssumption
  <2>3. QED BY <1>2, <2>1, <2>2, WrapAssumption
<1>4. QED BY <1>1, <1>2, <1>3 DEF MaxId, Laps

\* Where a ticket works and how many laps precede it: the counter's wrap does
\* not show in either.
LEMMA SlotFacts ==
  ASSUME NEW n \in Nat
  PROVE  /\ Slot(n) \in Slots
         /\ Slot(n) = n % QueueLength
         /\ n \div QueueLength \in Nat
         /\ n = TicketOf(Slot(n), n \div QueueLength)
         /\ EnqTurn(n) = 2 * (n \div QueueLength)
         /\ DeqTurn(n) = 2 * (n \div QueueLength) + 1
<1>1. Slot(n) = n % QueueLength
  <2>1. QueueLength * Laps \in Nat \ {0} /\ Laps \in Nat \ {0}
    BY LapsFacts, WrapAssumption
  <2>2. (n % (QueueLength * Laps)) % QueueLength = n % QueueLength
    BY <2>1, LengthAssumption, ModThenDiv
  <2>3. QED BY <2>2, LapsFacts DEF Slot
<1>2. /\ n = QueueLength * (n \div QueueLength) + (n % QueueLength)
      /\ n \div QueueLength \in Nat
      /\ n % QueueLength \in 0 .. QueueLength - 1
  BY LengthAssumption, DivMod
<1>3. QED BY <1>1, <1>2 DEF Slots, TicketOf, EnqTurn, DeqTurn

\* The two turns of a ticket follow each other.
LEMMA TurnFacts ==
  ASSUME NEW n \in Nat
  PROVE  EnqTurn(n) \in Nat /\ DeqTurn(n) \in Nat /\ DeqTurn(n) = EnqTurn(n) + 1
<1>1. PICK q \in Nat : q = n \div QueueLength BY SlotFacts
<1>2. QED BY <1>1 DEF EnqTurn, DeqTurn

\* A slot and a lap name one ticket.
LEMMA TicketOfFacts ==
  ASSUME NEW s \in Slots, NEW k \in Nat
  PROVE  /\ TicketOf(s, k) \in Nat
         /\ Slot(TicketOf(s, k)) = s
         /\ EnqTurn(TicketOf(s, k)) = 2 * k
         /\ DeqTurn(TicketOf(s, k)) = 2 * k + 1
<1> DEFINE n == TicketOf(s, k)
<1>1. n \in Nat
  <2>1. QueueLength * k \in Nat BY LengthAssumption
  <2>2. QED BY <2>1, LengthAssumption DEF TicketOf, Slots
<1>2. n \div QueueLength = k /\ n % QueueLength = s
  <2>1. n = QueueLength * k + s BY DEF TicketOf
  <2>2. s \in 0 .. QueueLength - 1 BY DEF Slots
  <2> HIDE DEF n
  <2>3. QED BY <1>1, <2>1, <2>2, LengthAssumption, DivModOf
<1> HIDE DEF n
<1>3. Slot(n) = s /\ EnqTurn(n) = 2 * k /\ DeqTurn(n) = 2 * k + 1
  BY <1>1, <1>2, SlotFacts
<1>4. QED BY <1>1, <1>3 DEF n

\* Tickets of one slot are ordered like their laps.
LEMMA TicketOfMonotone ==
  ASSUME NEW s \in Slots, NEW k \in Nat, NEW j \in Nat, k <= j
  PROVE  TicketOf(s, k) <= TicketOf(s, j)
<1>1. QueueLength * k <= QueueLength * j
  <2>1. CASE k = j BY <2>1, LengthAssumption
  <2>2. CASE k < j
    <3>1. QueueLength * k + QueueLength <= QueueLength * j
      BY <2>2, LengthAssumption, MultiplesApart
    <3>2. QueueLength * k \in Nat /\ QueueLength * j \in Nat BY LengthAssumption
    <3>3. QED BY <3>1, <3>2, LengthAssumption
  <2>3. QED BY <2>1, <2>2
<1>2. QueueLength * k \in Nat /\ QueueLength * j \in Nat BY LengthAssumption
<1>3. s \in Nat BY LengthAssumption DEF Slots
<1>4. QED BY <1>1, <1>2, <1>3 DEF TicketOf

\* A slot and a turn name one ticket; enqueues have even turns, dequeues odd.
LEMMA TurnUnique ==
  ASSUME NEW n \in Nat, NEW m \in Nat, Slot(n) = Slot(m)
  PROVE  /\ EnqTurn(n) = EnqTurn(m) => n = m
         /\ DeqTurn(n) = DeqTurn(m) => n = m
         /\ EnqTurn(n) # DeqTurn(m)
<1>1. /\ n \div QueueLength \in Nat /\ n = TicketOf(Slot(n), n \div QueueLength)
      /\ EnqTurn(n) = 2 * (n \div QueueLength)
      /\ DeqTurn(n) = 2 * (n \div QueueLength) + 1
  BY SlotFacts
<1>2. /\ m \div QueueLength \in Nat /\ m = TicketOf(Slot(m), m \div QueueLength)
      /\ EnqTurn(m) = 2 * (m \div QueueLength)
      /\ DeqTurn(m) = 2 * (m \div QueueLength) + 1
  BY SlotFacts
<1>3. QED BY <1>1, <1>2

\* The id that a ticket waits for is its turn modulo SFQ_MAX_ID.
LEMMA IdOfTurn ==
  ASSUME NEW n \in Nat
  PROVE  /\ GetId(n) = EnqTurn(n) % MaxId
         /\ GetId(n) + 1 = DeqTurn(n) % MaxId
<1>1. PICK q \in Nat : q = n \div QueueLength BY SlotFacts
<1>2. (n % TicketMod) \div QueueLength = q % Laps
  <2>1. QueueLength * Laps \in Nat \ {0} /\ Laps \in Nat \ {0}
    BY LapsFacts, WrapAssumption
  <2>2. (n % (QueueLength * Laps)) \div QueueLength = (n \div QueueLength) % Laps
    BY <2>1, LengthAssumption, ModThenDiv
  <2>3. QED BY <1>1, <2>2, LapsFacts
<1>3. q % Laps \in Nat
  <2>1. Laps \in Nat \ {0} BY LapsFacts
  <2>2. q % Laps \in 0 .. Laps - 1 BY <2>1, DivMod
  <2>3. QED BY <2>1, <2>2
<1>4. GetId(n) = 2 * (q % Laps) BY <1>2, <1>3 DEF GetId
<1>5. EnqTurn(n) = 2 * q /\ DeqTurn(n) = 2 * q + 1 BY <1>1 DEF EnqTurn, DeqTurn
<1>6. (2 * q) % MaxId = 2 * (q % Laps) /\ (2 * q + 1) % MaxId = 2 * (q % Laps) + 1
  BY <1>1, LapsFacts, DoubleMod
<1>7. QED BY <1>4, <1>5, <1>6

\* sfq_next_id counts one up and wraps with the turns.
LEMMA NextIdIsSuccessor ==
  ASSUME NEW x \in Nat
  PROVE  NextId(x % MaxId) = (x + 1) % MaxId
BY LapsFacts, ModSuccessor DEF NextId

-----------------------------------------------------------------------------
(***************************************************************************)
(* Few tickets wait for a slot, so a matching id means a matching turn     *)
(***************************************************************************)

\* Tickets of one slot with different holders are at most as many as threads.
LEMMA FewHolders ==
  ASSUME NEW W \in SUBSET Threads, NEW T \in [Threads -> Nat], NEW s \in Slots,
         NEW lo \in Nat, NEW hi \in Nat,
         \A k \in lo .. hi - 1 : \E t \in W : T[t] = TicketOf(s, k)
  PROVE  hi - lo <= Cardinality(Threads)
<1> DEFINE K == lo .. hi - 1
           f == [k \in K |-> CHOOSE t \in W : T[t] = TicketOf(s, k)]
<1>1. \A k \in K : f[k] \in Threads /\ T[f[k]] = TicketOf(s, k) OBVIOUS
<1>2. \A j, k \in K : TicketOf(s, j) = TicketOf(s, k) => j = k
  <2>1. SUFFICES ASSUME NEW j \in K, NEW k \in K, TicketOf(s, j) = TicketOf(s, k)
                 PROVE  j = k
    OBVIOUS
  <2>2. j \in Nat /\ k \in Nat OBVIOUS
  <2>3. EnqTurn(TicketOf(s, j)) = 2 * j /\ EnqTurn(TicketOf(s, k)) = 2 * k
    BY <2>2, TicketOfFacts
  <2>4. QED BY <2>1, <2>2, <2>3
<1>3. f \in Injection(K, Threads)
  <2>1. f \in [K -> Threads] BY <1>1
  <2>2. \A j, k \in K : f[j] = f[k] => j = k
    <3> HIDE DEF f
    <3>1. QED BY <1>1, <1>2
  <2> HIDE DEF f
  <2>3. QED BY <2>1, <2>2 DEF Injection, IsInjective
<1>4. Cardinality(K) <= Cardinality(Threads)
  BY <1>3, FS_Injection, ThreadsAssumption
<1>5. Cardinality(K) = IF lo > hi - 1 THEN 0 ELSE hi - 1 - lo + 1 BY FS_Interval
<1>6. Cardinality(Threads) \in Nat BY FS_CardinalityType, ThreadsAssumption
<1>7. QED BY <1>4, <1>5, <1>6

\* A number has a half, rounded up.
LEMMA HalfUp == ASSUME NEW p \in Nat PROVE \E c \in Nat : p <= 2 * c /\ 2 * c <= p + 1
<1>1. PICK q \in Nat, r \in 0 .. 1 : p = 2 * q + r
  <2>1. 2 \in Nat \ {0} OBVIOUS
  <2>2. p = 2 * (p \div 2) + (p % 2) /\ p \div 2 \in Nat /\ p % 2 \in 0 .. 2 - 1
    BY <2>1, DivMod
  <2>3. QED BY <2>2
<1>2. CASE r = 0 BY <1>1, <1>2
<1>3. CASE r = 1
  <2>1. q + 1 \in Nat /\ p <= 2 * (q + 1) /\ 2 * (q + 1) <= p + 1 BY <1>1, <1>3
  <2>2. QED BY <2>1
<1>4. QED BY <1>1, <1>2, <1>3

\* The slot of a ticket not yet taken has not gone past that ticket's turn.
LEMMA NotPassedYet ==
  ASSUME TypeOK, PassedWereTaken, NEW n \in Nat
  PROVE  /\ tail <= n => pass[Slot(n)] <= EnqTurn(n)
         /\ head <= n => pass[Slot(n)] <= DeqTurn(n)
<1> DEFINE s == Slot(n)
           k == n \div QueueLength
<1>1. s \in Slots /\ k \in Nat /\ n = TicketOf(s, k)
      /\ EnqTurn(n) = 2 * k /\ DeqTurn(n) = 2 * k + 1
  BY SlotFacts
<1> HIDE DEF s, k
<1>2. pass[s] \in Nat /\ head \in Nat /\ tail \in Nat BY <1>1 DEF TypeOK
<1>3. 2 * k < pass[s] => n < tail
  <2>1. SUFFICES ASSUME 2 * k < pass[s] PROVE n < tail OBVIOUS
  <2>2. k \in 0 .. pass[s] BY <1>1, <1>2, <2>1
  <2>3. TicketOf(s, k) < tail BY <1>1, <2>1, <2>2 DEF PassedWereTaken
  <2>4. QED BY <1>1, <2>3
<1>4. 2 * k + 1 < pass[s] => n < head
  <2>1. SUFFICES ASSUME 2 * k + 1 < pass[s] PROVE n < head OBVIOUS
  <2>2. k \in 0 .. pass[s] BY <1>1, <1>2, <2>1
  <2>3. TicketOf(s, k) < head BY <1>1, <2>1, <2>2 DEF PassedWereTaken
  <2>4. QED BY <1>1, <2>3
<1>5. /\ tail <= n => pass[s] <= 2 * k
      /\ head <= n => pass[s] <= 2 * k + 1
  BY <1>1, <1>2, <1>3, <1>4
<1>6. QED BY <1>1, <1>5 DEF s

\* An enqueuer that finds the id it waits for is at its turn.
LEMMA EnqIdMeansTurn ==
  ASSUME TypeOK, IdsFollowPass, HeldUntilTurn, NEW n \in Nat, n <= tail,
         pass[Slot(n)] <= EnqTurn(n), ids[Slot(n)] = GetId(n)
  PROVE  pass[Slot(n)] = EnqTurn(n)
<1> DEFINE s == Slot(n)
           hi == n \div QueueLength
           p == pass[s]
           W == {t \in Threads : HoldsEnq(t)}
<1>1. s \in Slots /\ hi \in Nat /\ n = TicketOf(s, hi) /\ EnqTurn(n) = 2 * hi
  BY SlotFacts
<1> HIDE DEF s, hi
<1>2. p \in Nat BY <1>1 DEF TypeOK
<1>3. PICK c \in Nat : p <= 2 * c /\ 2 * c <= p + 1 BY <1>2, HalfUp
<1>4. \A k \in c .. hi - 1 : \E t \in W : ticket[t] = TicketOf(s, k)
  <2>1. SUFFICES ASSUME NEW k \in c .. hi - 1
                 PROVE  \E t \in W : ticket[t] = TicketOf(s, k)
    OBVIOUS
  <2>2. k \in Nat /\ k < hi BY <1>1
  <2> DEFINE m == TicketOf(s, k)
  <2>3. m \in Nat /\ Slot(m) = s /\ EnqTurn(m) = 2 * k BY <1>1, <2>2, TicketOfFacts
  <2>4. m <= n BY <1>1, <2>2, TicketOfMonotone
  <2>5. m # n BY <1>1, <2>2, <2>3
  <2> HIDE DEF m
  <2>6. m \in 0 .. tail - 1 BY <2>3, <2>4, <2>5 DEF TypeOK
  <2>7. pass[Slot(m)] <= EnqTurn(m) BY <1>2, <1>3, <2>2, <2>3 DEF p
  <2>8. QED BY <2>6, <2>7 DEF HeldUntilTurn, m
<1>5. hi - c <= Cardinality(Threads)
  <2>1. ticket \in [Threads -> Nat] BY DEF TypeOK
  <2>2. W \in SUBSET Threads OBVIOUS
  <2> HIDE DEF W
  <2>3. QED BY <1>1, <1>3, <1>4, <2>1, <2>2, FewHolders
<1>6. Cardinality(Threads) \in Nat BY FS_CardinalityType, ThreadsAssumption
<1>7. 2 * hi < p + MaxId BY <1>1, <1>2, <1>3, <1>5, <1>6, MaxIdAssumption, LapsFacts
<1>8. p % MaxId = (2 * hi) % MaxId
  <2>1. ids[s] = p % MaxId BY <1>1 DEF IdsFollowPass
  <2>2. ids[s] = EnqTurn(n) % MaxId BY IdOfTurn DEF s
  <2>3. QED BY <1>1, <2>1, <2>2
<1>9. p < 2 * hi + MaxId
  <2>1. p <= 2 * hi BY <1>1 DEF s
  <2>2. QED BY <1>1, <1>2, <2>1, LapsFacts
<1>10. p = 2 * hi
  <2>1. 2 * hi \in Nat BY <1>1
  <2> HIDE DEF p
  <2>2. QED BY <1>2, <1>7, <1>8, <1>9, <2>1, LapsFacts, NearModEqual
<1>11. QED BY <1>1, <1>10 DEF s

\* A dequeuer that finds the id it waits for is at its turn.
LEMMA DeqIdMeansTurn ==
  ASSUME TypeOK, IdsFollowPass, HeldUntilTurn, NEW n \in Nat, n <= head,
         pass[Slot(n)] <= DeqTurn(n), ids[Slot(n)] = GetId(n) + 1
  PROVE  pass[Slot(n)] = DeqTurn(n)
<1> DEFINE s == Slot(n)
           hi == n \div QueueLength
           p == pass[s]
           W == {t \in Threads : HoldsDeq(t)}
<1>1. s \in Slots /\ hi \in Nat /\ n = TicketOf(s, hi) /\ EnqTurn(n) = 2 * hi
      /\ DeqTurn(n) = 2 * hi + 1
  BY SlotFacts
<1> HIDE DEF s, hi
<1>2. p \in Nat BY <1>1 DEF TypeOK
<1>3. PICK c \in Nat : p <= 2 * c + 1 /\ 2 * c <= p
  <2>1. CASE p = 0 BY <2>1
  <2>2. CASE p # 0
    <3>1. p - 1 \in Nat BY <1>2, <2>2
    <3>2. PICK d \in Nat : p - 1 <= 2 * d /\ 2 * d <= (p - 1) + 1 BY <3>1, HalfUp
    <3>3. p <= 2 * d + 1 /\ 2 * d <= p BY <1>2, <3>2
    <3>4. QED BY <3>3
  <2>3. QED BY <2>1, <2>2
<1>4. \A k \in c .. hi - 1 : \E t \in W : ticket[t] = TicketOf(s, k)
  <2>1. SUFFICES ASSUME NEW k \in c .. hi - 1
                 PROVE  \E t \in W : ticket[t] = TicketOf(s, k)
    OBVIOUS
  <2>2. k \in Nat /\ k < hi BY <1>1
  <2> DEFINE m == TicketOf(s, k)
  <2>3. m \in Nat /\ Slot(m) = s /\ EnqTurn(m) = 2 * k /\ DeqTurn(m) = 2 * k + 1
    BY <1>1, <2>2, TicketOfFacts
  <2>4. m <= n BY <1>1, <2>2, TicketOfMonotone
  <2>5. m # n BY <1>1, <2>2, <2>3
  <2> HIDE DEF m
  <2>6. m \in 0 .. head - 1 BY <2>3, <2>4, <2>5 DEF TypeOK
  <2>7. pass[Slot(m)] <= DeqTurn(m) BY <1>2, <1>3, <2>2, <2>3 DEF p
  <2>8. QED BY <2>6, <2>7 DEF HeldUntilTurn, m
<1>5. hi - c <= Cardinality(Threads)
  <2>1. ticket \in [Threads -> Nat] BY DEF TypeOK
  <2>2. W \in SUBSET Threads OBVIOUS
  <2> HIDE DEF W
  <2>3. QED BY <1>1, <1>3, <1>4, <2>1, <2>2, FewHolders
<1>6. Cardinality(Threads) \in Nat BY FS_CardinalityType, ThreadsAssumption
<1>7. 2 * hi + 1 < p + MaxId BY <1>1, <1>2, <1>3, <1>5, <1>6, MaxIdAssumption, LapsFacts
<1>8. p % MaxId = (2 * hi + 1) % MaxId
  <2>1. ids[s] = p % MaxId BY <1>1 DEF IdsFollowPass
  <2>2. ids[s] = DeqTurn(n) % MaxId BY IdOfTurn DEF s
  <2>3. QED BY <1>1, <2>1, <2>2
<1>9. p < 2 * hi + 1 + MaxId
  <2>1. p <= 2 * hi + 1 BY <1>1 DEF s
  <2>2. QED BY <1>1, <1>2, <2>1, LapsFacts
<1>10. p = 2 * hi + 1
  <2>1. 2 * hi + 1 \in Nat BY <1>1
  <2> HIDE DEF p
  <2> DEFINE x == 2 * hi + 1
  <2>2. x \in Nat /\ p % MaxId = x % MaxId /\ x < p + MaxId /\ p < x + MaxId
    BY <1>7, <1>8, <1>9, <2>1
  <2> HIDE DEF x
  <2>3. p = x BY <1>2, <2>2, LapsFacts, NearModEqual
  <2>4. QED BY <2>3 DEF x
<1>11. QED BY <1>1, <1>10 DEF s

-----------------------------------------------------------------------------
(***************************************************************************)
(* The inductive invariant, split into what it says of the queue and what  *)
(* it says of one thread                                                   *)
(***************************************************************************)

QueueInv ==
  /\ TypeOK /\ IdsFollowPass /\ Len(put) = tail /\ HeldByOne /\ HeldUntilTurn
  /\ PassedWereTaken /\ PublishedIntact

TicketInv(t) ==
  /\ HoldsEnq(t) => /\ ticket[t] < tail
                    /\ pass[Slot(ticket[t])] <= EnqTurn(ticket[t])
  /\ HoldsDeq(t) => /\ ticket[t] < head
                    /\ pass[Slot(ticket[t])] <= DeqTurn(ticket[t])
  /\ pc[t] \in EnqTries => ticket[t] <= tail /\ tail < ticket[t] + TicketMod
  /\ pc[t] \in DeqTries => ticket[t] <= head /\ head < ticket[t] + TicketMod
  /\ pc[t] \in {"enq_write", "enq_publish"} =>
       pass[Slot(ticket[t])] = EnqTurn(ticket[t])
  /\ pc[t] \in {"deq_read", "deq_release"} =>
       pass[Slot(ticket[t])] = DeqTurn(ticket[t])
  /\ pc[t] = "enq_cas" /\ tail = ticket[t] =>
       pass[Slot(ticket[t])] = EnqTurn(ticket[t])
  /\ pc[t] = "deq_cas" /\ head = ticket[t] =>
       pass[Slot(ticket[t])] = DeqTurn(ticket[t])

ValueInv(t) ==
  /\ left[t] # "no" => pc[t] = "idle" /\ closed
  /\ pc[t] \in EnqTries \cup {"enq_faa", "enq_load"} => val[t] \in Items
  /\ pc[t] \in EnqPcs => val[t] = put[ticket[t] + 1]
  /\ pc[t] = "enq_publish" => items[Slot(ticket[t])] = put[ticket[t] + 1]
  /\ pc[t] = "deq_release" => ticket[t] < tail /\ val[t] = put[ticket[t] + 1]

ThreadInv(t) == TicketInv(t) /\ ValueInv(t)

Parts == QueueInv /\ \A t \in Threads : ThreadInv(t)

\* Nothing is lost in the split.
LEMMA IInvParts == IInv <=> Parts
<1>1. ASSUME IInv PROVE QueueInv /\ \A t \in Threads : ThreadInv(t)
  <2>1. QueueInv BY <1>1 DEF IInv, QueueInv, TicketsTaken
  <2>2. ASSUME NEW t \in Threads PROVE ThreadInv(t)
    BY <1>1
       DEF IInv, ThreadInv, TicketInv, ValueInv, TicketsTaken, TurnNotPast, InSlotAtTurn,
                ReadyUntilTaken, LeftForGood, ValuesCarried, DeliveredInOrder
  <2>3. QED BY <2>1, <2>2
<1>2. ASSUME QueueInv, \A t \in Threads : ThreadInv(t) PROVE IInv
  <2>1. TicketsTaken BY <1>2 DEF QueueInv, ThreadInv, TicketInv, ValueInv, TicketsTaken
  <2>2. TurnNotPast BY <1>2 DEF ThreadInv, TicketInv, ValueInv, TurnNotPast
  <2>3. InSlotAtTurn BY <1>2 DEF ThreadInv, TicketInv, ValueInv, InSlotAtTurn
  <2>4. ReadyUntilTaken BY <1>2 DEF ThreadInv, TicketInv, ValueInv, ReadyUntilTaken
  <2>5. LeftForGood BY <1>2 DEF ThreadInv, TicketInv, ValueInv, LeftForGood
  <2>6. ValuesCarried BY <1>2 DEF ThreadInv, TicketInv, ValueInv, ValuesCarried
  <2>7. DeliveredInOrder BY <1>2 DEF ThreadInv, TicketInv, ValueInv, DeliveredInOrder
  <2>8. QED
    BY <1>2, <2>1, <2>2, <2>3, <2>4, <2>5, <2>6, <2>7 DEF IInv, QueueInv
<1>3. QED BY <1>1, <1>2 DEF Parts

\* Nothing that belongs to thread u changes.
Untouched(u) ==
  /\ pc'[u] = pc[u] /\ ticket'[u] = ticket[u]
  /\ val'[u] = val[u] /\ left'[u] = left[u]

(***************************************************************************)
(* A step that leaves the shared queue alone and keeps the tickets of its  *)
(* thread preserves the invariant if it does so for that thread.           *)
(***************************************************************************)
LEMMA QuietStep ==
  ASSUME QueueInv, \A u \in Threads : ThreadInv(u), TypeOK',
         NEW t \in Threads,
         UNCHANGED <<head, tail, items, ids, put, pass>>,
         closed => closed',
         \A u \in Threads \ {t} : Untouched(u),
         HoldsEnq(t)' <=> HoldsEnq(t),
         HoldsDeq(t)' <=> HoldsDeq(t),
         HoldsEnq(t) \/ HoldsDeq(t) => ticket'[t] = ticket[t],
         ThreadInv(t)'
  PROVE  QueueInv' /\ \A u \in Threads : ThreadInv(u)'
<1>1. \A u \in Threads :
        /\ HoldsEnq(u)' <=> HoldsEnq(u)
        /\ HoldsDeq(u)' <=> HoldsDeq(u)
        /\ HoldsEnq(u) \/ HoldsDeq(u) => ticket'[u] = ticket[u]
  BY DEF Untouched, HoldsEnq, HoldsDeq
<1>2. HeldByOne' BY <1>1 DEF QueueInv, HeldByOne
<1>3. HeldUntilTurn' BY <1>1 DEF QueueInv, HeldUntilTurn
<1>4. IdsFollowPass' /\ (Len(put) = tail)' /\ PassedWereTaken' /\ PublishedIntact'
  BY DEF QueueInv, IdsFollowPass, PassedWereTaken, PublishedIntact
<1>5. ASSUME NEW u \in Threads, u # t PROVE ThreadInv(u)'
  <2>1. Untouched(u) /\ ThreadInv(u) BY <1>5
  <2>2. QED BY <2>1 DEF Untouched, ThreadInv, TicketInv, ValueInv, HoldsEnq, HoldsDeq
<1>6. QED BY <1>2, <1>3, <1>4, <1>5 DEF QueueInv

\* Every action keeps the types; the ids wrap below SFQ_MAX_ID.
LEMMA TypeStep ==
  ASSUME QueueInv, \A u \in Threads : ThreadInv(u), Next
  PROVE  TypeOK'
<1>1. TypeOK BY DEF QueueInv
<1>2. PICK t \in Threads : Call(t) \/ EnqStep(t) \/ DeqStep(t) BY DEF Next
<1>3. ThreadInv(t) OBVIOUS
<1>4. \A n \in Nat : /\ Slot(n) \in Slots
                     /\ NextId(GetId(n)) \in 0 .. MaxId - 1
                     /\ NextId(GetId(n) + 1) \in 0 .. MaxId - 1
  <2>1. SUFFICES ASSUME NEW n \in Nat
                 PROVE  /\ Slot(n) \in Slots
                        /\ NextId(GetId(n)) \in 0 .. MaxId - 1
                        /\ NextId(GetId(n) + 1) \in 0 .. MaxId - 1
    OBVIOUS
  <2>2. EnqTurn(n) \in Nat /\ DeqTurn(n) \in Nat /\ Slot(n) \in Slots BY SlotFacts
  <2>3. NextId(GetId(n)) = (EnqTurn(n) + 1) % MaxId BY <2>2, IdOfTurn, NextIdIsSuccessor
  <2>4. NextId(GetId(n) + 1) = (DeqTurn(n) + 1) % MaxId
    BY <2>2, IdOfTurn, NextIdIsSuccessor
  <2>5. MaxId \in Nat \ {0} BY LapsFacts
  <2>6. ASSUME NEW x \in Nat PROVE x % MaxId \in 0 .. MaxId - 1 BY <2>5, DivMod
  <2>7. EnqTurn(n) + 1 \in Nat /\ DeqTurn(n) + 1 \in Nat BY <2>2
  <2>8. QED BY <2>2, <2>3, <2>4, <2>6, <2>7
<1>5. ASSUME NEW first \in {"enq_faa", "enq_load", "deq_faa", "deq_load"},
             NEW v \in Items \cup {NoItem}, Start(t, first, v)
      PROVE  TypeOK'
  BY <1>1, <1>5 DEF Start, TypeOK, Pcs
<1>6. ASSUME NEW next \in Pcs, GoTo(t, next) PROVE TypeOK'
  BY <1>1, <1>6 DEF GoTo, TypeOK
<1>7. ASSUME Busy(t) PROVE TypeOK' BY <1>1, <1>7 DEF Busy, TypeOK, Pcs
<1>8. ASSUME NEW side \in {"enq", "deq"}, GiveUp(t, side) PROVE TypeOK'
  BY <1>1, <1>8 DEF GiveUp, TypeOK, Pcs
<1>9. ASSUME NEW counter \in Nat, NEW next \in Pcs, LoadCounter(t, counter, next)
      PROVE  TypeOK'
  BY <1>1, <1>9 DEF LoadCounter, TypeOK
<1>10. ASSUME NEW next \in Pcs, TakeEnqTicket(t, next), val[t] \in Items PROVE TypeOK'
  <2>1. put' \in Seq(Items) BY <1>1, <1>10 DEF TakeEnqTicket, TypeOK
  <2>2. QED BY <1>1, <1>10, <2>1 DEF TakeEnqTicket, TypeOK
<1>11. ASSUME NEW next \in Pcs, TakeDeqTicket(t, next) PROVE TypeOK'
  BY <1>1, <1>11 DEF TakeDeqTicket, TypeOK
<1>12. CASE Call(t)
  <2>1. CASE Close(t) BY <1>1, <2>1 DEF Close, TypeOK
  <2>2. QED BY <1>5, <1>12, <2>1 DEF Call, EnqStart, EnqNbStart, DeqStart, DeqNbStart
<1>13. CASE EnqTicket(t)
  BY <1>3, <1>10, <1>13 DEF EnqTicket, ThreadInv, TicketInv, ValueInv, Pcs, EnqPcs
<1>14. CASE EnqPoll(t) BY <1>6, <1>14 DEF EnqPoll, Pcs, EnqPcs
<1>15. CASE EnqRecheck(t) BY <1>6, <1>8, <1>15 DEF EnqRecheck, Pcs, EnqPcs
<1>16. CASE EnqWrite(t) BY <1>1, <1>4, <1>16 DEF EnqWrite, TypeOK, Pcs, EnqPcs
<1>17. CASE EnqPublish(t)
  <2>1. ticket[t] \in Nat BY <1>1 DEF TypeOK
  <2> DEFINE s == Slot(ticket[t])
             i == NextId(GetId(ticket[t]))
  <2>2. s \in Slots /\ i \in 0 .. MaxId - 1 BY <1>4, <2>1
  <2>3. ids' = [ids EXCEPT ![s] = i] /\ pass' = [pass EXCEPT ![s] = @ + 1]
    BY <1>17 DEF EnqPublish, HandOver
  <2> HIDE DEF s, i
  <2>4. ids' \in [Slots -> 0 .. MaxId - 1] /\ pass' \in [Slots -> Nat]
    BY <1>1, <2>2, <2>3 DEF TypeOK
  <2>5. QED BY <1>1, <1>17, <2>4 DEF EnqPublish, HandOver, TypeOK, Pcs
<1>18. CASE EnqNbLoad(t) BY <1>1, <1>9, <1>18 DEF EnqNbLoad, TypeOK, Pcs, EnqTries
<1>19. CASE EnqNbCheck(t) BY <1>6, <1>7, <1>19 DEF EnqNbCheck, Pcs, EnqTries
<1>20. CASE EnqNbCas(t)
  BY <1>3, <1>7, <1>10, <1>20
     DEF EnqNbCas, ThreadInv, TicketInv, ValueInv, Pcs, EnqPcs, EnqTries
<1>21. CASE DeqTicket(t) BY <1>11, <1>21 DEF DeqTicket, Pcs, DeqPcs
<1>22. CASE DeqPoll(t) BY <1>6, <1>22 DEF DeqPoll, Pcs, DeqPcs
<1>23. CASE DeqRecheck(t) BY <1>6, <1>8, <1>23 DEF DeqRecheck, Pcs, DeqPcs
<1>24. CASE DeqRead(t) BY <1>1, <1>4, <1>24 DEF DeqRead, TypeOK, Pcs, DeqPcs
<1>25. CASE DeqRelease(t)
  <2>1. ticket[t] \in Nat BY <1>1 DEF TypeOK
  <2> DEFINE s == Slot(ticket[t])
             i == NextId(GetId(ticket[t]) + 1)
  <2>2. s \in Slots /\ i \in 0 .. MaxId - 1 BY <1>4, <2>1
  <2>3. ids' = [ids EXCEPT ![s] = i] /\ pass' = [pass EXCEPT ![s] = @ + 1]
    BY <1>25 DEF DeqRelease, HandOver
  <2> HIDE DEF s, i
  <2>4. ids' \in [Slots -> 0 .. MaxId - 1] /\ pass' \in [Slots -> Nat]
    BY <1>1, <2>2, <2>3 DEF TypeOK
  <2>5. QED BY <1>1, <1>25, <2>4 DEF DeqRelease, HandOver, TypeOK, Pcs
<1>26. CASE DeqNbLoad(t) BY <1>1, <1>9, <1>26 DEF DeqNbLoad, TypeOK, Pcs, DeqTries
<1>27. CASE DeqNbCheck(t) BY <1>6, <1>7, <1>27 DEF DeqNbCheck, Pcs, DeqTries
<1>28. CASE DeqNbCas(t) BY <1>7, <1>11, <1>28 DEF DeqNbCas, Pcs, DeqPcs
<1>29. QED
  BY <1>2, <1>12, <1>13, <1>14, <1>15, <1>16, <1>17, <1>18, <1>19, <1>20, <1>21,
     <1>22, <1>23, <1>24, <1>25, <1>26, <1>27, <1>28 DEF EnqStep, DeqStep

(***************************************************************************)
(* The actions that leave the shared queue alone                           *)
(***************************************************************************)

\* What QuietStep asks of a step of thread t.
Quiet(t) ==
  /\ UNCHANGED <<head, tail, items, ids, put, pass>>
  /\ closed => closed'
  /\ \A u \in Threads \ {t} : Untouched(u)
  /\ HoldsEnq(t)' <=> HoldsEnq(t)
  /\ HoldsDeq(t)' <=> HoldsDeq(t)
  /\ HoldsEnq(t) \/ HoldsDeq(t) => ticket'[t] = ticket[t]
  /\ ThreadInv(t)'

\* The calls, and every return that leaves the queue as it is, are quiet.
LEMMA QuietCalls ==
  ASSUME QueueInv, NEW t \in Threads, ThreadInv(t), Call(t)
  PROVE  Quiet(t)
<1>1. TypeOK BY DEF QueueInv
<1>2. pc[t] = "idle" BY DEF Call, EnqStart, EnqNbStart, DeqStart, DeqNbStart, Start, Close
<1>3. ASSUME NEW first \in {"enq_faa", "enq_load"}, NEW v \in Items, Start(t, first, v)
      PROVE  Quiet(t)
  BY <1>1, <1>2, <1>3
     DEF Start, Quiet, Untouched, ThreadInv, TicketInv, ValueInv, HoldsEnq, HoldsDeq,
                          EnqPcs, DeqPcs, EnqTries, DeqTries, TypeOK
<1>4. ASSUME NEW first \in {"deq_faa", "deq_load"}, Start(t, first, NoItem)
      PROVE  Quiet(t)
  BY <1>1, <1>2, <1>4
     DEF Start, Quiet, Untouched, ThreadInv, TicketInv, ValueInv, HoldsEnq, HoldsDeq,
                          EnqPcs, DeqPcs, EnqTries, DeqTries, TypeOK
<1>5. CASE Close(t)
  BY <1>1, <1>2, <1>5
     DEF Close, Quiet, Untouched, ThreadInv, TicketInv, ValueInv, HoldsEnq, HoldsDeq,
                          EnqPcs, DeqPcs, EnqTries, DeqTries, TypeOK
<1>6. QED BY <1>3, <1>4, <1>5 DEF Call, EnqStart, EnqNbStart, DeqStart, DeqNbStart

\* The steps of an enqueue that only look at the queue are quiet; the one that
\* finds its id learns that it is its turn.
LEMMA QuietEnqSteps ==
  ASSUME QueueInv, NEW t \in Threads, ThreadInv(t),
         \/ EnqPoll(t) \/ EnqRecheck(t) \/ EnqNbLoad(t) \/ EnqNbCheck(t)
         \/ EnqNbCas(t) /\ Busy(t)
  PROVE  Quiet(t)
<1>1. TypeOK /\ IdsFollowPass /\ HeldUntilTurn /\ PassedWereTaken BY DEF QueueInv
<1>2. ticket[t] \in Nat /\ tail \in Nat /\ head \in Nat BY <1>1 DEF TypeOK
<1>3. CASE EnqPoll(t)
  <2>1. pc[t] = "enq_poll" BY <1>3 DEF EnqPoll
  <2>2. ticket[t] <= tail /\ pass[Slot(ticket[t])] <= EnqTurn(ticket[t])
    BY <1>2, <2>1 DEF ThreadInv, TicketInv, ValueInv, HoldsEnq, EnqPcs
  <2>3. MyTurnToEnq(t) => pass[Slot(ticket[t])] = EnqTurn(ticket[t])
    BY <1>1, <1>2, <2>2, EnqIdMeansTurn DEF MyTurnToEnq
  <2>4. QED
    BY <1>1, <1>3, <2>1, <2>3
       DEF EnqPoll, GoTo, Quiet, Untouched, ThreadInv, TicketInv, ValueInv, HoldsEnq,
            HoldsDeq, EnqPcs, DeqPcs, EnqTries, DeqTries, TypeOK
<1>4. CASE EnqRecheck(t)
  BY <1>1, <1>4
     DEF EnqRecheck, GoTo, GiveUp, Quiet, Untouched, ThreadInv, TicketInv, ValueInv,
         HoldsEnq,
          HoldsDeq, EnqPcs, DeqPcs, EnqTries, DeqTries, TypeOK
<1>5. CASE EnqNbLoad(t)
  BY <1>1, <1>5, WrapAssumption
     DEF EnqNbLoad, LoadCounter, Quiet, Untouched, ThreadInv, TicketInv, ValueInv,
          HoldsEnq, HoldsDeq, EnqPcs, DeqPcs, EnqTries, DeqTries, TypeOK
<1>6. CASE EnqNbCheck(t)
  <2>1. pc[t] = "enq_check" BY <1>6 DEF EnqNbCheck
  <2>2. MyTurnToEnq(t) /\ tail = ticket[t] => pass[Slot(ticket[t])] = EnqTurn(ticket[t])
    <3>1. SUFFICES ASSUME MyTurnToEnq(t), tail = ticket[t]
                   PROVE  pass[Slot(ticket[t])] = EnqTurn(ticket[t])
      OBVIOUS
    <3>2. pass[Slot(ticket[t])] <= EnqTurn(ticket[t])
      BY <1>1, <1>2, <3>1, NotPassedYet
    <3>3. QED BY <1>1, <1>2, <3>1, <3>2, EnqIdMeansTurn DEF MyTurnToEnq
  <2>3. QED
    BY <1>1, <1>6, <2>1, <2>2
       DEF EnqNbCheck, GoTo, Busy, Quiet, Untouched, ThreadInv, TicketInv, ValueInv,
            HoldsEnq, HoldsDeq, EnqPcs, DeqPcs, EnqTries, DeqTries, TypeOK
<1>7. CASE EnqNbCas(t) /\ Busy(t)
  BY <1>1, <1>7
     DEF EnqNbCas, Busy, Quiet, Untouched, ThreadInv, TicketInv, ValueInv, HoldsEnq,
          HoldsDeq, EnqPcs, DeqPcs, EnqTries, DeqTries, TypeOK
<1>8. QED BY <1>3, <1>4, <1>5, <1>6, <1>7

\* The same for a dequeue; reading the item is quiet too, and what is read is
\* the item of the enqueue with the same ticket.
LEMMA QuietDeqSteps ==
  ASSUME QueueInv, NEW t \in Threads, ThreadInv(t),
         \/ DeqPoll(t) \/ DeqRecheck(t) \/ DeqRead(t) \/ DeqNbLoad(t) \/ DeqNbCheck(t)
         \/ DeqNbCas(t) /\ Busy(t)
  PROVE  Quiet(t)
<1>1. TypeOK /\ IdsFollowPass /\ HeldUntilTurn /\ PassedWereTaken /\ PublishedIntact
  BY DEF QueueInv
<1>2. ticket[t] \in Nat /\ tail \in Nat /\ head \in Nat BY <1>1 DEF TypeOK
<1>3. CASE DeqPoll(t)
  <2>1. pc[t] = "deq_poll" BY <1>3 DEF DeqPoll
  <2>2. ticket[t] <= head /\ pass[Slot(ticket[t])] <= DeqTurn(ticket[t])
    BY <1>2, <2>1 DEF ThreadInv, TicketInv, ValueInv, HoldsDeq, DeqPcs
  <2>3. MyTurnToDeq(t) => pass[Slot(ticket[t])] = DeqTurn(ticket[t])
    BY <1>1, <1>2, <2>2, DeqIdMeansTurn DEF MyTurnToDeq
  <2>4. QED
    BY <1>1, <1>3, <2>1, <2>3
       DEF DeqPoll, GoTo, Quiet, Untouched, ThreadInv, TicketInv, ValueInv, HoldsEnq,
            HoldsDeq, EnqPcs, DeqPcs, EnqTries, DeqTries, TypeOK
<1>4. CASE DeqRecheck(t)
  BY <1>1, <1>4
     DEF DeqRecheck, GoTo, GiveUp, Quiet, Untouched, ThreadInv, TicketInv, ValueInv,
         HoldsEnq,
          HoldsDeq, EnqPcs, DeqPcs, EnqTries, DeqTries, TypeOK
<1>5. CASE DeqRead(t)
  <2>1. pc[t] = "deq_read" BY <1>5 DEF DeqRead
  <2> DEFINE n == ticket[t]
  <2>2. pass[Slot(n)] = DeqTurn(n) BY <2>1 DEF ThreadInv, TicketInv, ValueInv
  <2>3. n < tail
    <3>1. EnqTurn(n) \in Nat /\ DeqTurn(n) = EnqTurn(n) + 1 BY <1>2, SlotFacts
    <3>2. tail <= n => pass[Slot(n)] <= EnqTurn(n) BY <1>1, <1>2, NotPassedYet
    <3>3. QED BY <1>2, <2>2, <3>1, <3>2
  <2>4. items[Slot(n)] = put[n + 1]
    <3>1. n \in 0 .. tail - 1 BY <1>2, <2>3
    <3>2. QED BY <1>1, <2>2, <3>1 DEF PublishedIntact
  <2>5. val'[t] = put[n + 1] BY <1>1, <1>5, <2>4 DEF DeqRead, TypeOK
  <2>6. QED
    BY <1>1, <1>5, <2>1, <2>3, <2>5
       DEF DeqRead, Quiet, Untouched, ThreadInv, TicketInv, ValueInv, HoldsEnq,
            HoldsDeq, EnqPcs, DeqPcs, EnqTries, DeqTries, TypeOK
<1>6. CASE DeqNbLoad(t)
  BY <1>1, <1>6, WrapAssumption
     DEF DeqNbLoad, LoadCounter, Quiet, Untouched, ThreadInv, TicketInv, ValueInv,
          HoldsEnq, HoldsDeq, EnqPcs, DeqPcs, EnqTries, DeqTries, TypeOK
<1>7. CASE DeqNbCheck(t)
  <2>1. pc[t] = "deq_check" BY <1>7 DEF DeqNbCheck
  <2>2. MyTurnToDeq(t) /\ head = ticket[t] => pass[Slot(ticket[t])] = DeqTurn(ticket[t])
    <3>1. SUFFICES ASSUME MyTurnToDeq(t), head = ticket[t]
                   PROVE  pass[Slot(ticket[t])] = DeqTurn(ticket[t])
      OBVIOUS
    <3>2. pass[Slot(ticket[t])] <= DeqTurn(ticket[t])
      BY <1>1, <1>2, <3>1, NotPassedYet
    <3>3. QED BY <1>1, <1>2, <3>1, <3>2, DeqIdMeansTurn DEF MyTurnToDeq
  <2>3. QED
    BY <1>1, <1>7, <2>1, <2>2
       DEF DeqNbCheck, GoTo, Busy, Quiet, Untouched, ThreadInv, TicketInv, ValueInv,
            HoldsEnq, HoldsDeq, EnqPcs, DeqPcs, EnqTries, DeqTries, TypeOK
<1>8. CASE DeqNbCas(t) /\ Busy(t)
  BY <1>1, <1>8
     DEF DeqNbCas, Busy, Quiet, Untouched, ThreadInv, TicketInv, ValueInv, HoldsEnq,
          HoldsDeq, EnqPcs, DeqPcs, EnqTries, DeqTries, TypeOK
<1>9. QED BY <1>3, <1>4, <1>5, <1>6, <1>7, <1>8

(***************************************************************************)
(* The actions that change the shared queue                                *)
(***************************************************************************)

\* A thread that is about to take a ticket, and takes one whose turn has come
\* if it means to work on the slot at once, preserves the invariant.
LEMMA TakeEnqPreserves ==
  ASSUME QueueInv, \A u \in Threads : ThreadInv(u), TypeOK', NEW t \in Threads,
         NEW next \in {"enq_poll", "enq_write"}, TakeEnqTicket(t, next),
         pc[t] \in {"enq_faa", "enq_cas"},
         next = "enq_write" => pass[Slot(tail)] = EnqTurn(tail)
  PROVE  QueueInv' /\ \A u \in Threads : ThreadInv(u)'
<1>1. TypeOK BY DEF QueueInv
<1>2. tail \in Nat /\ tail' = tail + 1 /\ Len(put) = tail /\ head' = head
  BY <1>1 DEF TypeOK, QueueInv, TakeEnqTicket
<1>3. val[t] \in Items /\ left[t] = "no" /\ ~ HoldsEnq(t) /\ ~ HoldsDeq(t)
  <2>1. ThreadInv(t) OBVIOUS
  <2>2. QED BY <2>1
     DEF ThreadInv, TicketInv, ValueInv, EnqTries, HoldsEnq, HoldsDeq, EnqPcs, DeqPcs
<1>4. /\ ticket'[t] = tail /\ pc'[t] = next /\ val'[t] = val[t] /\ left'[t] = left[t]
      /\ \A u \in Threads \ {t} : Untouched(u)
      /\ UNCHANGED <<closed, items, ids, pass>>
  BY <1>1 DEF TakeEnqTicket, Untouched, TypeOK
<1>5. /\ Len(put') = tail + 1
      /\ put'[tail + 1] = val[t]
      /\ \A n \in 0 .. tail - 1 : put'[n + 1] = put[n + 1]
  <2>1. put' = Append(put, val[t]) /\ put \in Seq(Items)
    BY <1>1 DEF TakeEnqTicket, TypeOK
  <2>2. QED BY <1>2, <1>3, <2>1
<1>6. pass[Slot(tail)] <= EnqTurn(tail) /\ EnqTurn(tail) \in Nat
  <2>1. tail <= tail /\ PassedWereTaken BY <1>2 DEF QueueInv
  <2>2. pass[Slot(tail)] <= EnqTurn(tail) BY <1>1, <1>2, <2>1, NotPassedYet
  <2>3. EnqTurn(tail) \in Nat BY <1>2, TurnFacts
  <2>4. QED BY <2>2, <2>3
<1>7. /\ HoldsEnq(t)' /\ ~ HoldsDeq(t)'
      /\ \A u \in Threads \ {t} : /\ HoldsEnq(u)' <=> HoldsEnq(u)
                                  /\ HoldsDeq(u)' <=> HoldsDeq(u)
                                  /\ ticket'[u] = ticket[u]
  BY <1>3, <1>4 DEF Untouched, HoldsEnq, HoldsDeq, EnqPcs, DeqPcs
<1>8. \A u \in Threads : HoldsEnq(u) => ticket[u] < tail BY
   DEF ThreadInv, TicketInv, ValueInv
<1>9. ticket \in [Threads -> Nat] BY <1>1 DEF TypeOK
<1>10. HeldByOne'
  <2>1. ASSUME NEW u \in Threads, NEW w \in Threads,
               HoldsEnq(u)', HoldsEnq(w)', ticket'[u] = ticket'[w]
        PROVE  u = w
    <3>1. \A x \in Threads \ {t} : HoldsEnq(x)' => ticket'[x] # tail
      BY <1>2, <1>7, <1>8, <1>9
    <3>2. CASE u = t \/ w = t BY <1>4, <2>1, <3>1, <3>2
    <3>3. CASE u # t /\ w # t BY <1>7, <2>1, <3>3 DEF QueueInv, HeldByOne
    <3>4. QED BY <3>2, <3>3
  <2>2. \A u, w \in Threads : HoldsDeq(u)' /\ HoldsDeq(w)' /\ ticket'[u] = ticket'[w] => u = w
    BY <1>7 DEF QueueInv, HeldByOne
  <2>3. QED BY <2>1, <2>2 DEF HeldByOne
<1>11. HeldUntilTurn'
  <2>1. ASSUME NEW n \in 0 .. tail, pass[Slot(n)] <= EnqTurn(n)
        PROVE  \E u \in Threads : HoldsEnq(u)' /\ ticket'[u] = n
    <3>1. CASE n = tail BY <1>4, <1>7, <3>1
    <3>2. CASE n # tail
      <4>1. n \in 0 .. tail - 1 BY <1>2, <3>2
      <4>2. PICK u \in Threads : HoldsEnq(u) /\ ticket[u] = n
        BY <2>1, <4>1 DEF QueueInv, HeldUntilTurn
      <4>3. u # t BY <1>3, <4>2
      <4>4. QED BY <1>7, <4>2, <4>3
    <3>3. QED BY <3>1, <3>2
  <2>2. ASSUME NEW n \in 0 .. head - 1, pass[Slot(n)] <= DeqTurn(n)
        PROVE  \E u \in Threads : HoldsDeq(u)' /\ ticket'[u] = n
    <3>1. PICK u \in Threads : HoldsDeq(u) /\ ticket[u] = n
      BY <2>2 DEF QueueInv, HeldUntilTurn
    <3>2. u # t BY <1>3, <3>1
    <3>3. QED BY <1>7, <3>1, <3>2
  <2>3. (tail + 1) - 1 = tail BY <1>2
  <2>4. QED BY <1>2, <1>4, <2>1, <2>2, <2>3 DEF HeldUntilTurn
<1>12. PassedWereTaken'
  <2>1. SUFFICES ASSUME NEW s \in Slots, NEW k \in 0 .. pass[s]
                 PROVE  /\ 2 * k < pass[s] => TicketOf(s, k) < tail + 1
                        /\ 2 * k + 1 < pass[s] => TicketOf(s, k) < head
    BY <1>2, <1>4 DEF PassedWereTaken
  <2>2. pass[s] \in Nat BY <1>1 DEF TypeOK
  <2>3. TicketOf(s, k) \in Nat BY <2>2, TicketOfFacts
  <2>4. /\ 2 * k < pass[s] => TicketOf(s, k) < tail
        /\ 2 * k + 1 < pass[s] => TicketOf(s, k) < head
    BY DEF QueueInv, PassedWereTaken
  <2>5. QED BY <1>2, <2>3, <2>4
<1>13. PublishedIntact'
  <2>1. SUFFICES ASSUME NEW n \in 0 .. tail, pass[Slot(n)] = DeqTurn(n)
                 PROVE  items[Slot(n)] = put'[n + 1]
    BY <1>2, <1>4 DEF PublishedIntact
  <2>2. n # tail
    <3>1. DeqTurn(tail) = EnqTurn(tail) + 1 BY <1>2, SlotFacts
    <3>2. QED BY <1>6, <2>1, <3>1
  <2>3. n \in 0 .. tail - 1 BY <1>2, <2>2
  <2>4. QED BY <1>5, <2>1, <2>3 DEF QueueInv, PublishedIntact
<1>14. IdsFollowPass' /\ (Len(put) = tail)'
  BY <1>2, <1>4, <1>5 DEF QueueInv, IdsFollowPass
<1>15. ThreadInv(t)'
  BY <1>2, <1>3, <1>4, <1>5, <1>6, <1>7
     DEF ThreadInv, TicketInv, ValueInv, EnqPcs, DeqPcs, EnqTries, DeqTries
<1>16. ASSUME NEW u \in Threads \ {t} PROVE ThreadInv(u)'
  <2>1. ThreadInv(u) /\ Untouched(u) /\ ticket[u] \in Nat /\ head \in Nat
    BY <1>1, <1>4 DEF TypeOK
  <2>2. pc[u] \in EnqTries => tail + 1 < ticket[u] + TicketMod
    BY DEF TakeEnqTicket, NotLapped
  <2>3. HoldsEnq(u) => ticket[u] \in 0 .. tail - 1 BY <1>2, <1>8, <2>1
  <2>4. pc[u] \in EnqPcs \cup {"enq_publish"} => put'[ticket[u] + 1] = put[ticket[u] + 1]
    BY <1>5, <2>3 DEF HoldsEnq, EnqPcs
  <2>5. pc[u] = "deq_release" => put'[ticket[u] + 1] = put[ticket[u] + 1]
    <3>1. pc[u] = "deq_release" => ticket[u] \in 0 .. tail - 1 BY <1>2, <2>1
       DEF ThreadInv, TicketInv, ValueInv
    <3>2. QED BY <1>5, <3>1
  <2>6. HoldsEnq(u)' <=> HoldsEnq(u) BY <1>7
  <2>7. HoldsDeq(u)' <=> HoldsDeq(u) BY <1>7
  <2>8. TicketMod \in Nat BY WrapAssumption
  <2>9. QED
    BY <1>2, <1>4, <2>1, <2>2, <2>4, <2>5, <2>6, <2>7, <2>8
       DEF ThreadInv, TicketInv, ValueInv, Untouched, EnqTries, DeqTries
<1>17. QED BY <1>10, <1>11, <1>12, <1>13, <1>14, <1>15, <1>16 DEF QueueInv

\* The same for a dequeue ticket.
LEMMA TakeDeqPreserves ==
  ASSUME QueueInv, \A u \in Threads : ThreadInv(u), TypeOK', NEW t \in Threads,
         NEW next \in {"deq_poll", "deq_read"}, TakeDeqTicket(t, next),
         pc[t] \in {"deq_faa", "deq_cas"},
         next = "deq_read" => pass[Slot(head)] = DeqTurn(head)
  PROVE  QueueInv' /\ \A u \in Threads : ThreadInv(u)'
<1>1. TypeOK BY DEF QueueInv
<1>2. head \in Nat /\ head' = head + 1 /\ tail' = tail
  BY <1>1 DEF TypeOK, QueueInv, TakeDeqTicket
<1>3. left[t] = "no" /\ ~ HoldsEnq(t) /\ ~ HoldsDeq(t)
  <2>1. ThreadInv(t) OBVIOUS
  <2>2. QED BY <1>1, <2>1
     DEF ThreadInv, TicketInv, ValueInv, HoldsEnq, HoldsDeq, EnqPcs, DeqPcs, TypeOK
<1>4. /\ ticket'[t] = head /\ pc'[t] = next /\ val'[t] = val[t] /\ left'[t] = left[t]
      /\ \A u \in Threads \ {t} : Untouched(u)
      /\ UNCHANGED <<closed, items, ids, put, pass>>
  BY <1>1 DEF TakeDeqTicket, Untouched, TypeOK
<1>5. pass[Slot(head)] <= DeqTurn(head) /\ DeqTurn(head) \in Nat
  <2>1. head <= head /\ PassedWereTaken BY <1>2 DEF QueueInv
  <2>2. pass[Slot(head)] <= DeqTurn(head) BY <1>1, <1>2, <2>1, NotPassedYet
  <2>3. DeqTurn(head) \in Nat BY <1>2, TurnFacts
  <2>4. QED BY <2>2, <2>3
<1>6. /\ HoldsDeq(t)' /\ ~ HoldsEnq(t)'
      /\ \A u \in Threads \ {t} : /\ HoldsEnq(u)' <=> HoldsEnq(u)
                                  /\ HoldsDeq(u)' <=> HoldsDeq(u)
                                  /\ ticket'[u] = ticket[u]
  BY <1>3, <1>4 DEF Untouched, HoldsEnq, HoldsDeq, EnqPcs, DeqPcs
<1>7. \A u \in Threads : HoldsDeq(u) => ticket[u] < head BY
   DEF ThreadInv, TicketInv, ValueInv
<1>8. ticket \in [Threads -> Nat] BY <1>1 DEF TypeOK
<1>9. HeldByOne'
  <2>1. ASSUME NEW u \in Threads, NEW w \in Threads,
               HoldsDeq(u)', HoldsDeq(w)', ticket'[u] = ticket'[w]
        PROVE  u = w
    <3>1. \A x \in Threads \ {t} : HoldsDeq(x)' => ticket'[x] # head
      BY <1>2, <1>6, <1>7, <1>8
    <3>2. CASE u = t \/ w = t BY <1>4, <2>1, <3>1, <3>2
    <3>3. CASE u # t /\ w # t BY <1>6, <2>1, <3>3 DEF QueueInv, HeldByOne
    <3>4. QED BY <3>2, <3>3
  <2>2. \A u, w \in Threads : HoldsEnq(u)' /\ HoldsEnq(w)' /\ ticket'[u] = ticket'[w] => u = w
    BY <1>6 DEF QueueInv, HeldByOne
  <2>3. QED BY <2>1, <2>2 DEF HeldByOne
<1>10. HeldUntilTurn'
  <2>1. ASSUME NEW n \in 0 .. head, pass[Slot(n)] <= DeqTurn(n)
        PROVE  \E u \in Threads : HoldsDeq(u)' /\ ticket'[u] = n
    <3>1. CASE n = head BY <1>4, <1>6, <3>1
    <3>2. CASE n # head
      <4>1. n \in 0 .. head - 1 BY <1>2, <3>2
      <4>2. PICK u \in Threads : HoldsDeq(u) /\ ticket[u] = n
        BY <2>1, <4>1 DEF QueueInv, HeldUntilTurn
      <4>3. u # t BY <1>3, <4>2
      <4>4. QED BY <1>6, <4>2, <4>3
    <3>3. QED BY <3>1, <3>2
  <2>2. ASSUME NEW n \in 0 .. tail - 1, pass[Slot(n)] <= EnqTurn(n)
        PROVE  \E u \in Threads : HoldsEnq(u)' /\ ticket'[u] = n
    <3>1. PICK u \in Threads : HoldsEnq(u) /\ ticket[u] = n
      BY <2>2 DEF QueueInv, HeldUntilTurn
    <3>2. u # t BY <1>3, <3>1
    <3>3. QED BY <1>6, <3>1, <3>2
  <2>3. (head + 1) - 1 = head BY <1>2
  <2>4. QED BY <1>2, <1>4, <2>1, <2>2, <2>3 DEF HeldUntilTurn
<1>11. PassedWereTaken'
  <2>1. SUFFICES ASSUME NEW s \in Slots, NEW k \in 0 .. pass[s]
                 PROVE  /\ 2 * k < pass[s] => TicketOf(s, k) < tail
                        /\ 2 * k + 1 < pass[s] => TicketOf(s, k) < head + 1
    BY <1>2, <1>4 DEF PassedWereTaken
  <2>2. pass[s] \in Nat BY <1>1 DEF TypeOK
  <2>3. TicketOf(s, k) \in Nat BY <2>2, TicketOfFacts
  <2>4. /\ 2 * k < pass[s] => TicketOf(s, k) < tail
        /\ 2 * k + 1 < pass[s] => TicketOf(s, k) < head
    BY DEF QueueInv, PassedWereTaken
  <2>5. QED BY <1>2, <2>3, <2>4
<1>12. PublishedIntact' /\ IdsFollowPass' /\ (Len(put) = tail)'
  BY <1>2, <1>4 DEF QueueInv, PublishedIntact, IdsFollowPass
<1>13. ThreadInv(t)'
  BY <1>2, <1>3, <1>4, <1>5, <1>6
     DEF ThreadInv, TicketInv, ValueInv, EnqPcs, DeqPcs, EnqTries, DeqTries
<1>14. ASSUME NEW u \in Threads \ {t} PROVE ThreadInv(u)'
  <2>1. ThreadInv(u) /\ Untouched(u) /\ ticket[u] \in Nat /\ tail \in Nat
    BY <1>1, <1>4 DEF TypeOK
  <2>2. pc[u] \in DeqTries => head + 1 < ticket[u] + TicketMod
    BY DEF TakeDeqTicket, NotLapped
  <2>3. HoldsEnq(u)' <=> HoldsEnq(u) BY <1>6
  <2>4. HoldsDeq(u)' <=> HoldsDeq(u) BY <1>6
  <2>5. TicketMod \in Nat BY WrapAssumption
  <2>6. QED
    BY <1>2, <1>4, <2>1, <2>2, <2>3, <2>4, <2>5
       DEF ThreadInv, TicketInv, ValueInv, Untouched, EnqTries, DeqTries
<1>15. QED BY <1>9, <1>10, <1>11, <1>12, <1>13, <1>14 DEF QueueInv

\* Writing the item into a slot at its turn disturbs no item that waits to be read.
LEMMA EnqWritePreserves ==
  ASSUME QueueInv, \A u \in Threads : ThreadInv(u), TypeOK', NEW t \in Threads,
         EnqWrite(t)
  PROVE  QueueInv' /\ \A u \in Threads : ThreadInv(u)'
<1> DEFINE m == ticket[t]
<1>1. TypeOK BY DEF QueueInv
<1>2. m \in Nat /\ Slot(m) \in Slots BY <1>1, SlotFacts DEF TypeOK
<1>3. pc[t] = "enq_write" /\ HoldsEnq(t) BY DEF EnqWrite, HoldsEnq, EnqPcs
<1>4. pass[Slot(m)] = EnqTurn(m) /\ val[t] = put[m + 1] /\ left[t] = "no" /\ m < tail
      /\ pass[Slot(m)] <= EnqTurn(m)
  BY <1>1, <1>3 DEF ThreadInv, TicketInv, ValueInv, EnqPcs, TypeOK
<1>5. /\ pc'[t] = "enq_publish"
      /\ \A u \in Threads \ {t} : Untouched(u)
      /\ \A x \in Slots : items'[x] = IF x = Slot(m) THEN put[m + 1] ELSE items[x]
      /\ UNCHANGED <<head, tail, closed, ids, ticket, val, put, pass, left>>
  BY <1>1, <1>4 DEF EnqWrite, Untouched, TypeOK
<1> HIDE DEF m
<1>6. \A u \in Threads : (HoldsEnq(u)' <=> HoldsEnq(u)) /\ (HoldsDeq(u)' <=> HoldsDeq(u))
  BY <1>3, <1>5 DEF Untouched, HoldsEnq, HoldsDeq, EnqPcs, DeqPcs
<1>7. HeldByOne' /\ HeldUntilTurn' /\ PassedWereTaken' /\ IdsFollowPass' /\ (Len(put) = tail)'
  BY <1>5, <1>6 DEF QueueInv, HeldByOne, HeldUntilTurn, PassedWereTaken, IdsFollowPass
<1>8. PublishedIntact'
  <2>1. SUFFICES ASSUME NEW n \in 0 .. tail - 1, pass[Slot(n)] = DeqTurn(n)
                 PROVE  items'[Slot(n)] = put[n + 1]
    BY <1>5 DEF PublishedIntact
  <2>2. n \in Nat /\ Slot(n) \in Slots BY SlotFacts
  <2>3. Slot(n) # Slot(m) BY <1>2, <1>4, <2>1, <2>2, TurnUnique
  <2>4. QED BY <1>5, <2>1, <2>2, <2>3 DEF QueueInv, PublishedIntact
<1>9. ThreadInv(t)'
  <2>1. ticket'[t] = m /\ items'[Slot(m)] = put[m + 1] BY <1>2, <1>5 DEF m
  <2>2. QED
    BY <1>3, <1>4, <1>5, <1>6, <2>1
       DEF ThreadInv, TicketInv, ValueInv, HoldsEnq, HoldsDeq, EnqPcs, DeqPcs, EnqTries,
              DeqTries
<1>10. ASSUME NEW u \in Threads \ {t} PROVE ThreadInv(u)'
  <2>1. ThreadInv(u) /\ Untouched(u) /\ ticket[u] \in Nat BY <1>1, <1>5 DEF TypeOK
  <2>2. pc[u] = "enq_publish" => Slot(ticket[u]) # Slot(m)
    <3>1. SUFFICES ASSUME pc[u] = "enq_publish", Slot(ticket[u]) = Slot(m) PROVE FALSE
      OBVIOUS
    <3>2. HoldsEnq(u) /\ pass[Slot(ticket[u])] = EnqTurn(ticket[u])
      BY <2>1, <3>1 DEF ThreadInv, TicketInv, ValueInv, HoldsEnq, EnqPcs
    <3>3. ticket[u] = m BY <1>2, <1>4, <2>1, <3>1, <3>2, TurnUnique
    <3>4. QED BY <1>3, <3>2, <3>3 DEF QueueInv, HeldByOne, m
  <2>3. Slot(ticket[u]) \in Slots BY <2>1, SlotFacts
  <2>4. pc[u] = "enq_publish" => items'[Slot(ticket[u])] = items[Slot(ticket[u])]
    BY <1>5, <2>2, <2>3
  <2>5. HoldsEnq(u)' <=> HoldsEnq(u) BY <1>6
  <2>6. HoldsDeq(u)' <=> HoldsDeq(u) BY <1>6
  <2>7. QED BY <1>5, <2>1, <2>4, <2>5, <2>6 DEF ThreadInv, TicketInv, ValueInv, Untouched
<1>11. QED BY <1>7, <1>8, <1>9, <1>10 DEF QueueInv

\* Publishing passes the slot on to the dequeue with the same ticket.
LEMMA EnqPublishPreserves ==
  ASSUME QueueInv, \A u \in Threads : ThreadInv(u), TypeOK', NEW t \in Threads,
         EnqPublish(t)
  PROVE  QueueInv' /\ \A u \in Threads : ThreadInv(u)'
<1> DEFINE m == ticket[t]
           s == Slot(m)
           p == pass[s]
<1>1. TypeOK BY DEF QueueInv
<1>2. m \in Nat /\ s \in Slots /\ p \in Nat /\ tail \in Nat /\ head \in Nat
  BY <1>1, SlotFacts DEF TypeOK
<1>3. pc[t] = "enq_publish" /\ HoldsEnq(t) BY DEF EnqPublish, HoldsEnq, EnqPcs
<1>4. /\ p = EnqTurn(m) /\ m < tail /\ left[t] = "no" /\ items[s] = put[m + 1]
  BY <1>1, <1>3 DEF ThreadInv, TicketInv, ValueInv, TypeOK
<1>5. /\ pc'[t] = "idle"
      /\ \A u \in Threads \ {t} : Untouched(u)
      /\ \A x \in Slots : pass'[x] = IF x = s THEN p + 1 ELSE pass[x]
      /\ \A x \in Slots : ids'[x] = IF x = s THEN NextId(GetId(m)) ELSE ids[x]
      /\ UNCHANGED <<head, tail, closed, items, ticket, put, left>>
  BY <1>1, <1>2 DEF EnqPublish, HandOver, Untouched, TypeOK
<1>6. PICK j \in Nat : p = 2 * j /\ m = TicketOf(s, j) BY <1>2, <1>4, SlotFacts
<1> HIDE DEF m, s, p
<1>7. /\ ~ HoldsEnq(t)' /\ ~ HoldsDeq(t)' /\ ~ HoldsDeq(t)
      /\ \A u \in Threads \ {t} : /\ HoldsEnq(u)' <=> HoldsEnq(u)
                                  /\ HoldsDeq(u)' <=> HoldsDeq(u)
  BY <1>3, <1>4, <1>5 DEF Untouched, HoldsEnq, HoldsDeq, EnqPcs, DeqPcs
<1>8. HeldByOne' BY <1>5, <1>7 DEF QueueInv, HeldByOne
<1>9. HeldUntilTurn'
  <2>1. ASSUME NEW n \in Nat PROVE pass[Slot(n)] <= pass'[Slot(n)]
                                 /\ pass[Slot(n)] \in Nat /\ Slot(n) \in Slots
    <3>1. Slot(n) \in Slots BY SlotFacts
    <3>2. pass[Slot(n)] \in Nat BY <1>1, <3>1 DEF TypeOK
    <3>3. QED BY <1>2, <1>5, <3>1, <3>2 DEF p
  <2>2. ASSUME NEW n \in 0 .. tail - 1, pass'[Slot(n)] <= EnqTurn(n)
        PROVE  \E u \in Threads : HoldsEnq(u)' /\ ticket'[u] = n
    <3>1. n \in Nat /\ EnqTurn(n) \in Nat BY TurnFacts
    <3>2. pass[Slot(n)] <= EnqTurn(n)
      <4>1. pass'[Slot(n)] \in Nat BY <2>1, <3>1 DEF TypeOK
      <4>2. QED BY <2>1, <2>2, <3>1, <4>1
    <3>3. PICK u \in Threads : HoldsEnq(u) /\ ticket[u] = n
      BY <3>2 DEF QueueInv, HeldUntilTurn
    <3>4. n # m
      <4>1. n = m => pass'[Slot(n)] = p + 1 BY <1>2, <1>5 DEF s
      <4>2. QED BY <1>2, <1>4, <2>2, <3>1, <4>1
    <3>5. u # t BY <3>3, <3>4 DEF m
    <3>6. QED BY <1>5, <1>7, <3>3, <3>5
  <2>3. ASSUME NEW n \in 0 .. head - 1, pass'[Slot(n)] <= DeqTurn(n)
        PROVE  \E u \in Threads : HoldsDeq(u)' /\ ticket'[u] = n
    <3>1. n \in Nat /\ DeqTurn(n) \in Nat BY TurnFacts
    <3>2. pass[Slot(n)] <= DeqTurn(n)
      <4>1. pass'[Slot(n)] \in Nat BY <2>1, <3>1 DEF TypeOK
      <4>2. QED BY <2>1, <2>3, <3>1, <4>1
    <3>3. PICK u \in Threads : HoldsDeq(u) /\ ticket[u] = n
      BY <3>2 DEF QueueInv, HeldUntilTurn
    <3>4. u # t BY <1>7, <3>3
    <3>5. QED BY <1>5, <1>7, <3>3, <3>4
  <2>4. QED BY <1>5, <2>2, <2>3 DEF HeldUntilTurn
<1>10. IdsFollowPass'
  <2>1. SUFFICES ASSUME NEW x \in Slots PROVE ids'[x] = pass'[x] % MaxId
    BY DEF IdsFollowPass
  <2>2. CASE x = s
    <3>1. GetId(m) = p % MaxId BY <1>2, <1>4, IdOfTurn
    <3>2. NextId(p % MaxId) = (p + 1) % MaxId BY <1>2, NextIdIsSuccessor
    <3>3. QED BY <1>5, <2>2, <3>1, <3>2
  <2>3. CASE x # s BY <1>5, <2>3 DEF QueueInv, IdsFollowPass
  <2>4. QED BY <2>2, <2>3
<1>11. PassedWereTaken'
  <2>1. SUFFICES ASSUME NEW x \in Slots, NEW k \in 0 .. pass'[x]
                 PROVE  /\ 2 * k < pass'[x] => TicketOf(x, k) < tail
                        /\ 2 * k + 1 < pass'[x] => TicketOf(x, k) < head
    BY <1>5 DEF PassedWereTaken
  <2>2. CASE x # s BY <1>5, <2>2 DEF QueueInv, PassedWereTaken
  <2>3. CASE x = s
    <3>1. pass'[x] = p + 1 /\ k \in Nat BY <1>2, <1>5, <2>3
    <3>2. CASE k = j
      <4>1. TicketOf(s, k) < tail BY <1>4, <1>6, <3>2
      <4>2. ~ (2 * k + 1 < p + 1) BY <1>6, <3>2
      <4>3. QED BY <2>3, <3>1, <4>1, <4>2
    <3>3. CASE k < j
      <4>1. 2 * k < p /\ 2 * k + 1 < p /\ k \in 0 .. p BY <1>6, <3>1, <3>3
      <4>2. TicketOf(s, k) < tail /\ TicketOf(s, k) < head
        BY <1>2, <4>1 DEF QueueInv, PassedWereTaken, p
      <4>3. QED BY <2>3, <4>2
    <3>4. CASE k > j
      <4>1. ~ (2 * k < p + 1) /\ ~ (2 * k + 1 < p + 1) BY <1>6, <3>1, <3>4
      <4>2. QED BY <3>1, <4>1
    <3>5. QED BY <1>6, <3>1, <3>2, <3>3, <3>4
  <2>4. QED BY <2>2, <2>3
<1>12. PublishedIntact'
  <2>1. SUFFICES ASSUME NEW n \in 0 .. tail - 1, pass'[Slot(n)] = DeqTurn(n)
                 PROVE  items[Slot(n)] = put[n + 1]
    BY <1>5 DEF PublishedIntact
  <2>2. n \in Nat /\ Slot(n) \in Slots BY SlotFacts
  <2>3. CASE Slot(n) = s
    <3>1. EnqTurn(n) \in Nat /\ DeqTurn(n) = EnqTurn(n) + 1 BY <2>2, TurnFacts
    <3>2. EnqTurn(n) = EnqTurn(m) BY <1>2, <1>4, <1>5, <2>1, <2>2, <2>3, <3>1
    <3>3. n = m BY <1>2, <2>2, <2>3, <3>2, TurnUnique DEF s
    <3>4. QED BY <1>4, <2>3, <3>3
  <2>4. CASE Slot(n) # s BY <1>5, <2>1, <2>2, <2>4 DEF QueueInv, PublishedIntact
  <2>5. QED BY <2>3, <2>4
<1>13. ThreadInv(t)'
  BY <1>4, <1>5, <1>7 DEF ThreadInv, TicketInv, ValueInv, EnqPcs, DeqPcs, EnqTries, DeqTries
<1>14. ASSUME NEW u \in Threads \ {t} PROVE ThreadInv(u)'
  <2> DEFINE n == ticket[u]
  <2>1. ThreadInv(u) /\ Untouched(u) /\ n \in Nat BY <1>1, <1>5 DEF TypeOK
  <2>2. Slot(n) \in Slots /\ EnqTurn(n) \in Nat /\ DeqTurn(n) \in Nat
    BY <2>1, SlotFacts, TurnFacts
  <2>3. pass[Slot(n)] \in Nat BY <1>1, <2>2 DEF TypeOK
  <2>4. Slot(n) = s => DeqTurn(n) # p BY <1>2, <1>4, <2>1, TurnUnique DEF s
  <2>5. Slot(n) = s /\ HoldsEnq(u) => EnqTurn(n) # p
    <3>1. HoldsEnq(u) => n # m BY <1>3 DEF QueueInv, HeldByOne, m
    <3>2. QED BY <1>2, <1>4, <2>1, <3>1, TurnUnique DEF s
  <2>6. Slot(n) = s /\ tail = n => EnqTurn(n) # p
    <3>1. tail = n => n # m BY <1>2, <1>4
    <3>2. QED BY <1>2, <1>4, <2>1, <3>1, TurnUnique DEF s
  <2>7. pass'[Slot(n)] = IF Slot(n) = s THEN pass[Slot(n)] + 1 ELSE pass[Slot(n)]
    BY <1>5, <2>2 DEF p
  <2>8. HoldsEnq(u)' <=> HoldsEnq(u) BY <1>7
  <2>9. HoldsDeq(u)' <=> HoldsDeq(u) BY <1>7
  <2>10. ticket'[u] = n /\ ticket[u] = n BY <1>5
  <2>11. HoldsEnq(u) => pass'[Slot(n)] <= EnqTurn(n)
    <3>1. HoldsEnq(u) => pass[Slot(n)] <= EnqTurn(n) BY <2>1
       DEF ThreadInv, TicketInv, ValueInv
    <3>2. QED BY <2>2, <2>3, <2>5, <2>7, <3>1 DEF p
  <2>12. HoldsDeq(u) => pass'[Slot(n)] <= DeqTurn(n)
    <3>1. HoldsDeq(u) => pass[Slot(n)] <= DeqTurn(n) BY <2>1
       DEF ThreadInv, TicketInv, ValueInv
    <3>2. QED BY <2>2, <2>3, <2>4, <2>7, <3>1 DEF p
  <2>13. pc[u] \in {"enq_write", "enq_publish"} => pass'[Slot(n)] = EnqTurn(n)
    <3>1. pc[u] \in {"enq_write", "enq_publish"} => pass[Slot(n)] = EnqTurn(n) /\ HoldsEnq(u)
      BY <2>1 DEF ThreadInv, TicketInv, ValueInv, HoldsEnq, EnqPcs
    <3>2. QED BY <2>5, <2>7, <3>1 DEF p
  <2>14. pc[u] \in {"deq_read", "deq_release"} => pass'[Slot(n)] = DeqTurn(n)
    <3>1. pc[u] \in {"deq_read", "deq_release"} => pass[Slot(n)] = DeqTurn(n)
      BY <2>1 DEF ThreadInv, TicketInv, ValueInv
    <3>2. QED BY <2>4, <2>7, <3>1 DEF p
  <2>15. pc[u] = "enq_cas" /\ tail = n => pass'[Slot(n)] = EnqTurn(n)
    <3>1. pc[u] = "enq_cas" /\ tail = n => pass[Slot(n)] = EnqTurn(n) BY <2>1
       DEF ThreadInv, TicketInv, ValueInv
    <3>2. QED BY <2>6, <2>7, <3>1 DEF p
  <2>16. pc[u] = "deq_cas" /\ head = n => pass'[Slot(n)] = DeqTurn(n)
    <3>1. pc[u] = "deq_cas" /\ head = n => pass[Slot(n)] = DeqTurn(n) BY <2>1
       DEF ThreadInv, TicketInv, ValueInv
    <3>2. QED BY <2>4, <2>7, <3>1 DEF p
  <2> HIDE DEF n
  <2>17. TicketInv(u)'
    BY <1>5, <2>1, <2>8, <2>9, <2>10, <2>11, <2>12, <2>13, <2>14, <2>15, <2>16
       DEF ThreadInv, TicketInv, Untouched
  <2>18. ValueInv(u)' BY <1>5, <2>1, <2>10 DEF ThreadInv, ValueInv, Untouched
  <2>19. QED BY <2>17, <2>18 DEF ThreadInv
<1>15. (Len(put) = tail)' BY <1>5 DEF QueueInv
<1>16. QED BY <1>8, <1>9, <1>10, <1>11, <1>12, <1>13, <1>14, <1>15 DEF QueueInv

\* Releasing passes the slot on to the enqueue one lap later.
LEMMA DeqReleasePreserves ==
  ASSUME QueueInv, \A u \in Threads : ThreadInv(u), TypeOK', NEW t \in Threads,
         DeqRelease(t)
  PROVE  QueueInv' /\ \A u \in Threads : ThreadInv(u)'
<1> DEFINE m == ticket[t]
           s == Slot(m)
           p == pass[s]
<1>1. TypeOK BY DEF QueueInv
<1>2. m \in Nat /\ s \in Slots /\ p \in Nat /\ tail \in Nat /\ head \in Nat
  BY <1>1, SlotFacts DEF TypeOK
<1>3. pc[t] = "deq_release" /\ HoldsDeq(t) BY DEF DeqRelease, HoldsDeq, DeqPcs
<1>4. p = DeqTurn(m) /\ m < head /\ left[t] = "no"
  BY <1>1, <1>3 DEF ThreadInv, TicketInv, ValueInv, TypeOK
<1>5. /\ pc'[t] = "idle"
      /\ \A u \in Threads \ {t} : Untouched(u)
      /\ \A x \in Slots : pass'[x] = IF x = s THEN p + 1 ELSE pass[x]
      /\ \A x \in Slots : ids'[x] = IF x = s THEN NextId(GetId(m) + 1) ELSE ids[x]
      /\ UNCHANGED <<head, tail, closed, items, ticket, put, left>>
  BY <1>1, <1>2 DEF DeqRelease, HandOver, Untouched, TypeOK
<1>6. PICK j \in Nat : p = 2 * j + 1 /\ m = TicketOf(s, j) BY <1>2, <1>4, SlotFacts
<1> HIDE DEF m, s, p
<1>7. /\ ~ HoldsDeq(t)' /\ ~ HoldsEnq(t)' /\ ~ HoldsEnq(t)
      /\ \A u \in Threads \ {t} : /\ HoldsEnq(u)' <=> HoldsEnq(u)
                                  /\ HoldsDeq(u)' <=> HoldsDeq(u)
  BY <1>3, <1>4, <1>5 DEF Untouched, HoldsEnq, HoldsDeq, EnqPcs, DeqPcs
<1>8. HeldByOne' BY <1>5, <1>7 DEF QueueInv, HeldByOne
<1>9. HeldUntilTurn'
  <2>1. ASSUME NEW n \in Nat PROVE pass[Slot(n)] <= pass'[Slot(n)]
                                 /\ pass[Slot(n)] \in Nat /\ Slot(n) \in Slots
    <3>1. Slot(n) \in Slots BY SlotFacts
    <3>2. pass[Slot(n)] \in Nat BY <1>1, <3>1 DEF TypeOK
    <3>3. QED BY <1>2, <1>5, <3>1, <3>2 DEF p
  <2>2. ASSUME NEW n \in 0 .. head - 1, pass'[Slot(n)] <= DeqTurn(n)
        PROVE  \E u \in Threads : HoldsDeq(u)' /\ ticket'[u] = n
    <3>1. n \in Nat /\ DeqTurn(n) \in Nat BY TurnFacts
    <3>2. pass[Slot(n)] <= DeqTurn(n)
      <4>1. pass'[Slot(n)] \in Nat BY <2>1, <3>1 DEF TypeOK
      <4>2. QED BY <2>1, <2>2, <3>1, <4>1
    <3>3. PICK u \in Threads : HoldsDeq(u) /\ ticket[u] = n
      BY <3>2 DEF QueueInv, HeldUntilTurn
    <3>4. n # m
      <4>1. n = m => pass'[Slot(n)] = p + 1 BY <1>2, <1>5 DEF s
      <4>2. QED BY <1>2, <1>4, <2>2, <3>1, <4>1
    <3>5. u # t BY <3>3, <3>4 DEF m
    <3>6. QED BY <1>5, <1>7, <3>3, <3>5
  <2>3. ASSUME NEW n \in 0 .. tail - 1, pass'[Slot(n)] <= EnqTurn(n)
        PROVE  \E u \in Threads : HoldsEnq(u)' /\ ticket'[u] = n
    <3>1. n \in Nat /\ EnqTurn(n) \in Nat BY TurnFacts
    <3>2. pass[Slot(n)] <= EnqTurn(n)
      <4>1. pass'[Slot(n)] \in Nat BY <2>1, <3>1 DEF TypeOK
      <4>2. QED BY <2>1, <2>3, <3>1, <4>1
    <3>3. PICK u \in Threads : HoldsEnq(u) /\ ticket[u] = n
      BY <3>2 DEF QueueInv, HeldUntilTurn
    <3>4. u # t BY <1>7, <3>3
    <3>5. QED BY <1>5, <1>7, <3>3, <3>4
  <2>4. QED BY <1>5, <2>2, <2>3 DEF HeldUntilTurn
<1>10. IdsFollowPass'
  <2>1. SUFFICES ASSUME NEW x \in Slots PROVE ids'[x] = pass'[x] % MaxId
    BY DEF IdsFollowPass
  <2>2. CASE x = s
    <3>1. GetId(m) + 1 = p % MaxId BY <1>2, <1>4, IdOfTurn
    <3>2. NextId(p % MaxId) = (p + 1) % MaxId BY <1>2, NextIdIsSuccessor
    <3>3. QED BY <1>5, <2>2, <3>1, <3>2
  <2>3. CASE x # s BY <1>5, <2>3 DEF QueueInv, IdsFollowPass
  <2>4. QED BY <2>2, <2>3
<1>11. PassedWereTaken'
  <2>1. SUFFICES ASSUME NEW x \in Slots, NEW k \in 0 .. pass'[x]
                 PROVE  /\ 2 * k < pass'[x] => TicketOf(x, k) < tail
                        /\ 2 * k + 1 < pass'[x] => TicketOf(x, k) < head
    BY <1>5 DEF PassedWereTaken
  <2>2. CASE x # s BY <1>5, <2>2 DEF QueueInv, PassedWereTaken
  <2>3. CASE x = s
    <3>1. pass'[x] = p + 1 /\ k \in Nat BY <1>2, <1>5, <2>3
    <3>2. CASE k <= j
      <4>1. 2 * k < p /\ k \in 0 .. p BY <1>6, <3>1, <3>2
      <4>2. TicketOf(s, k) < tail BY <1>2, <4>1 DEF QueueInv, PassedWereTaken, p
      <4>3. TicketOf(s, k) < head
        <5>1. CASE k = j BY <1>4, <1>6, <5>1
        <5>2. CASE k # j
          <6>1. 2 * k + 1 < p BY <1>6, <3>1, <3>2, <5>2
          <6>2. QED BY <1>2, <4>1, <6>1 DEF QueueInv, PassedWereTaken, p
        <5>3. QED BY <5>1, <5>2
      <4>4. QED BY <2>3, <4>2, <4>3
    <3>3. CASE k > j
      <4>1. ~ (2 * k < p + 1) /\ ~ (2 * k + 1 < p + 1) BY <1>6, <3>1, <3>3
      <4>2. QED BY <3>1, <4>1
    <3>4. QED BY <1>6, <3>1, <3>2, <3>3
  <2>4. QED BY <2>2, <2>3
<1>12. PublishedIntact'
  <2>1. SUFFICES ASSUME NEW n \in 0 .. tail - 1, pass'[Slot(n)] = DeqTurn(n)
                 PROVE  items[Slot(n)] = put[n + 1]
    BY <1>5 DEF PublishedIntact
  <2>2. n \in Nat /\ Slot(n) \in Slots BY SlotFacts
  <2>3. Slot(n) # s
    <3>1. SUFFICES ASSUME Slot(n) = s PROVE FALSE OBVIOUS
    <3>2. EnqTurn(n) \in Nat /\ DeqTurn(n) = EnqTurn(n) + 1 BY <2>2, TurnFacts
    <3>3. EnqTurn(n) = DeqTurn(m) BY <1>2, <1>4, <1>5, <2>1, <2>2, <3>1, <3>2
    <3>4. QED BY <1>2, <2>2, <3>1, <3>3, TurnUnique DEF s
  <2>4. QED BY <1>5, <2>1, <2>2, <2>3 DEF QueueInv, PublishedIntact
<1>13. ThreadInv(t)'
  BY <1>4, <1>5, <1>7 DEF ThreadInv, TicketInv, ValueInv, EnqPcs, DeqPcs, EnqTries, DeqTries
<1>14. ASSUME NEW u \in Threads \ {t} PROVE ThreadInv(u)'
  <2> DEFINE n == ticket[u]
  <2>1. ThreadInv(u) /\ Untouched(u) /\ n \in Nat BY <1>1, <1>5 DEF TypeOK
  <2>2. Slot(n) \in Slots /\ EnqTurn(n) \in Nat /\ DeqTurn(n) \in Nat
    BY <2>1, SlotFacts, TurnFacts
  <2>3. pass[Slot(n)] \in Nat BY <1>1, <2>2 DEF TypeOK
  <2>4. Slot(n) = s => EnqTurn(n) # p BY <1>2, <1>4, <2>1, TurnUnique DEF s
  <2>5. Slot(n) = s /\ HoldsDeq(u) => DeqTurn(n) # p
    <3>1. HoldsDeq(u) => n # m BY <1>3 DEF QueueInv, HeldByOne, m
    <3>2. QED BY <1>2, <1>4, <2>1, <3>1, TurnUnique DEF s
  <2>6. Slot(n) = s /\ head = n => DeqTurn(n) # p
    <3>1. head = n => n # m BY <1>2, <1>4
    <3>2. QED BY <1>2, <1>4, <2>1, <3>1, TurnUnique DEF s
  <2>7. pass'[Slot(n)] = IF Slot(n) = s THEN pass[Slot(n)] + 1 ELSE pass[Slot(n)]
    BY <1>5, <2>2 DEF p
  <2>8. HoldsEnq(u)' <=> HoldsEnq(u) BY <1>7
  <2>9. HoldsDeq(u)' <=> HoldsDeq(u) BY <1>7
  <2>10. ticket'[u] = n /\ ticket[u] = n BY <1>5
  <2>11. HoldsEnq(u) => pass'[Slot(n)] <= EnqTurn(n)
    <3>1. HoldsEnq(u) => pass[Slot(n)] <= EnqTurn(n) BY <2>1
       DEF ThreadInv, TicketInv, ValueInv
    <3>2. QED BY <2>2, <2>3, <2>4, <2>7, <3>1 DEF p
  <2>12. HoldsDeq(u) => pass'[Slot(n)] <= DeqTurn(n)
    <3>1. HoldsDeq(u) => pass[Slot(n)] <= DeqTurn(n) BY <2>1
       DEF ThreadInv, TicketInv, ValueInv
    <3>2. QED BY <2>2, <2>3, <2>5, <2>7, <3>1 DEF p
  <2>13. pc[u] \in {"enq_write", "enq_publish"} => pass'[Slot(n)] = EnqTurn(n)
    <3>1. pc[u] \in {"enq_write", "enq_publish"} => pass[Slot(n)] = EnqTurn(n)
      BY <2>1 DEF ThreadInv, TicketInv, ValueInv
    <3>2. QED BY <2>4, <2>7, <3>1 DEF p
  <2>14. pc[u] \in {"deq_read", "deq_release"} => pass'[Slot(n)] = DeqTurn(n)
    <3>1. pc[u] \in {"deq_read", "deq_release"} => pass[Slot(n)] = DeqTurn(n) /\ HoldsDeq(u)
      BY <2>1 DEF ThreadInv, TicketInv, ValueInv, HoldsDeq, DeqPcs
    <3>2. QED BY <2>5, <2>7, <3>1 DEF p
  <2>15. pc[u] = "enq_cas" /\ tail = n => pass'[Slot(n)] = EnqTurn(n)
    <3>1. pc[u] = "enq_cas" /\ tail = n => pass[Slot(n)] = EnqTurn(n) BY <2>1
       DEF ThreadInv, TicketInv, ValueInv
    <3>2. QED BY <2>4, <2>7, <3>1 DEF p
  <2>16. pc[u] = "deq_cas" /\ head = n => pass'[Slot(n)] = DeqTurn(n)
    <3>1. pc[u] = "deq_cas" /\ head = n => pass[Slot(n)] = DeqTurn(n) BY <2>1
       DEF ThreadInv, TicketInv, ValueInv
    <3>2. QED BY <2>6, <2>7, <3>1 DEF p
  <2> HIDE DEF n
  <2>17. TicketInv(u)'
    BY <1>5, <2>1, <2>8, <2>9, <2>10, <2>11, <2>12, <2>13, <2>14, <2>15, <2>16
       DEF ThreadInv, TicketInv, Untouched
  <2>18. ValueInv(u)' BY <1>5, <2>1, <2>10 DEF ThreadInv, ValueInv, Untouched
  <2>19. QED BY <2>17, <2>18 DEF ThreadInv
<1>15. (Len(put) = tail)' BY <1>5 DEF QueueInv
<1>16. QED BY <1>8, <1>9, <1>10, <1>11, <1>12, <1>13, <1>14, <1>15 DEF QueueInv

-----------------------------------------------------------------------------
(***************************************************************************)
(* The theorems                                                            *)
(***************************************************************************)

\* sfq_init_kernel establishes the invariant.
LEMMA InitIInv == Init => IInv
<1> SUFFICES ASSUME Init PROVE IInv OBVIOUS
<1>1. TypeOK
  <2>1. 0 \in 0 .. MaxId - 1 BY LapsFacts
  <2>2. ids \in [Slots -> 0 .. MaxId - 1] BY <2>1 DEF Init
  <2>3. items \in [Slots -> Items \cup {NoItem}] /\ pass \in [Slots -> Nat] BY DEF Init
  <2>4. put \in Seq(Items) BY DEF Init
  <2>5. /\ pc \in [Threads -> Pcs] /\ ticket \in [Threads -> Nat]
        /\ val \in [Threads -> Items \cup {NoItem}]
        /\ left \in [Threads -> {"no", "enq", "deq"}]
    BY DEF Init, Pcs
  <2>6. QED BY <2>2, <2>3, <2>4, <2>5 DEF Init, TypeOK
<1>2. IdsFollowPass
  <2>1. 0 % MaxId = 0
    <3>1. 0 = MaxId * 0 + 0 /\ 0 \in 0 .. MaxId - 1 BY LapsFacts
    <3>2. QED BY <3>1, LapsFacts, DivModOf
  <2>2. QED BY <2>1 DEF Init, IdsFollowPass
<1>3. TicketsTaken /\ HeldByOne /\ TurnNotPast /\ InSlotAtTurn /\ ReadyUntilTaken
      /\ LeftForGood /\ ValuesCarried /\ DeliveredInOrder
  BY DEF Init, TicketsTaken, HeldByOne, TurnNotPast, InSlotAtTurn, ReadyUntilTaken,
         LeftForGood, ValuesCarried, DeliveredInOrder, HoldsEnq, HoldsDeq,
         EnqPcs, DeqPcs, EnqTries, DeqTries
<1>4. HeldUntilTurn /\ PublishedIntact BY DEF Init, HeldUntilTurn, PublishedIntact
<1>5. PassedWereTaken BY DEF Init, PassedWereTaken
<1>6. QED BY <1>1, <1>2, <1>3, <1>4, <1>5 DEF IInv

\* Every step of every thread preserves the invariant.
LEMMA NextIInv == IInv /\ [Next]_vars => IInv'
<1>1. Parts' => IInv' BY IInvParts, PTL
<1>2. ASSUME IInv, Next
      PROVE  QueueInv' /\ \A u \in Threads : ThreadInv(u)'
  <2>0. QueueInv /\ \A u \in Threads : ThreadInv(u) BY <1>2, IInvParts DEF Parts
  <2>1. TypeOK' BY <1>2, <2>0, TypeStep
  <2>2. PICK t \in Threads : Call(t) \/ EnqStep(t) \/ DeqStep(t) BY <1>2 DEF Next
  <2>3. TypeOK /\ ThreadInv(t) BY <2>0 DEF QueueInv
  <2>4. ASSUME Quiet(t) PROVE QueueInv' /\ \A u \in Threads : ThreadInv(u)'
    BY <2>0, <2>1, <2>4, QuietStep DEF Quiet
  <2>5. CASE Call(t) BY <2>0, <2>3, <2>4, <2>5, QuietCalls
  <2>6. CASE EnqPoll(t) \/ EnqRecheck(t) \/ EnqNbLoad(t) \/ EnqNbCheck(t)
    BY <2>0, <2>3, <2>4, <2>6, QuietEnqSteps
  <2>7. CASE DeqPoll(t) \/ DeqRecheck(t) \/ DeqRead(t) \/ DeqNbLoad(t) \/ DeqNbCheck(t)
    BY <2>0, <2>3, <2>4, <2>7, QuietDeqSteps
  <2>8. CASE EnqTicket(t)
    BY <2>0, <2>1, <2>8, TakeEnqPreserves DEF EnqTicket
  <2>9. CASE DeqTicket(t)
    BY <2>0, <2>1, <2>9, TakeDeqPreserves DEF DeqTicket
  <2>10. CASE EnqNbCas(t)
    <3>1. pc[t] = "enq_cas" /\ ticket[t] \in Nat /\ tail \in Nat
      BY <2>3, <2>10 DEF EnqNbCas, TypeOK
    <3>2. CASE tail % TicketMod = ticket[t] % TicketMod
      <4>1. ticket[t] <= tail /\ tail < ticket[t] + TicketMod
        BY <2>3, <3>1 DEF ThreadInv, TicketInv, ValueInv, EnqTries
      <4>2. tail = ticket[t]
        <5>1. ticket[t] < tail + TicketMod BY <3>1, <4>1, WrapAssumption
        <5>2. QED BY <3>1, <3>2, <4>1, <5>1, WrapAssumption, NearModEqual
      <4>3. pass[Slot(tail)] = EnqTurn(tail) BY <2>3, <3>1, <4>2
         DEF ThreadInv, TicketInv, ValueInv
      <4>4. TakeEnqTicket(t, "enq_write") BY <2>10, <3>2 DEF EnqNbCas
      <4>5. QED BY <2>0, <2>1, <3>1, <4>3, <4>4, TakeEnqPreserves
    <3>3. CASE tail % TicketMod # ticket[t] % TicketMod
      <4>1. Busy(t) BY <2>10, <3>3 DEF EnqNbCas
      <4>2. QED BY <2>0, <2>3, <2>4, <2>10, <4>1, QuietEnqSteps
    <3>4. QED BY <3>2, <3>3
  <2>11. CASE DeqNbCas(t)
    <3>1. pc[t] = "deq_cas" /\ ticket[t] \in Nat /\ head \in Nat
      BY <2>3, <2>11 DEF DeqNbCas, TypeOK
    <3>2. CASE head % TicketMod = ticket[t] % TicketMod
      <4>1. ticket[t] <= head /\ head < ticket[t] + TicketMod
        BY <2>3, <3>1 DEF ThreadInv, TicketInv, ValueInv, DeqTries
      <4>2. head = ticket[t]
        <5>1. ticket[t] < head + TicketMod BY <3>1, <4>1, WrapAssumption
        <5>2. QED BY <3>1, <3>2, <4>1, <5>1, WrapAssumption, NearModEqual
      <4>3. pass[Slot(head)] = DeqTurn(head) BY <2>3, <3>1, <4>2
         DEF ThreadInv, TicketInv, ValueInv
      <4>4. TakeDeqTicket(t, "deq_read") BY <2>11, <3>2 DEF DeqNbCas
      <4>5. QED BY <2>0, <2>1, <3>1, <4>3, <4>4, TakeDeqPreserves
    <3>3. CASE head % TicketMod # ticket[t] % TicketMod
      <4>1. Busy(t) BY <2>11, <3>3 DEF DeqNbCas
      <4>2. QED BY <2>0, <2>3, <2>4, <2>11, <4>1, QuietDeqSteps
    <3>4. QED BY <3>2, <3>3
  <2>12. CASE EnqWrite(t) BY <2>0, <2>1, <2>12, EnqWritePreserves
  <2>13. CASE EnqPublish(t) BY <2>0, <2>1, <2>13, EnqPublishPreserves
  <2>14. CASE DeqRelease(t) BY <2>0, <2>1, <2>14, DeqReleasePreserves
  <2>15. QED
    BY <2>2, <2>5, <2>6, <2>7, <2>8, <2>9, <2>10, <2>11, <2>12, <2>13, <2>14
       DEF EnqStep, DeqStep
<1>3. ASSUME IInv, UNCHANGED vars PROVE IInv'
  BY <1>3 DEF vars, IInv, TypeOK, IdsFollowPass, TicketsTaken, HeldByOne, HeldUntilTurn,
     TurnNotPast, PassedWereTaken, InSlotAtTurn, ReadyUntilTaken, LeftForGood,
     ValuesCarried, PublishedIntact, DeliveredInOrder, HoldsEnq, HoldsDeq
<1>4. QED BY <1>1, <1>2, <1>3 DEF Parts

\* The invariant holds in every reachable state, and with it the types, the
\* delivery in ticket order and the safety of published items.
THEOREM Invariance == Spec => []IInv
BY InitIInv, NextIInv, PTL DEF Spec

\* Types, id range included, are kept for every queue length and thread count.
THEOREM TypeCorrect == Spec => []TypeOK
<1>1. IInv => TypeOK BY DEF IInv
<1>2. QED BY <1>1, Invariance, PTL

\* The n-th dequeue returns what the n-th enqueue brought.
THEOREM InOrder == Spec => []DeliveredInOrder
<1>1. IInv => DeliveredInOrder BY DEF IInv
<1>2. QED BY <1>1, Invariance, PTL

\* A published item stays in its slot until its dequeue has read it.
THEOREM Intact == Spec => []PublishedIntact
<1>1. IInv => PublishedIntact BY DEF IInv
<1>2. QED BY <1>1, Invariance, PTL

\* No two threads work on one slot at a time.
THEOREM Exclusive == Spec => []SlotExclusive
<1>1. ASSUME IInv PROVE SlotExclusive
  <2>1. SUFFICES ASSUME NEW t \in Threads, NEW u \in Threads, t # u, InSlot(t), InSlot(u),
                        Slot(ticket[t]) = Slot(ticket[u])
                 PROVE  FALSE
    BY DEF SlotExclusive
  <2>2. ticket[t] \in Nat /\ ticket[u] \in Nat BY <1>1 DEF IInv, TypeOK
  <2>3. /\ EnqTurn(ticket[t]) = EnqTurn(ticket[u]) => ticket[t] = ticket[u]
        /\ DeqTurn(ticket[t]) = DeqTurn(ticket[u]) => ticket[t] = ticket[u]
        /\ EnqTurn(ticket[t]) # DeqTurn(ticket[u])
        /\ EnqTurn(ticket[u]) # DeqTurn(ticket[t])
    BY <2>1, <2>2, TurnUnique
  <2>4. CASE pc[t] \in {"enq_write", "enq_publish"}
    <3>1. HoldsEnq(t) /\ pass[Slot(ticket[t])] = EnqTurn(ticket[t])
      BY <1>1, <2>4 DEF IInv, InSlotAtTurn, HoldsEnq, EnqPcs
    <3>2. CASE pc[u] \in {"enq_write", "enq_publish"}
      BY <1>1, <2>1, <2>3, <3>1, <3>2
         DEF IInv, InSlotAtTurn, HeldByOne, HoldsEnq, EnqPcs
    <3>3. CASE pc[u] \in {"deq_read", "deq_release"}
      BY <1>1, <2>1, <2>3, <3>1, <3>3 DEF IInv, InSlotAtTurn
    <3>4. QED BY <2>1, <3>2, <3>3 DEF InSlot
  <2>5. CASE pc[t] \in {"deq_read", "deq_release"}
    <3>1. HoldsDeq(t) /\ pass[Slot(ticket[t])] = DeqTurn(ticket[t])
      BY <1>1, <2>5 DEF IInv, InSlotAtTurn, HoldsDeq, DeqPcs
    <3>2. CASE pc[u] \in {"deq_read", "deq_release"}
      BY <1>1, <2>1, <2>3, <3>1, <3>2
         DEF IInv, InSlotAtTurn, HeldByOne, HoldsDeq, DeqPcs
    <3>3. CASE pc[u] \in {"enq_write", "enq_publish"}
      BY <1>1, <2>1, <2>3, <3>1, <3>3 DEF IInv, InSlotAtTurn
    <3>4. QED BY <2>1, <3>2, <3>3 DEF InSlot
  <2>6. QED BY <2>1, <2>4, <2>5 DEF InSlot
<1>2. QED BY <1>1, Invariance, PTL

-----------------------------------------------------------------------------
(***************************************************************************)
(* SFQ_BUSY is never returned for nothing                                  *)
(***************************************************************************)

\* A step of one thread leaves every other thread where it is.
LEMMA OthersStay ==
  ASSUME TypeOK, NEW u \in Threads, Call(u) \/ EnqStep(u) \/ DeqStep(u),
         NEW t \in Threads, t # u
  PROVE  pc'[t] = pc[t]
<1>1. pc \in [Threads -> Pcs] BY DEF TypeOK
<1>2. CASE Call(u)
  BY <1>1, <1>2 DEF Call, EnqStart, EnqNbStart, DeqStart, DeqNbStart, Start, Close
<1>3. CASE EnqStep(u)
  BY <1>1, <1>3 DEF EnqStep, EnqTicket, EnqPoll, EnqRecheck, EnqWrite, EnqPublish,
     EnqNbLoad, EnqNbCheck, EnqNbCas, TakeEnqTicket, GoTo, GiveUp, HandOver, LoadCounter, Busy
<1>4. CASE DeqStep(u)
  BY <1>1, <1>4 DEF DeqStep, DeqTicket, DeqPoll, DeqRecheck, DeqRead, DeqRelease,
     DeqNbLoad, DeqNbCheck, DeqNbCas, TakeDeqTicket, GoTo, GiveUp, HandOver, LoadCounter, Busy
<1>5. QED BY <1>2, <1>3, <1>4

\* The step of a thread that is refused names the action that refuses it.
LEMMA RefusedSteps ==
  ASSUME NEW t \in Threads, Call(t) \/ EnqStep(t) \/ DeqStep(t)
  PROVE  /\ pc[t] = "enq_check" => EnqNbCheck(t)
         /\ pc[t] = "deq_check" => DeqNbCheck(t)
         /\ pc[t] = "enq_cas" => EnqNbCas(t)
         /\ pc[t] = "deq_cas" => DeqNbCas(t)
BY DEF Call, EnqStart, EnqNbStart, DeqStart, DeqNbStart, Start, Close,
       EnqStep, EnqTicket, EnqPoll, EnqRecheck, EnqWrite, EnqPublish, EnqNbLoad,
       EnqNbCheck, EnqNbCas, DeqStep, DeqTicket, DeqPoll, DeqRecheck, DeqRead,
       DeqRelease, DeqNbLoad, DeqNbCheck, DeqNbCas

\* SFQ_BUSY has a reason.  A refused check that still holds the counter's value
\* met a slot that is not past the ticket's turn; were it at that turn, its id
\* would be the one the check compares with.
THEOREM BusyForAReason == Spec => BusyHasReason
<1>1. ASSUME IInv, Next, NEW t \in Threads, pc'[t] = "idle"
      PROVE  /\ pc[t] = "enq_check" =>
                  tail # ticket[t] \/ pass[Slot(ticket[t])] < EnqTurn(ticket[t])
             /\ pc[t] = "deq_check" =>
                  head # ticket[t] \/ pass[Slot(ticket[t])] < DeqTurn(ticket[t])
             /\ pc[t] = "enq_cas" => tail > ticket[t]
             /\ pc[t] = "deq_cas" => head > ticket[t]
  <2> DEFINE n == ticket[t]
             s == Slot(n)
  <2>1. /\ TypeOK /\ IdsFollowPass /\ TicketsTaken /\ PassedWereTaken
        /\ n \in Nat /\ head \in Nat /\ tail \in Nat /\ pc \in [Threads -> Pcs]
    BY <1>1 DEF IInv, TypeOK
  <2>2. PICK u \in Threads : Call(u) \/ EnqStep(u) \/ DeqStep(u) BY <1>1 DEF Next
  <2>3. ASSUME pc[t] # "idle"
        PROVE  Call(t) \/ EnqStep(t) \/ DeqStep(t)
    <3>1. u = t BY <1>1, <2>1, <2>2, <2>3, OthersStay
    <3>2. QED BY <2>2, <3>1
  <2>4. s \in Slots /\ EnqTurn(n) \in Nat /\ DeqTurn(n) \in Nat
    BY <2>1, SlotFacts, TurnFacts
  <2>5. pass[s] \in Nat /\ ids[s] = pass[s] % MaxId
    BY <2>1, <2>4 DEF TypeOK, IdsFollowPass
  <2>6. GetId(n) = EnqTurn(n) % MaxId /\ GetId(n) + 1 = DeqTurn(n) % MaxId
    BY <2>1, IdOfTurn
  <2>7. ASSUME pc[t] = "enq_check", tail = n PROVE pass[s] < EnqTurn(n)
    <3>1. EnqNbCheck(t) BY <2>3, <2>7, RefusedSteps
    <3>2. ~ MyTurnToEnq(t) BY <1>1, <2>1, <3>1 DEF EnqNbCheck, GoTo
    <3>3. ids[s] # GetId(n) BY <3>2 DEF MyTurnToEnq
    <3>4. pass[s] # EnqTurn(n) BY <2>5, <2>6, <3>3
    <3>5. pass[s] <= EnqTurn(n) BY <2>1, <2>7, NotPassedYet
    <3> HIDE DEF s, n
    <3>6. QED BY <2>4, <2>5, <3>4, <3>5
  <2>8. ASSUME pc[t] = "deq_check", head = n PROVE pass[s] < DeqTurn(n)
    <3>1. DeqNbCheck(t) BY <2>3, <2>8, RefusedSteps
    <3>2. ~ MyTurnToDeq(t) BY <1>1, <2>1, <3>1 DEF DeqNbCheck, GoTo
    <3>3. ids[s] # GetId(n) + 1 BY <3>2 DEF MyTurnToDeq
    <3>4. pass[s] # DeqTurn(n) BY <2>5, <2>6, <3>3
    <3>5. pass[s] <= DeqTurn(n) BY <2>1, <2>8, NotPassedYet
    <3> HIDE DEF s, n
    <3>6. QED BY <2>4, <2>5, <3>4, <3>5
  <2>9. ASSUME pc[t] = "enq_cas" PROVE tail > n
    <3>1. EnqNbCas(t) BY <2>3, <2>9, RefusedSteps
    <3>2. tail % TicketMod # n % TicketMod
      BY <1>1, <2>1, <3>1 DEF EnqNbCas, TakeEnqTicket
    <3>3. n <= tail BY <2>1, <2>9 DEF TicketsTaken, EnqTries
    <3> HIDE DEF n
    <3>4. QED BY <2>1, <3>2, <3>3
  <2>10. ASSUME pc[t] = "deq_cas" PROVE head > n
    <3>1. DeqNbCas(t) BY <2>3, <2>10, RefusedSteps
    <3>2. head % TicketMod # n % TicketMod
      BY <1>1, <2>1, <3>1 DEF DeqNbCas, TakeDeqTicket
    <3>3. n <= head BY <2>1, <2>10 DEF TicketsTaken, DeqTries
    <3> HIDE DEF n
    <3>4. QED BY <2>1, <3>2, <3>3
  <2>11. QED BY <2>7, <2>8, <2>9, <2>10
<1>2. IInv /\ [Next]_vars =>
        [\A t \in Threads :
           pc'[t] = "idle" =>
             /\ pc[t] = "enq_check" =>
                  tail # ticket[t] \/ pass[Slot(ticket[t])] < EnqTurn(ticket[t])
             /\ pc[t] = "deq_check" =>
                  head # ticket[t] \/ pass[Slot(ticket[t])] < DeqTurn(ticket[t])
             /\ pc[t] = "enq_cas" => tail > ticket[t]
             /\ pc[t] = "deq_cas" => head > ticket[t]]_vars
  BY <1>1
<1>3. QED BY <1>2, Invariance, PTL DEF Spec, BusyHasReason

-----------------------------------------------------------------------------
(***************************************************************************)
(* The ring implements TicketFifo.  The variables of the abstract queue,   *)
(* as SfQueue maps them, get names of their own here.                      *)
(***************************************************************************)

AbsQueue == SubSeq(put, head + 1, tail)
AbsWaiting == [i \in 1 .. head - tail |-> HolderOfDeq(tail + i - 1)]
AbsHand ==
  [t \in Threads |-> IF HoldsDeq(t) /\ ticket[t] < tail THEN put[ticket[t] + 1] ELSE NoItem]
AbsOut == [t \in Threads |-> IF pc[t] = "idle" THEN val[t] ELSE NoItem]
AbsSt == [t \in Threads |-> AbstractSt(t)]

\* Items and lines of waiting threads do not change when no ticket does.
LEMMA SameTickets ==
  ASSUME UNCHANGED <<put, head, tail>>,
         \A u \in Threads : HoldsDeq(u)' <=> HoldsDeq(u),
         \A u \in Threads : HoldsDeq(u) => ticket'[u] = ticket[u]
  PROVE  AbsQueue' = AbsQueue /\ AbsWaiting' = AbsWaiting /\ AbsHand' = AbsHand
<1>1. \A n : HolderOfDeq(n)' = HolderOfDeq(n)
  <2>1. \A n : \A u \in Threads :
          HoldsDeq(u)' /\ ticket'[u] = n <=> HoldsDeq(u) /\ ticket[u] = n
    OBVIOUS
  <2>2. QED BY <2>1 DEF HolderOfDeq
<1>2. AbsWaiting' = AbsWaiting BY <1>1 DEF AbsWaiting
<1>3. AbsHand' = AbsHand BY DEF AbsHand
<1>4. QED BY <1>2, <1>3 DEF AbsQueue

\* A call on an open queue starts at once, on a closed one it fails at once.
LEMMA StartRefines ==
  ASSUME TypeOK, LeftForGood, NEW t \in Threads, NEW v,
         NEW first \in {"enq_faa", "enq_load", "deq_faa", "deq_load"},
         Start(t, first, v)
  PROVE  Fifo!Call(t) \/ Fifo!FailAtOnce(t)
<1>1. /\ pc \in [Threads -> Pcs] /\ val \in [Threads -> Items \cup {NoItem}]
      /\ pc[t] = "idle"
  BY DEF TypeOK, Start
<1>2. \A u \in Threads : HoldsDeq(u)' <=> HoldsDeq(u)
  BY <1>1 DEF Start, HoldsDeq, DeqPcs
<1>3. AbsQueue' = AbsQueue /\ AbsWaiting' = AbsWaiting /\ AbsHand' = AbsHand
  BY <1>2, SameTickets DEF Start
<1>4. AbsOut' = [AbsOut EXCEPT ![t] = NoItem] BY <1>1 DEF Start, AbsOut
<1>5. AbsSt[t] = "idle" /\ closed' = closed
  BY <1>1 DEF AbsSt, AbstractSt, Start, EnqTries, DeqTries, EnqPcs, DeqPcs
<1>6. CASE closed
  <2>1. AbsSt' = AbsSt BY <1>1, <1>6 DEF Start, AbsSt, AbstractSt
  <2>2. Fifo!FailAtOnce(t)
    BY <1>3, <1>4, <1>5, <2>1
       DEF Fifo!FailAtOnce, AbsQueue, AbsWaiting, AbsHand, AbsOut, AbsSt
  <2>3. QED BY <2>2
<1>7. CASE ~ closed
  <2>1. \A u \in Threads \ {t} : pc'[u] = pc[u] BY <1>1, <1>7 DEF Start
  <2>2. pc'[t] = first BY <1>1, <1>7 DEF Start
  <2>3. AbstractSt(t)' \in {"enq", "deq"}
    BY <2>2 DEF AbstractSt, EnqTries, DeqTries, EnqPcs, DeqPcs
  <2>4. \A u \in Threads \ {t} : AbstractSt(u)' = AbstractSt(u) BY <2>1 DEF AbstractSt
  <2>5. AbsSt' = [AbsSt EXCEPT ![t] = AbstractSt(t)'] BY <2>3, <2>4 DEF AbsSt
  <2>6. \E kind \in {"enq", "deq"} : AbsSt' = [AbsSt EXCEPT ![t] = kind] BY <2>3, <2>5
  <2>7. Fifo!Call(t)
    BY <1>3, <1>4, <1>5, <2>6
       DEF Fifo!Call, AbsQueue, AbsWaiting, AbsHand, AbsOut, AbsSt
  <2>8. QED BY <2>7
<1>8. QED BY <1>6, <1>7

\* The lines AbstractSt draws, one fact for each.
LEMMA AbstractStFacts ==
  ASSUME NEW t \in Threads
  PROVE  /\ pc[t] \in EnqTries \cup {"enq_faa", "enq_load"} => AbstractSt(t) = "enq"
         /\ pc[t] \in DeqTries \cup {"deq_faa", "deq_load"} => AbstractSt(t) = "deq"
         /\ pc[t] \in EnqPcs => AbstractSt(t) = "put"
         /\ pc[t] \in DeqPcs => AbstractSt(t) = "got"
         /\ pc[t] = "idle" => AbstractSt(t) = "idle"
BY DEF AbstractSt, EnqTries, DeqTries, EnqPcs, DeqPcs

\* A step moves one thread; the others are where they were.
LEMMA OneMoves ==
  ASSUME TypeOK, NEW t \in Threads, NEW next, pc' = [pc EXCEPT ![t] = next]
  PROVE  /\ pc'[t] = next
         /\ \A u \in Threads \ {t} : pc'[u] = pc[u]
         /\ AbsSt' = [AbsSt EXCEPT ![t] = AbstractSt(t)']
<1>1. pc \in [Threads -> Pcs] BY DEF TypeOK
<1>2. pc'[t] = next /\ \A u \in Threads \ {t} : pc'[u] = pc[u] BY <1>1
<1>3. \A u \in Threads \ {t} : AbstractSt(u)' = AbstractSt(u) BY <1>2 DEF AbstractSt
<1>4. AbsSt' = [AbsSt EXCEPT ![t] = AbstractSt(t)'] BY <1>3 DEF AbsSt
<1>5. QED BY <1>2, <1>4

\* A step inside a call that takes no ticket changes nothing a caller could tell.
LEMMA InnerStepRefines ==
  ASSUME TypeOK, NEW t \in Threads, NEW next, pc' = [pc EXCEPT ![t] = next],
         pc[t] # "idle", next # "idle", AbstractSt(t)' = AbstractSt(t),
         UNCHANGED <<head, tail, put, closed>>,
         HoldsDeq(t)' <=> HoldsDeq(t),
         HoldsDeq(t) => ticket'[t] = ticket[t],
         \A u \in Threads \ {t} : /\ ticket'[u] = ticket[u] /\ val'[u] = val[u]
                                  /\ left'[u] = left[u]
  PROVE  UNCHANGED Fifo!vars
<1>1. /\ pc'[t] = next /\ \A u \in Threads \ {t} : pc'[u] = pc[u]
      /\ AbsSt' = [AbsSt EXCEPT ![t] = AbstractSt(t)']
  BY OneMoves
<1>2. \A u \in Threads : HoldsDeq(u)' <=> HoldsDeq(u) BY <1>1 DEF HoldsDeq
<1>3. AbsQueue' = AbsQueue /\ AbsWaiting' = AbsWaiting /\ AbsHand' = AbsHand
  BY <1>2, SameTickets
<1>4. AbsOut' = AbsOut BY <1>1 DEF AbsOut
<1>5. AbsSt' = AbsSt BY <1>1 DEF AbsSt
<1>6. QED BY <1>3, <1>4, <1>5 DEF Fifo!vars, AbsQueue, AbsWaiting, AbsHand, AbsOut, AbsSt

\* SFQ_BUSY is a failure without effect.
LEMMA BusyRefines ==
  ASSUME TypeOK, LeftForGood, NEW t \in Threads, pc[t] \in EnqTries \cup DeqTries, Busy(t)
  PROVE  Fifo!Fail(t)
<1>1. /\ pc'[t] = "idle" /\ \A u \in Threads \ {t} : pc'[u] = pc[u]
      /\ AbsSt' = [AbsSt EXCEPT ![t] = AbstractSt(t)']
  BY OneMoves DEF Busy
<1>2. pc[t] # "idle" /\ pc[t] \notin DeqPcs BY DEF EnqTries, DeqTries, DeqPcs
<1>3. left[t] = "no" BY <1>2 DEF LeftForGood
<1>4. \A u \in Threads : HoldsDeq(u)' <=> HoldsDeq(u)
  BY <1>1, <1>2, <1>3 DEF HoldsDeq, Busy, DeqPcs
<1>5. AbsQueue' = AbsQueue /\ AbsWaiting' = AbsWaiting /\ AbsHand' = AbsHand
  BY <1>4, SameTickets DEF Busy
<1>6. AbsOut' = AbsOut
  <2>1. val \in [Threads -> Items \cup {NoItem}] BY DEF TypeOK
  <2>2. QED BY <1>1, <1>2, <2>1 DEF AbsOut, Busy
<1>7. AbstractSt(t) \in {"enq", "deq"} BY AbstractStFacts
<1>8. AbstractSt(t)' = "idle" BY <1>1 DEF AbstractSt, EnqTries, DeqTries, EnqPcs, DeqPcs
<1>9. AbsSt[t] \in {"enq", "deq"} /\ AbsSt' = [AbsSt EXCEPT ![t] = "idle"]
  BY <1>1, <1>7, <1>8 DEF AbsSt
<1>10. closed' = closed BY DEF Busy
<1>11. QED BY <1>5, <1>6, <1>9, <1>10
         DEF Fifo!Fail, AbsQueue, AbsWaiting, AbsHand, AbsOut, AbsSt

\* SFQ_CLOSED from a wait abandons the item that was carried or owed.
LEMMA GiveUpRefines ==
  ASSUME TypeOK, LeftForGood, NEW t \in Threads, NEW side \in {"enq", "deq"}, closed,
         pc[t] = IF side = "enq" THEN "enq_recheck" ELSE "deq_recheck", GiveUp(t, side)
  PROVE  Fifo!Abandon(t)
<1>1. /\ pc'[t] = "idle" /\ \A u \in Threads \ {t} : pc'[u] = pc[u]
      /\ AbsSt' = [AbsSt EXCEPT ![t] = AbstractSt(t)']
  BY OneMoves DEF GiveUp
<1>2. pc[t] # "idle" /\ (pc[t] \in DeqPcs <=> side = "deq") BY DEF DeqPcs
<1>3. left[t] = "no" BY <1>2 DEF LeftForGood
<1>4. \A u \in Threads : HoldsDeq(u)' <=> HoldsDeq(u)
  <2>1. left \in [Threads -> {"no", "enq", "deq"}] BY DEF TypeOK
  <2>2. left'[t] = side /\ \A u \in Threads \ {t} : left'[u] = left[u] BY <2>1 DEF GiveUp
  <2>3. QED BY <1>1, <1>2, <1>3, <2>2 DEF HoldsDeq, DeqPcs
<1>5. AbsQueue' = AbsQueue /\ AbsWaiting' = AbsWaiting /\ AbsHand' = AbsHand
  BY <1>4, SameTickets DEF GiveUp
<1>6. AbsOut' = AbsOut
  <2>1. val \in [Threads -> Items \cup {NoItem}] BY DEF TypeOK
  <2>2. QED BY <1>1, <1>2, <2>1 DEF AbsOut, GiveUp
<1>7. AbstractSt(t) \in {"put", "got"} BY AbstractStFacts DEF EnqPcs, DeqPcs
<1>8. AbstractSt(t)' = "idle" BY <1>1 DEF AbstractSt, EnqTries, DeqTries, EnqPcs, DeqPcs
<1>9. AbsSt[t] \in {"put", "got"} /\ AbsSt' = [AbsSt EXCEPT ![t] = "idle"]
  BY <1>1, <1>7, <1>8 DEF AbsSt
<1>10. closed' = closed BY DEF GiveUp
<1>11. QED BY <1>5, <1>6, <1>9, <1>10
         DEF Fifo!Abandon, AbsQueue, AbsWaiting, AbsHand, AbsOut, AbsSt

\* sfq_close closes.
LEMMA CloseRefines ==
  ASSUME NEW t \in Threads, Close(t)
  PROVE  Fifo!Close
<1>1. \A u \in Threads : HoldsDeq(u)' <=> HoldsDeq(u) BY DEF Close, HoldsDeq
<1>2. AbsQueue' = AbsQueue /\ AbsWaiting' = AbsWaiting /\ AbsHand' = AbsHand
  BY <1>1, SameTickets DEF Close
<1>3. AbsOut' = AbsOut /\ AbsSt' = AbsSt BY DEF AbsOut, AbsSt, AbstractSt, Close
<1>4. QED BY <1>2, <1>3
        DEF Fifo!Close, Close, AbsQueue, AbsWaiting, AbsHand, AbsOut, AbsSt

\* The hand-over after the write ends the enqueue.
LEMMA EnqPublishRefines ==
  ASSUME TypeOK, LeftForGood, NEW t \in Threads, EnqPublish(t)
  PROVE  Fifo!Return(t)
<1>1. /\ pc'[t] = "idle" /\ \A u \in Threads \ {t} : pc'[u] = pc[u]
      /\ AbsSt' = [AbsSt EXCEPT ![t] = AbstractSt(t)']
  BY OneMoves DEF EnqPublish, HandOver
<1>2. pc[t] = "enq_publish" BY DEF EnqPublish
<1>3. left[t] = "no" BY <1>2 DEF LeftForGood
<1>4. \A u \in Threads : HoldsDeq(u)' <=> HoldsDeq(u)
  BY <1>1, <1>2, <1>3 DEF HoldsDeq, EnqPublish, DeqPcs
<1>5. AbsQueue' = AbsQueue /\ AbsWaiting' = AbsWaiting /\ AbsHand' = AbsHand
  BY <1>4, SameTickets DEF EnqPublish
<1>6. AbsOut' = AbsOut
  <2>1. val \in [Threads -> Items \cup {NoItem}] BY DEF TypeOK
  <2>2. QED BY <1>1, <1>2, <2>1 DEF AbsOut, EnqPublish
<1>7. AbstractSt(t) = "put" BY <1>2, AbstractStFacts DEF EnqPcs
<1>8. AbstractSt(t)' = "idle" BY <1>1 DEF AbstractSt, EnqTries, DeqTries, EnqPcs, DeqPcs
<1>9. AbsSt[t] = "put" /\ AbsSt' = [AbsSt EXCEPT ![t] = "idle"]
  BY <1>1, <1>7, <1>8 DEF AbsSt
<1>10. closed' = closed BY DEF EnqPublish
<1>11. QED BY <1>5, <1>6, <1>9, <1>10
         DEF Fifo!Return, AbsQueue, AbsWaiting, AbsHand, AbsOut, AbsSt

\* The hand-over after the read ends the dequeue with the item it claimed.
LEMMA DeqReleaseRefines ==
  ASSUME IInv, NEW t \in Threads, DeqRelease(t)
  PROVE  Fifo!Return(t)
<1>0. TypeOK /\ LeftForGood /\ TicketsTaken /\ DeliveredInOrder BY DEF IInv
<1>1. /\ pc'[t] = "idle" /\ \A u \in Threads \ {t} : pc'[u] = pc[u]
      /\ AbsSt' = [AbsSt EXCEPT ![t] = AbstractSt(t)']
  BY <1>0, OneMoves DEF DeqRelease, HandOver
<1>2. pc[t] = "deq_release" BY DEF DeqRelease
<1>3. left[t] = "no" BY <1>0, <1>2 DEF LeftForGood
<1>4. HoldsDeq(t) /\ ~ HoldsDeq(t)' BY <1>1, <1>2, <1>3 DEF HoldsDeq, DeqRelease, DeqPcs
<1>5. \A u \in Threads \ {t} : HoldsDeq(u)' <=> HoldsDeq(u)
  BY <1>1 DEF HoldsDeq, DeqRelease
<1>6. ticket[t] < tail /\ val[t] = put[ticket[t] + 1] /\ ticket[t] \in Nat
  BY <1>0, <1>2 DEF DeliveredInOrder, TypeOK
<1>7. val[t] \in Items
  <2>1. put \in Seq(Items) /\ Len(put) = tail BY <1>0 DEF TypeOK, TicketsTaken
  <2>2. ticket[t] + 1 \in 1 .. Len(put) BY <1>6, <2>1
  <2>3. QED BY <1>6, <2>1, <2>2
<1>8. AbsWaiting' = AbsWaiting
  <2>1. head \in Nat /\ tail \in Nat BY <1>0 DEF TypeOK
  <2>2. ASSUME NEW n \in Nat, tail <= n PROVE HolderOfDeq(n)' = HolderOfDeq(n)
    <3>1. \A u \in Threads : HoldsDeq(u)' /\ ticket'[u] = n <=> HoldsDeq(u) /\ ticket[u] = n
      <4>1. n # ticket[t] BY <1>6, <2>1, <2>2
      <4>2. QED BY <1>4, <1>5, <4>1 DEF DeqRelease
    <3>2. QED BY <3>1 DEF HolderOfDeq
  <2>3. \A i \in 1 .. head - tail : HolderOfDeq(tail + i - 1)' = HolderOfDeq(tail + i - 1)
    <3>1. SUFFICES ASSUME NEW i \in 1 .. head - tail
                   PROVE  HolderOfDeq(tail + i - 1)' = HolderOfDeq(tail + i - 1)
      OBVIOUS
    <3>2. tail + i - 1 \in Nat /\ tail <= tail + i - 1 BY <2>1
    <3>3. tail' = tail BY DEF DeqRelease
    <3>4. QED BY <2>2, <3>2, <3>3 DEF HolderOfDeq
  <2>4. QED BY <2>3 DEF AbsWaiting, DeqRelease
<1>9. AbsQueue' = AbsQueue BY DEF AbsQueue, DeqRelease
<1>10. AbsHand[t] = val[t] /\ AbsHand' = [AbsHand EXCEPT ![t] = NoItem]
  BY <1>4, <1>5, <1>6 DEF AbsHand, DeqRelease
<1>11. AbsOut' = [AbsOut EXCEPT ![t] = val[t]]
  BY <1>1, <1>2 DEF AbsOut, DeqRelease
<1>12. AbstractSt(t) = "got" BY <1>2, AbstractStFacts DEF DeqPcs
<1>13. AbstractSt(t)' = "idle" BY <1>1 DEF AbstractSt, EnqTries, DeqTries, EnqPcs, DeqPcs
<1>14. AbsSt[t] = "got" /\ AbsSt' = [AbsSt EXCEPT ![t] = "idle"]
  BY <1>1, <1>12, <1>13 DEF AbsSt
<1>15. closed' = closed BY DEF DeqRelease
<1>16. AbsHand[t] # NoItem /\ AbsOut' = [AbsOut EXCEPT ![t] = AbsHand[t]]
  BY <1>7, <1>10, <1>11, ItemAssumption
<1>17. QED BY <1>8, <1>9, <1>10, <1>14, <1>15, <1>16
         DEF Fifo!Return, AbsQueue, AbsWaiting, AbsHand, AbsOut, AbsSt

LEMMA WindowGrows ==
  ASSUME NEW S, NEW s \in Seq(S), NEW v \in S, NEW h \in Nat, h <= Len(s)
  PROVE  SubSeq(Append(s, v), h + 1, Len(s) + 1) = Append(SubSeq(s, h + 1, Len(s)), v)
<1> DEFINE d == Append(s, v)
           a == SubSeq(d, h + 1, Len(s) + 1)
           b == SubSeq(s, h + 1, Len(s))
           c == Append(b, v)
<1>1. Len(s) \in Nat OBVIOUS
<1>2. /\ d \in Seq(S) /\ Len(d) = Len(s) + 1 /\ d[Len(s) + 1] = v
      /\ \A i \in 1 .. Len(s) : d[i] = s[i]
  BY AppendProperties
<1> HIDE DEF d
<1>3. /\ a \in Seq(S) /\ Len(a) = Len(s) + 1 - h
      /\ \A i \in 1 .. Len(s) + 1 - h : a[i] = d[h + i]
  BY <1>1, <1>2
<1>4. /\ b \in Seq(S) /\ Len(b) = Len(s) - h
      /\ \A i \in 1 .. Len(s) - h : b[i] = s[h + i]
  BY <1>1
<1> HIDE DEF a, b
<1>5. /\ c \in Seq(S) /\ Len(c) = Len(b) + 1 /\ c[Len(b) + 1] = v
      /\ \A i \in 1 .. Len(b) : c[i] = b[i]
  BY <1>4, AppendProperties
<1> HIDE DEF c
<1>6. \A i \in 1 .. Len(a) : a[i] = c[i]
  <2>1. SUFFICES ASSUME NEW i \in 1 .. Len(a) PROVE a[i] = c[i] OBVIOUS
  <2>2. CASE i <= Len(b)
    <3>1. i \in Nat /\ i \in 1 .. Len(b) /\ i \in 1 .. Len(s) - h BY <1>1, <1>4, <2>2
    <3>2. h + i \in 1 .. Len(s) BY <1>1, <3>1
    <3>3. a[i] = d[h + i] BY <1>1, <1>3, <3>1
    <3>4. d[h + i] = s[h + i] BY <1>2, <3>2
    <3>5. QED BY <1>4, <1>5, <3>1, <3>3, <3>4
  <2>3. CASE i = Len(b) + 1 BY <1>1, <1>2, <1>3, <1>4, <1>5, <2>1, <2>3
  <2>4. QED BY <1>1, <1>3, <1>4, <2>1, <2>2, <2>3
<1>7. Len(a) = Len(c) BY <1>1, <1>3, <1>4, <1>5
<1>8. a = c BY <1>3, <1>5, <1>6, <1>7, SeqEqual
<1>9. QED BY <1>8 DEF a, b, c, d

\* A dequeue ticket not matched by an enqueue ticket yet has one waiting holder.
LEMMA WaitingHolder ==
  ASSUME IInv, NEW n \in Nat, tail <= n, n < head
  PROVE  /\ HolderOfDeq(n) \in Threads
         /\ HoldsDeq(HolderOfDeq(n))
         /\ ticket[HolderOfDeq(n)] = n
<1>1. TypeOK /\ HeldUntilTurn /\ PassedWereTaken BY DEF IInv
<1>2. pass[Slot(n)] <= EnqTurn(n) BY <1>1, NotPassedYet
<1>3. /\ pass[Slot(n)] \in Nat /\ EnqTurn(n) \in Nat /\ DeqTurn(n) = EnqTurn(n) + 1
      /\ head \in Nat
  BY <1>1, SlotFacts, TurnFacts DEF TypeOK
<1>4. pass[Slot(n)] <= DeqTurn(n) BY <1>2, <1>3
<1>5. n \in 0 .. head - 1 BY <1>3
<1>6. \E t \in Threads : HoldsDeq(t) /\ ticket[t] = n BY <1>1, <1>4, <1>5 DEF HeldUntilTurn
<1>7. QED BY <1>6 DEF HolderOfDeq

\* The dequeue ticket of a holder names the holder.
LEMMA HolderIsUnique ==
  ASSUME HeldByOne, NEW t \in Threads, HoldsDeq(t)
  PROVE  HolderOfDeq(ticket[t]) = t
<1>1. \A u \in Threads : HoldsDeq(u) /\ ticket[u] = ticket[t] <=> u = t
  BY DEF HeldByOne
<1>2. QED BY <1>1 DEF HolderOfDeq

\* The atomicAdd or compare-and-swap on tail puts the item: into the queue, or
\* into the hand of the dequeuer that holds the same ticket already.
LEMMA TakeEnqRefines ==
  ASSUME IInv, NEW t \in Threads, NEW next \in EnqPcs,
         pc[t] \in EnqTries \cup {"enq_faa", "enq_load"}, TakeEnqTicket(t, next)
  PROVE  \E v \in Items : Fifo!Put(t, v)
<1>0. PICK v \in Items : v = val[t] BY DEF IInv, ValuesCarried
<1>1. /\ TypeOK /\ LeftForGood /\ TicketsTaken /\ HeldByOne
      /\ head \in Nat /\ tail \in Nat /\ ticket \in [Threads -> Nat]
      /\ put \in Seq(Items) /\ Len(put) = tail
  BY DEF IInv, TypeOK, TicketsTaken
<1>2. /\ pc'[t] = next /\ \A u \in Threads \ {t} : pc'[u] = pc[u]
      /\ AbsSt' = [AbsSt EXCEPT ![t] = AbstractSt(t)']
  BY <1>1, OneMoves DEF TakeEnqTicket
<1>3. pc[t] # "idle" /\ pc[t] \notin DeqPcs /\ next # "idle" /\ next \notin DeqPcs
  BY DEF EnqTries, EnqPcs, DeqPcs
<1>4. left[t] = "no" BY <1>1, <1>3 DEF LeftForGood
<1>5. /\ ~ HoldsDeq(t) /\ ~ HoldsDeq(t)'
      /\ \A u \in Threads : HoldsDeq(u)' <=> HoldsDeq(u)
      /\ \A u \in Threads : HoldsDeq(u) => ticket'[u] = ticket[u]
  <2>1. ~ HoldsDeq(t) /\ ~ HoldsDeq(t)'
    BY <1>2, <1>3, <1>4 DEF HoldsDeq, TakeEnqTicket
  <2>2. \A u \in Threads \ {t} : HoldsDeq(u)' <=> HoldsDeq(u)
    BY <1>2 DEF HoldsDeq, TakeEnqTicket
  <2>3. \A u \in Threads \ {t} : ticket'[u] = ticket[u] BY <1>1 DEF TakeEnqTicket
  <2>4. QED BY <2>1, <2>2, <2>3
<1>6. /\ tail' = tail + 1 /\ head' = head /\ put' = Append(put, v) /\ closed' = closed
      /\ val' = val
  BY <1>0 DEF TakeEnqTicket
<1>8. AbsOut' = AbsOut BY <1>2, <1>3, <1>6 DEF AbsOut
<1>9. AbsSt[t] = "enq" /\ AbsSt' = [AbsSt EXCEPT ![t] = "put"]
  <2>1. AbstractSt(t) = "enq" BY AbstractStFacts
  <2>2. AbstractSt(t)' = "put"
    BY <1>2 DEF AbstractSt, EnqTries, DeqTries, EnqPcs, DeqPcs
  <2>3. QED BY <1>2, <2>1, <2>2 DEF AbsSt
<1>10. \A u \in Threads : HoldsDeq(u) /\ ticket[u] < tail =>
         put'[ticket[u] + 1] = put[ticket[u] + 1]
  <2>1. \A i \in 1 .. Len(put) : Append(put, v)[i] = put[i] BY <1>1, AppendProperties
  <2>2. ASSUME NEW u \in Threads, ticket[u] < tail
        PROVE  put'[ticket[u] + 1] = put[ticket[u] + 1]
    <3>1. ticket[u] + 1 \in 1 .. Len(put) BY <1>1, <2>2
    <3>2. QED BY <1>6, <2>1, <3>1
  <2>3. QED BY <2>2
<1>11. CASE head <= tail
  <2>1. AbsWaiting = <<>> /\ AbsWaiting' = <<>>
    <3>1. 1 .. head - tail = {} /\ 1 .. head' - tail' = {} BY <1>1, <1>6, <1>11
    <3>2. QED BY <3>1 DEF AbsWaiting
  <2>2. AbsQueue' = Append(AbsQueue, v)
    BY <1>1, <1>6, <1>11, WindowGrows DEF AbsQueue
  <2>3. AbsHand' = AbsHand
    <3>1. \A u \in Threads : HoldsDeq(u) => ticket[u] < tail /\ ticket'[u] < tail'
      <4>1. \A u \in Threads : HoldsDeq(u) => ticket[u] < head BY <1>1 DEF TicketsTaken
      <4>2. QED BY <1>1, <1>5, <1>6, <1>11, <4>1
    <3>2. QED BY <1>5, <1>10, <3>1 DEF AbsHand
  <2>4. Fifo!Put(t, v)
    BY <1>6, <1>8, <1>9, <2>1, <2>2, <2>3
       DEF Fifo!Put, AbsQueue, AbsWaiting, AbsHand, AbsOut, AbsSt
  <2>5. QED BY <1>1, <2>4
<1>12. CASE tail < head
  <2> DEFINE w == HolderOfDeq(tail)
  <2>1. w \in Threads /\ HoldsDeq(w) /\ ticket[w] = tail BY <1>1, <1>12, WaitingHolder
  <2>2. AbsWaiting \in Seq(Threads) /\ Len(AbsWaiting) = head - tail
    <3>1. head - tail \in Nat BY <1>1, <1>12
    <3>2. \A i \in 1 .. head - tail : HolderOfDeq(tail + i - 1) \in Threads
      <4>1. SUFFICES ASSUME NEW i \in 1 .. head - tail
                     PROVE  HolderOfDeq(tail + i - 1) \in Threads
        OBVIOUS
      <4>2. /\ tail + i - 1 \in Nat /\ tail <= tail + i - 1
            /\ tail + i - 1 < head
        BY <1>1
      <4>3. QED BY <4>2, WaitingHolder
    <3>3. AbsWaiting \in [1 .. head - tail -> Threads] BY <3>2 DEF AbsWaiting
    <3>4. QED BY <3>1, <3>3, IsASeq, LenProperties
  <2>3. AbsWaiting # <<>> /\ Head(AbsWaiting) = w
    <3>1. Len(AbsWaiting) # 0 BY <1>1, <1>12, <2>2
    <3>2. 1 \in 1 .. head - tail /\ tail + 1 - 1 = tail BY <1>1, <1>12
    <3>3. AbsWaiting[1] = w BY <3>2 DEF AbsWaiting
    <3>4. QED BY <2>2, <3>1, <3>3
  <2>4. AbsWaiting' = Tail(AbsWaiting)
    <3> DEFINE a == AbsWaiting'
               b == Tail(AbsWaiting)
    <3>1. a = [i \in 1 .. head - tail - 1 |-> HolderOfDeq(tail + i)]
      <4>1. head' - tail' = head - tail - 1 BY <1>1, <1>6
      <4>2. ASSUME NEW i \in 1 .. head - tail - 1
            PROVE  HolderOfDeq(tail + i - 1)' = HolderOfDeq(tail + i)
        <5>1. tail' + i - 1 = tail + i BY <1>1, <1>6
        <5>2. \A u \in Threads : HoldsDeq(u)' /\ ticket'[u] = tail' + i - 1
                                  <=> HoldsDeq(u) /\ ticket[u] = tail + i
          BY <1>5, <5>1
        <5>3. QED BY <5>2 DEF HolderOfDeq
      <4>3. QED BY <4>1, <4>2 DEF AbsWaiting
    <3>2. /\ b \in Seq(Threads) /\ Len(b) = head - tail - 1
          /\ \A i \in 1 .. head - tail - 1 : b[i] = AbsWaiting[i + 1]
      BY <2>2, <2>3, HeadTailProperties
    <3>3. \A i \in 1 .. head - tail - 1 : AbsWaiting[i + 1] = HolderOfDeq(tail + i)
      <4>1. SUFFICES ASSUME NEW i \in 1 .. head - tail - 1
                     PROVE  AbsWaiting[i + 1] = HolderOfDeq(tail + i)
        OBVIOUS
      <4>2. i + 1 \in 1 .. head - tail /\ tail + (i + 1) - 1 = tail + i BY <1>1
      <4>3. QED BY <4>2 DEF AbsWaiting
    <3>4. b = [i \in 1 .. head - tail - 1 |-> b[i]]
      BY <3>2, LenProperties
    <3> HIDE DEF a, b
    <3>5. a = b BY <3>1, <3>2, <3>3, <3>4
    <3>6. QED BY <3>5 DEF a, b
  <2>5. AbsQueue' = AbsQueue
    <3>1. tail + 1 <= head BY <1>1, <1>12
    <3>2. AbsQueue = <<>> BY <1>1, <1>12, SubSeqEmpty DEF AbsQueue
    <3>3. AbsQueue' = <<>> BY <1>1, <1>6, <3>1, SubSeqEmpty DEF AbsQueue
    <3>4. QED BY <3>2, <3>3
  <2>6. AbsHand' = [AbsHand EXCEPT ![w] = v]
    <3>1. put'[tail + 1] = v BY <1>1, <1>6, AppendProperties
    <3>2. \A u \in Threads : HoldsDeq(u) => (ticket[u] = tail <=> u = w)
      BY <1>1, <2>1 DEF HeldByOne
    <3>3. ASSUME NEW u \in Threads
          PROVE  AbsHand'[u] = IF u = w THEN v ELSE AbsHand[u]
      <4>1. AbsHand[u] = IF HoldsDeq(u) /\ ticket[u] < tail THEN put[ticket[u] + 1] ELSE NoItem
        BY DEF AbsHand
      <4>2. AbsHand'[u] = IF HoldsDeq(u) /\ ticket[u] < tail + 1
                          THEN put'[ticket[u] + 1] ELSE NoItem
        BY <1>5, <1>6 DEF AbsHand
      <4>3. ticket[u] \in Nat BY <1>1
      <4>4. CASE u = w BY <1>1, <2>1, <3>1, <4>2, <4>4
      <4>5. CASE u # w
        <5>1. HoldsDeq(u) => (ticket[u] < tail + 1 <=> ticket[u] < tail)
          BY <1>1, <3>2, <4>3, <4>5
        <5>2. QED BY <1>10, <4>1, <4>2, <4>5, <5>1
      <4>6. QED BY <4>4, <4>5
    <3>4. AbsHand' = [u \in Threads |-> AbsHand'[u]] BY DEF AbsHand
    <3>5. AbsHand = [u \in Threads |-> AbsHand[u]] BY DEF AbsHand
    <3> HIDE DEF w
    <3>6. QED BY <2>1, <3>3, <3>4, <3>5
  <2> HIDE DEF w
  <2>7. AbsHand' = [AbsHand EXCEPT ![Head(AbsWaiting)] = v] BY <2>3, <2>6
  <2>8. Fifo!Put(t, v)
    BY <1>6, <1>8, <1>9, <2>3, <2>4, <2>5, <2>7
       DEF Fifo!Put, AbsQueue, AbsWaiting, AbsHand, AbsOut, AbsSt
  <2>9. QED BY <1>1, <2>8
<1>13. QED BY <1>1, <1>11, <1>12

\* The atomicAdd or compare-and-swap on head gets the oldest item, or a place at
\* the end of the line of those who wait for one.
LEMMA TakeDeqRefines ==
  ASSUME IInv, NEW t \in Threads, NEW next \in DeqPcs,
         pc[t] \in DeqTries \cup {"deq_faa", "deq_load"}, TakeDeqTicket(t, next)
  PROVE  Fifo!Get(t)
<1>1. /\ TypeOK /\ LeftForGood /\ TicketsTaken /\ HeldByOne
      /\ head \in Nat /\ tail \in Nat /\ ticket \in [Threads -> Nat]
      /\ put \in Seq(Items) /\ Len(put) = tail
  BY DEF IInv, TypeOK, TicketsTaken
<1>2. /\ pc'[t] = next /\ \A u \in Threads \ {t} : pc'[u] = pc[u]
      /\ AbsSt' = [AbsSt EXCEPT ![t] = AbstractSt(t)']
  BY <1>1, OneMoves DEF TakeDeqTicket
<1>3. pc[t] # "idle" /\ pc[t] \notin DeqPcs /\ next # "idle"
  BY DEF DeqTries, DeqPcs
<1>4. left[t] = "no" BY <1>1, <1>3 DEF LeftForGood
<1>5. /\ ~ HoldsDeq(t) /\ HoldsDeq(t)' /\ ticket'[t] = head
      /\ \A u \in Threads \ {t} : /\ HoldsDeq(u)' <=> HoldsDeq(u)
                                  /\ ticket'[u] = ticket[u]
  <2>1. ~ HoldsDeq(t) /\ HoldsDeq(t)'
    BY <1>2, <1>3, <1>4 DEF HoldsDeq, TakeDeqTicket
  <2>2. \A u \in Threads \ {t} : HoldsDeq(u)' <=> HoldsDeq(u)
    BY <1>2 DEF HoldsDeq, TakeDeqTicket
  <2>3. ticket'[t] = head /\ \A u \in Threads \ {t} : ticket'[u] = ticket[u]
    BY <1>1 DEF TakeDeqTicket
  <2>4. QED BY <2>1, <2>2, <2>3
<1>6. /\ head' = head + 1 /\ tail' = tail /\ put' = put /\ closed' = closed /\ val' = val
  BY DEF TakeDeqTicket
<1>7. AbsOut' = AbsOut BY <1>2, <1>3, <1>6 DEF AbsOut
<1>8. AbsSt[t] = "deq" /\ AbsSt' = [AbsSt EXCEPT ![t] = "got"]
  <2>1. AbstractSt(t) = "deq" BY AbstractStFacts
  <2>2. AbstractSt(t)' = "got"
    BY <1>2 DEF AbstractSt, EnqTries, DeqTries, EnqPcs, DeqPcs
  <2>3. QED BY <1>2, <2>1, <2>2 DEF AbsSt
<1>9. /\ AbsHand[t] = NoItem
      /\ AbsHand'[t] = IF head < tail THEN put[head + 1] ELSE NoItem
      /\ \A u \in Threads \ {t} : AbsHand'[u] = AbsHand[u]
      /\ AbsHand = [u \in Threads |-> AbsHand[u]]
      /\ AbsHand' = [u \in Threads |-> AbsHand'[u]]
  <2>1. AbsHand = [u \in Threads |-> AbsHand[u]] /\ AbsHand' = [u \in Threads |-> AbsHand'[u]]
    BY DEF AbsHand
  <2>2. AbsHand[t] = NoItem BY <1>5 DEF AbsHand
  <2>3. AbsHand'[t] = IF head < tail THEN put[head + 1] ELSE NoItem
    BY <1>5, <1>6 DEF AbsHand
  <2>4. \A u \in Threads \ {t} : AbsHand'[u] = AbsHand[u] BY <1>5, <1>6 DEF AbsHand
  <2>5. QED BY <2>1, <2>2, <2>3, <2>4
<1>10. CASE tail <= head
  <2>1. AbsQueue = <<>> /\ AbsQueue' = <<>>
    <3>1. tail < head + 1 /\ tail < head + 2 /\ head + 1 \in Int /\ head + 2 \in Int
          /\ tail \in Int
      BY <1>1, <1>10
    <3>2. AbsQueue = <<>> BY <3>1, SubSeqEmpty DEF AbsQueue
    <3>3. AbsQueue' = <<>>
      <4>1. head' + 1 = head + 2 BY <1>1, <1>6
      <4>2. SubSeq(put', head' + 1, tail') = <<>> BY <1>6, <3>1, <4>1, SubSeqEmpty
      <4>3. QED BY <4>2 DEF AbsQueue
    <3>4. QED BY <3>2, <3>3
  <2>2. AbsWaiting' = Append(AbsWaiting, t)
    <3>1. PICK n \in Nat : n = head - tail BY <1>1, <1>10
    <3>2. ASSUME NEW i \in 1 .. n
          PROVE  /\ HolderOfDeq(tail + i - 1) \in Threads
                 /\ HolderOfDeq(tail + i - 1)' = HolderOfDeq(tail + i - 1)
      <4>1. tail + i - 1 \in Nat /\ tail <= tail + i - 1 /\ tail + i - 1 < head
        BY <1>1, <3>1
      <4>2. HolderOfDeq(tail + i - 1) \in Threads BY <4>1, WaitingHolder
      <4>3. \A u \in Threads : HoldsDeq(u)' /\ ticket'[u] = tail' + i - 1
                                <=> HoldsDeq(u) /\ ticket[u] = tail + i - 1
        BY <1>1, <1>5, <1>6, <4>1
      <4>4. HolderOfDeq(tail + i - 1)' = HolderOfDeq(tail + i - 1)
        BY <4>3 DEF HolderOfDeq
      <4>5. QED BY <4>2, <4>4
    <3>3. HolderOfDeq(tail + (n + 1) - 1)' = t
      <4>1. tail' + (n + 1) - 1 = head BY <1>1, <1>6, <3>1
      <4>2. \A u \in Threads : HoldsDeq(u)' /\ ticket'[u] = tail' + (n + 1) - 1 <=> u = t
        <5>1. \A u \in Threads \ {t} : HoldsDeq(u) => ticket[u] # head
          BY <1>1 DEF TicketsTaken
        <5>2. QED BY <1>5, <4>1, <5>1
      <4>3. QED BY <4>2 DEF HolderOfDeq
    <3>4. AbsWaiting \in Seq(Threads) /\ Len(AbsWaiting) = n
      <4>1. AbsWaiting \in [1 .. n -> Threads] BY <3>1, <3>2 DEF AbsWaiting
      <4>2. QED BY <3>1, <4>1, IsASeq, LenProperties
    <3>5. /\ Append(AbsWaiting, t) \in Seq(Threads)
          /\ Len(Append(AbsWaiting, t)) = n + 1
          /\ \A i \in 1 .. n : Append(AbsWaiting, t)[i] = AbsWaiting[i]
          /\ Append(AbsWaiting, t)[n + 1] = t
      BY <3>4, AppendProperties
    <3>6. /\ AbsWaiting' \in Seq(Threads) /\ Len(AbsWaiting') = n + 1
          /\ \A i \in 1 .. n : AbsWaiting'[i] = AbsWaiting[i]
          /\ AbsWaiting'[n + 1] = t
      <4>1. AbsWaiting' = [i \in 1 .. n + 1 |-> HolderOfDeq(tail + i - 1)']
        <5>1. head' - tail' = n + 1 BY <1>1, <1>6, <3>1
        <5>2. QED BY <5>1 DEF AbsWaiting
      <4>2. n + 1 \in 1 .. n + 1 /\ \A i \in 1 .. n : i \in 1 .. n + 1 BY <3>1
      <4>3. \A i \in 1 .. n : AbsWaiting'[i] = AbsWaiting[i]
        BY <3>1, <3>2, <4>1, <4>2 DEF AbsWaiting
      <4>4. AbsWaiting'[n + 1] = t BY <3>3, <4>1, <4>2
      <4>5. AbsWaiting' \in [1 .. n + 1 -> Threads]
        <5>1. \A i \in 1 .. n + 1 : i \in 1 .. n \/ i = n + 1 BY <3>1
        <5>2. \A i \in 1 .. n + 1 : HolderOfDeq(tail + i - 1)' \in Threads
          BY <3>2, <3>3, <5>1
        <5>3. QED BY <4>1, <5>2
      <4>6. n + 1 \in Nat BY <3>1
      <4>7. QED BY <4>3, <4>4, <4>5, <4>6, IsASeq, LenProperties
    <3>7. \A i \in 1 .. n + 1 : AbsWaiting'[i] = Append(AbsWaiting, t)[i]
      <4>1. \A i \in 1 .. n + 1 : i \in 1 .. n \/ i = n + 1 BY <3>1
      <4>2. QED BY <3>5, <3>6, <4>1
    <3>8. QED BY <3>5, <3>6, <3>7, SeqEqual
  <2>3. AbsHand' = AbsHand BY <1>1, <1>9, <1>10
  <2>4. QED
    BY <1>6, <1>7, <1>8, <2>1, <2>2, <2>3
       DEF Fifo!Get, AbsQueue, AbsWaiting, AbsHand, AbsOut, AbsSt
<1>11. CASE head < tail
  <2>1. AbsWaiting = <<>> /\ AbsWaiting' = <<>>
    <3>1. 1 .. head - tail = {} /\ 1 .. head' - tail' = {} BY <1>1, <1>6, <1>11
    <3>2. QED BY <3>1 DEF AbsWaiting
  <2>2. /\ AbsQueue # <<>> /\ Head(AbsQueue) = put[head + 1]
        /\ AbsQueue' = Tail(AbsQueue)
    <3>1. head + 1 \in 1 .. Len(put) /\ tail \in head + 1 .. Len(put) BY <1>1, <1>11
    <3>2. /\ Head(AbsQueue) = put[head + 1]
          /\ Tail(AbsQueue) = SubSeq(put, head + 1 + 1, tail)
      BY <1>1, <3>1, HeadTailOfSubSeq DEF AbsQueue
    <3>3. AbsQueue' = SubSeq(put, head + 1 + 1, tail) BY <1>6 DEF AbsQueue
    <3>4. AbsQueue # <<>>
      <4>1. Len(AbsQueue) = tail - head
        <5>1. \A i \in head + 1 .. tail : put[i] \in Items BY <1>1, <3>1
        <5>2. Len(SubSeq(put, head + 1, tail)) = tail - (head + 1) + 1
          BY <1>1, <1>11, <5>1, SubSeqProperties
        <5>3. QED BY <1>1, <5>2 DEF AbsQueue
      <4>2. Len(<<>>) = 0 OBVIOUS
      <4>3. QED BY <1>1, <1>11, <4>1, <4>2
    <3>5. QED BY <3>2, <3>3, <3>4
  <2>3. AbsHand' = [AbsHand EXCEPT ![t] = Head(AbsQueue)] BY <1>9, <1>11, <2>2
  <2>4. QED
    BY <1>6, <1>7, <1>8, <2>1, <2>2, <2>3
       DEF Fifo!Get, AbsQueue, AbsWaiting, AbsHand, AbsOut, AbsSt
<1>12. QED BY <1>1, <1>10, <1>11

\* A polling, writing, reading or loading step is not seen from outside.
LEMMA InnerSteps ==
  ASSUME TypeOK, LeftForGood, NEW t \in Threads,
         \/ EnqPoll(t) \/ (EnqRecheck(t) /\ ~ closed) \/ EnqWrite(t) \/ EnqNbLoad(t)
         \/ (EnqNbCheck(t) /\ MyTurnToEnq(t))
         \/ DeqPoll(t) \/ (DeqRecheck(t) /\ ~ closed) \/ DeqRead(t) \/ DeqNbLoad(t)
         \/ (DeqNbCheck(t) /\ MyTurnToDeq(t))
  PROVE  UNCHANGED Fifo!vars
<1> USE DEF EnqPcs, DeqPcs, EnqTries, DeqTries
<1>1. /\ ticket \in [Threads -> Nat] /\ val \in [Threads -> Items \cup {NoItem}]
      /\ pc[t] # "idle" => left[t] = "no"
  BY DEF TypeOK, LeftForGood
<1>2. CASE EnqPoll(t) \/ (EnqRecheck(t) /\ ~ closed) \/ EnqWrite(t)
  <2>1. PICK next \in EnqPcs : pc' = [pc EXCEPT ![t] = next]
    BY <1>2 DEF EnqPoll, EnqRecheck, EnqWrite, GoTo
  <2>2. pc[t] \in EnqPcs BY <1>2 DEF EnqPoll, EnqRecheck, EnqWrite
  <2>3. UNCHANGED <<head, tail, put, closed, ticket, val, left>>
    BY <1>2 DEF EnqPoll, EnqRecheck, EnqWrite, GoTo
  <2>4. pc'[t] = next BY <2>1, OneMoves
  <2>5. AbstractSt(t)' = AbstractSt(t) BY <2>2, <2>4 DEF AbstractSt
  <2>6. ~ HoldsDeq(t) /\ ~ HoldsDeq(t)' BY <1>1, <2>2, <2>3, <2>4 DEF HoldsDeq
  <2>7. pc[t] # "idle" /\ next # "idle" BY <2>2
  <2>8. QED BY <2>1, <2>3, <2>5, <2>6, <2>7, InnerStepRefines
<1>3. CASE DeqPoll(t) \/ (DeqRecheck(t) /\ ~ closed) \/ DeqRead(t)
  <2>1. PICK next \in DeqPcs : pc' = [pc EXCEPT ![t] = next]
    BY <1>3 DEF DeqPoll, DeqRecheck, DeqRead, GoTo
  <2>2. pc[t] \in DeqPcs BY <1>3 DEF DeqPoll, DeqRecheck, DeqRead
  <2>3. /\ UNCHANGED <<head, tail, put, closed, ticket, left>>
        /\ \A u \in Threads \ {t} : val'[u] = val[u]
    BY <1>1, <1>3 DEF DeqPoll, DeqRecheck, DeqRead, GoTo
  <2>4. pc'[t] = next BY <2>1, OneMoves
  <2>5. AbstractSt(t)' = AbstractSt(t) BY <2>2, <2>4 DEF AbstractSt
  <2>6. HoldsDeq(t) /\ HoldsDeq(t)' BY <2>2, <2>4 DEF HoldsDeq
  <2>7. pc[t] # "idle" /\ next # "idle" BY <2>2
  <2>8. QED BY <2>1, <2>3, <2>5, <2>6, <2>7, InnerStepRefines
<1>4. CASE EnqNbLoad(t) \/ (EnqNbCheck(t) /\ MyTurnToEnq(t))
  <2>1. PICK next \in EnqTries : pc' = [pc EXCEPT ![t] = next]
    BY <1>4 DEF EnqNbLoad, EnqNbCheck, LoadCounter, GoTo
  <2>2. pc[t] \in {"enq_load", "enq_check"} BY <1>4 DEF EnqNbLoad, EnqNbCheck
  <2>3. /\ UNCHANGED <<head, tail, put, closed, val, left>>
        /\ \A u \in Threads \ {t} : ticket'[u] = ticket[u]
    BY <1>1, <1>4 DEF EnqNbLoad, EnqNbCheck, LoadCounter, GoTo
  <2>4. pc'[t] = next BY <2>1, OneMoves
  <2>5. AbstractSt(t)' = AbstractSt(t) BY <2>2, <2>4 DEF AbstractSt
  <2>6. ~ HoldsDeq(t) /\ ~ HoldsDeq(t)' BY <1>1, <2>2, <2>3, <2>4 DEF HoldsDeq
  <2>7. pc[t] # "idle" /\ next # "idle" BY <2>2
  <2>8. QED BY <2>1, <2>3, <2>5, <2>6, <2>7, InnerStepRefines
<1>5. CASE DeqNbLoad(t) \/ (DeqNbCheck(t) /\ MyTurnToDeq(t))
  <2>1. PICK next \in DeqTries : pc' = [pc EXCEPT ![t] = next]
    BY <1>5 DEF DeqNbLoad, DeqNbCheck, LoadCounter, GoTo
  <2>2. pc[t] \in {"deq_load", "deq_check"} BY <1>5 DEF DeqNbLoad, DeqNbCheck
  <2>3. /\ UNCHANGED <<head, tail, put, closed, val, left>>
        /\ \A u \in Threads \ {t} : ticket'[u] = ticket[u]
    BY <1>1, <1>5 DEF DeqNbLoad, DeqNbCheck, LoadCounter, GoTo
  <2>4. pc'[t] = next BY <2>1, OneMoves
  <2>5. AbstractSt(t)' = AbstractSt(t) BY <2>2, <2>4 DEF AbstractSt
  <2>6. ~ HoldsDeq(t) /\ ~ HoldsDeq(t)' BY <1>1, <2>2, <2>3, <2>4 DEF HoldsDeq
  <2>7. pc[t] # "idle" /\ next # "idle" BY <2>2
  <2>8. QED BY <2>1, <2>3, <2>5, <2>6, <2>7, InnerStepRefines
<1>6. QED BY <1>2, <1>3, <1>4, <1>5

\* The queue starts empty, open and with nobody in it.
LEMMA InitRefines == Init => Fifo!Init
<1>1. SUFFICES ASSUME Init PROVE Fifo!Init OBVIOUS
<1>2. AbsQueue = <<>> BY <1>1, SubSeqEmpty DEF Init, AbsQueue
<1>3. AbsWaiting = <<>> BY <1>1 DEF Init, AbsWaiting
<1>4. AbsHand = [t \in Threads |-> NoItem]
  BY <1>1 DEF Init, AbsHand, HoldsDeq, DeqPcs
<1>5. AbsOut = [t \in Threads |-> NoItem] BY <1>1 DEF Init, AbsOut
<1>6. AbsSt = [t \in Threads |-> "idle"]
  BY <1>1 DEF Init, AbsSt, AbstractSt, EnqTries, DeqTries, EnqPcs, DeqPcs
<1>7. QED BY <1>1, <1>2, <1>3, <1>4, <1>5, <1>6
        DEF Init, Fifo!Init, AbsQueue, AbsWaiting, AbsHand, AbsOut, AbsSt

\* Every step of the ring is a step of the FIFO queue or invisible to callers.
LEMMA StepRefines ==
  ASSUME IInv, NEW t \in Threads, Call(t) \/ EnqStep(t) \/ DeqStep(t)
  PROVE  Fifo!Next \/ UNCHANGED Fifo!vars
<1>1. TypeOK /\ LeftForGood BY DEF IInv
<1>2. CASE Call(t)
  <2>1. CASE Close(t)
    <3>1. Fifo!Close BY <2>1, CloseRefines
    <3>2. QED BY <3>1 DEF Fifo!Next
  <2>2. CASE ~ Close(t)
    <3>1. PICK first \in {"enq_faa", "enq_load", "deq_faa", "deq_load"},
               v \in Items \cup {NoItem} : Start(t, first, v)
      BY <1>2, <2>2 DEF Call, EnqStart, EnqNbStart, DeqStart, DeqNbStart
    <3>2. Fifo!Call(t) \/ Fifo!FailAtOnce(t) BY <1>1, <3>1, StartRefines
    <3>3. QED BY <3>2 DEF Fifo!Next
  <2>3. QED BY <2>1, <2>2
<1>3. CASE EnqTicket(t) \/ (EnqNbCas(t) /\ tail % TicketMod = ticket[t] % TicketMod)
  <2>1. PICK next \in EnqPcs : TakeEnqTicket(t, next)
    BY <1>3 DEF EnqTicket, EnqNbCas, EnqPcs
  <2>2. pc[t] \in EnqTries \cup {"enq_faa", "enq_load"}
    BY <1>3 DEF EnqTicket, EnqNbCas, EnqTries
  <2>3. \E v \in Items : Fifo!Put(t, v) BY <2>1, <2>2, TakeEnqRefines
  <2>4. QED BY <2>3 DEF Fifo!Next
<1>4. CASE DeqTicket(t) \/ (DeqNbCas(t) /\ head % TicketMod = ticket[t] % TicketMod)
  <2>1. PICK next \in DeqPcs : TakeDeqTicket(t, next)
    BY <1>4 DEF DeqTicket, DeqNbCas, DeqPcs
  <2>2. pc[t] \in DeqTries \cup {"deq_faa", "deq_load"}
    BY <1>4 DEF DeqTicket, DeqNbCas, DeqTries
  <2>3. Fifo!Get(t) BY <2>1, <2>2, TakeDeqRefines
  <2>4. QED BY <2>3 DEF Fifo!Next
<1>5. CASE \/ EnqNbCheck(t) /\ ~ MyTurnToEnq(t)
           \/ DeqNbCheck(t) /\ ~ MyTurnToDeq(t)
           \/ EnqNbCas(t) /\ tail % TicketMod # ticket[t] % TicketMod
           \/ DeqNbCas(t) /\ head % TicketMod # ticket[t] % TicketMod
  <2>1. Busy(t) /\ pc[t] \in EnqTries \cup DeqTries
    BY <1>5 DEF EnqNbCheck, DeqNbCheck, EnqNbCas, DeqNbCas, EnqTries, DeqTries
  <2>2. Fifo!Fail(t) BY <1>1, <2>1, BusyRefines
  <2>3. QED BY <2>2 DEF Fifo!Next
<1>6. CASE closed /\ (EnqRecheck(t) \/ DeqRecheck(t))
  <2>1. PICK side \in {"enq", "deq"} :
          /\ pc[t] = IF side = "enq" THEN "enq_recheck" ELSE "deq_recheck"
          /\ GiveUp(t, side)
    <3>1. CASE EnqRecheck(t) BY <1>6, <3>1 DEF EnqRecheck
    <3>2. CASE DeqRecheck(t) BY <1>6, <3>2 DEF DeqRecheck
    <3>3. QED BY <1>6, <3>1, <3>2
  <2>2. Fifo!Abandon(t) BY <1>1, <1>6, <2>1, GiveUpRefines
  <2>3. QED BY <2>2 DEF Fifo!Next
<1>7. CASE EnqPublish(t) \/ DeqRelease(t)
  <2>1. Fifo!Return(t) BY <1>1, <1>7, EnqPublishRefines, DeqReleaseRefines
  <2>2. QED BY <2>1 DEF Fifo!Next
<1>8. CASE \/ EnqPoll(t) \/ (EnqRecheck(t) /\ ~ closed) \/ EnqWrite(t) \/ EnqNbLoad(t)
           \/ (EnqNbCheck(t) /\ MyTurnToEnq(t))
           \/ DeqPoll(t) \/ (DeqRecheck(t) /\ ~ closed) \/ DeqRead(t) \/ DeqNbLoad(t)
           \/ (DeqNbCheck(t) /\ MyTurnToDeq(t))
  BY <1>1, <1>8, InnerSteps
<1>9. QED BY <1>2, <1>3, <1>4, <1>5, <1>6, <1>7, <1>8 DEF EnqStep, DeqStep

\* What callers see of the ring is a closable FIFO queue, whatever mix of
\* blocking and non-blocking calls they make and however often the ids wrap.
THEOREM Refinement == Spec => ImplementsFifo
<1>1. IInv /\ [Next]_vars => [Fifo!Next]_(Fifo!vars)
  <2>1. ASSUME IInv, Next PROVE Fifo!Next \/ UNCHANGED Fifo!vars
    <3>1. PICK t \in Threads : Call(t) \/ EnqStep(t) \/ DeqStep(t) BY <2>1 DEF Next
    <3>2. QED BY <2>1, <3>1, StepRefines
  <2>2. ASSUME UNCHANGED vars PROVE UNCHANGED Fifo!vars
    BY <2>2 DEF vars, Fifo!vars, AbstractSt, HolderOfDeq, HoldsDeq
  <2>3. QED BY <2>1, <2>2
<1>2. QED BY <1>1, InitRefines, Invariance, PTL DEF Spec, ImplementsFifo, Fifo!Spec
===============================================================================
