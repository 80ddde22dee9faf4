------------------------------- MODULE GlfRingInv -----------------------------
(***************************************************************************)
(* The inductive invariant of a GLFQ ring, as far as it does not depend on *)
(* who calls the ring: GlfRingUse adds where each index is between calls,  *)
(* GlfMpmc has two rings that pass their indices to each other.            *)
(***************************************************************************)
EXTENDS GlfRing

Live(s) == Real(entry[s])

\* The ticket with which the item in slot s was enqueued.
Origin(s) == NumSlots * lap[s] + s

\* A dequeuer has taken the ticket of the item in slot s and is on its way.
Claimed(s) ==
  \E t \in Threads : /\ pc[t] \in DeqAtSlot
                     /\ tkt[t] = Origin(s)

\* A call has an index in hand until it is in a slot.
Carrying == {"enq_faa", "enq_load", "enq_head", "enq_cas"}
Carries(t, i) == pc[t] \in Carrying /\ idx[t] = i

\* The slots that an index is in.
Holders(i) == {s \in Slots : entry[s].index = i}

\* No item is left behind: once head has passed the ticket of an item, the
\* dequeuer with that ticket is still on its way to it.
NoneStranded == \A s \in Slots : Live(s) /\ Origin(s) < head => Claimed(s)

\* A dequeuer that has decided to take an index finds it where it saw it.
ConsumeFindsItem ==
  \A t \in Threads :
    pc[t] = "deq_consume" =>
      /\ entry[Slot(tkt[t])].index = ent[t].index
      /\ Origin(Slot(tkt[t])) = tkt[t]

(***************************************************************************)
(* The inductive invariant behind the safety properties.  A dequeuer is    *)
(* expected at a slot as long as it has not looked at it, or may have to   *)
(* look again.  One that is gone has left its cycle in the slot, or has    *)
(* found a later one, or has marked an item of an earlier lap unsafe; so   *)
(* an enqueuer that finds a safe slot behind its cycle, or is not behind   *)
(* head, still has all the dequeuers of its ticket and of the tickets      *)
(* after it to come.                                                       *)
(***************************************************************************)
\* A dequeuer with ticket n has still to come to its slot, or may look again.
Expected(n) == \E t \in Threads : pc[t] \in {"deq_load", "deq_cas"} /\ tkt[t] = n

\* The cycle in an entry is that of the lap the slot is in.
CyclesFollowLaps == \A s \in Slots : entry[s].cycle = lap[s] % CycleMod

\* Who is at a slot is within half the range of cycles of it, and of all the others.
StallsBounded ==
  \A t \in Threads : pc[t] \in AtSlot =>
    /\ Near(LapOf(tkt[t]), lap[Slot(tkt[t])])
    /\ \A u \in Threads : pc[u] \in AtSlot => Near(LapOf(tkt[t]), LapOf(tkt[u]))

\* Dequeuers have tickets that head has passed, each its own.
DeqTicketsTaken ==
  \A t \in Threads : pc[t] \in DeqAtSlot =>
    /\ tkt[t] < head
    /\ \A u \in Threads : pc[u] \in DeqAtSlot /\ tkt[u] = tkt[t] => t = u

\* What a thread decided on a look at its slot is still in what it saw.
LooksKept ==
  \A t \in Threads :
    /\ pc[t] \in EnqPcs => idx[t] \in Indices
    /\ pc[t] \in {"enq_head", "enq_cas", "deq_cas"} => Behind(ent[t].cycle, CycleOf(tkt[t]))
    /\ pc[t] = "enq_cas" => ~Real(ent[t])
    /\ pc[t] = "deq_consume" => Real(ent[t])

\* What an enqueuer saw is no newer than what is there now, and an empty slot that
\* it saw is older than an item that is there now.
LooksPast ==
  \A t \in Threads : pc[t] \in {"enq_head", "enq_cas"} =>
    \E k \in 0 .. lap[Slot(tkt[t])] :
      /\ ent[t].cycle = k % CycleMod /\ Near(k, LapOf(tkt[t]))
      /\ Live(Slot(tkt[t])) => Real(ent[t]) \/ k < lap[Slot(tkt[t])]

\* A dequeuer that is gone left the slot at its lap or later, or marked.
GoneLeftMark ==
  \A n \in 0 .. head - 1 :
    Expected(n) \/ LapOf(n) <= lap[Slot(n)] \/ ~entry[Slot(n)].safe

\* When an insertion is about to succeed, no dequeuer from its ticket on is gone.
InsertInTime ==
  \A t \in Threads :
    pc[t] = "enq_cas" /\ entry[Slot(tkt[t])] = ent[t] =>
      \A n \in tkt[t] .. head - 1 : Slot(n) = Slot(tkt[t]) => Expected(n)

\* threshold is below zero only for dequeuers that are out of their call.
ThresholdCounts == threshold >= Cardinality({t \in Threads : pc[t] \in DeqPcs})
                                   - Cardinality(Threads)

\* catchup tries again only while it has tries left.
TriesLeft == \A t \in Threads : pc[t] = "cu_cas" => goal[t].tries < Catchups

\* tail is ahead of every ticket that an enqueuer uses and of every item; catchup
\* never moves it back.
TailAhead ==
  /\ \A t \in Threads :
       /\ pc[t] \in {"enq_load", "enq_head", "enq_cas"} => tkt[t] < tail
       /\ pc[t] = "cu_cas" => goal[t].tail <= goal[t].head
  /\ \A s \in Slots : Live(s) => Origin(s) < tail

\* What is true of the slots and of the threads at them ...
SlotInv ==
  /\ CyclesFollowLaps /\ StallsBounded /\ DeqTicketsTaken /\ LooksKept /\ LooksPast
  /\ GoneLeftMark /\ InsertInTime /\ ConsumeFindsItem /\ NoneStranded

\* ... and what survives every step of fq_enqueue, fq_dequeue and catchup, whoever
\* calls them with which index.
RingInv == RingTypeOK /\ ThresholdCounts /\ TriesLeft /\ SlotInv

-----------------------------------------------------------------------------
(***************************************************************************)
(* What a step of thread t moves: nobody else's call is touched, a call    *)
(* stays an enqueue or a dequeue until it returns, and at most one index   *)
(* changes its place.                                                      *)
(***************************************************************************)
SameOthers(t) == \A u \in Threads \ {t} : pc'[u] = pc[u] /\ idx'[u] = idx[u]

Family(t) ==
  \/ pc[t] \in EnqPcs /\ pc'[t] \in EnqPcs \cup {"idle"}
  \/ pc[t] \in DeqPcs /\ pc'[t] \in DeqPcs \cup {"idle"}

\* An enqueue puts its index into a slot.
Inserts(t) ==
  /\ pc[t] \in Carrying /\ pc'[t] \in EnqPcs \ Carrying
  /\ \E i \in Indices :
       /\ idx[t] = i
       /\ \E s \in Slots : Holders(i)' = Holders(i) \cup {s}
       /\ \A j \in Indices \ {i} : Holders(j)' = Holders(j)

\* A dequeue takes the index it returns out of its slot.
Takes(t) ==
  /\ pc[t] \in DeqPcs /\ pc'[t] = "idle"
  /\ \E i \in Indices :
       /\ idx'[t] = i
       /\ \E s \in Holders(i) : Holders(i)' = Holders(i) \ {s}
       /\ \A j \in Indices \ {i} : Holders(j)' = Holders(j)

\* No index changes its place; who is done has none.
MovesNone(t) ==
  /\ \/ pc[t] \in Carrying /\ pc'[t] \in Carrying /\ idx'[t] = idx[t]
     \/ pc[t] \notin Carrying /\ pc'[t] \notin Carrying
  /\ pc'[t] = "idle" => idx'[t] = Bot
  /\ \A j \in Indices : Holders(j)' = Holders(j)
===============================================================================
