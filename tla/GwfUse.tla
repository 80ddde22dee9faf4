-------------------------------- MODULE GwfUse -------------------------------
(***************************************************************************)
(* One GWFQ ring in the use its queue makes of it (Enqueue_Ptr,            *)
(* Dequeue_Ptr): N indices circulate between the ring and the threads, and *)
(* an index that was dequeued may be enqueued again by any thread.         *)
(***************************************************************************)
EXTENDS GwfSlow

CONSTANTS
  MaxEnq,   \* bound: enqueues made by all threads together
  MaxDeq,   \* bound: dequeues made by all threads together
  Lap,      \* laps of the ring before the first step of a run that starts late
  NumStuck  \* threads that such a run finds stopped in a dequeue of the lap before

ASSUME UseAssumption ==
  {MaxEnq, MaxDeq, Lap} \subseteq Nat /\ Lap >= 2 /\ NumStuck \in 0 .. NumThreads - 1

VARIABLES
  spare,     \* indices outside the ring and outside every call
  carry,     \* history: threads whose enqueue has begun, but whose index no slot has held since
  calls,     \* history: number of calls made, of each kind
  sawEmpty   \* history: was the ring empty at some time in the thread's call?

vars == <<gwf, spare, carry, calls, sawEmpty>>

\* A state of the running ring: the threads 1 to NumStuck took the first items of the
\* last lap and were stopped just before they marked them consumed.  One more index
\* went through the ring; the dequeuers that came after it found the other slots empty
\* and wore threshold down.
InitLater ==
  /\ ctr = [s \in Sides |-> Global(Lap * NumSlots, NoTid)]
  /\ threshold = ThreshMax - (NumSlots - 1 - NumStuck)
  /\ entry = [s \in Slots |->
       [Fresh EXCEPT !.cycle = (Lap - 1) % CycleMod,
                     !.index = IF s < NumStuck THEN s ELSE IF s = NumStuck THEN BotC ELSE Bot]]
  /\ me = [t \in Threads |->
       IF t \in 1 .. NumStuck
       THEN [Idle EXCEPT !.pc = "deq_consume", !.kind = "deq", !.index = t - 1,
                         !.ent = entry[t - 1], !.tkt = (Lap - 1) * NumSlots + t - 1]
       ELSE Idle]
  /\ turn = [t \in Threads |-> [left |-> HelpDelay, next |-> NextTid(t)]]
  /\ InitRecords

\* aq begins empty, fq full.
Init ==
  /\ \/ InitEmpty /\ spare = Indices
     \/ InitFull /\ spare = {}
     \/ InitLater /\ spare = Indices \ 0 .. NumStuck - 1
  /\ carry = {}
  /\ calls = [enq |-> 0, deq |-> 0]
  /\ sawEmpty = [t \in Threads |-> FALSE]

\* A dequeuer has the ticket of the item in slot s, its own or that of its request.
Claimed(s) ==
  \E t \in Threads : \E n \in {me[t].tkt, loc["head"][t].cnt} :
    me[t].kind = "deq" /\ Slot(n) = s /\ CycleOf(n) = entry[s].cycle

\* The enqueue of index i has not returned.
Enqueuing(i) == \E t \in Threads : me[t].kind = "enq" /\ me[t].index = i

\* Nothing is in the ring but what calls in progress put there or will take.
EmptyNow ==
  \A s \in Slots : Real(entry[s]) => Claimed(s) \/ Enqueuing(entry[s].index)

NoteEmpty ==
  sawEmpty' = [t \in Threads |-> me'[t].kind = "deq" /\ (sawEmpty[t] \/ EmptyNow')]

\* Which of the spare indices is enqueued makes no difference to the ring.
Enqueue(t) ==
  /\ calls.enq < MaxEnq
  /\ \E i \in spare :
       /\ \A j \in spare : i <= j
       /\ EnqStart(t, i)
       /\ spare' = spare \ {i}
       /\ carry' = carry \cup {t}
  /\ calls' = [calls EXCEPT !.enq = @ + 1]
  /\ NoteEmpty

Dequeue(t) ==
  /\ calls.deq < MaxDeq
  /\ DeqStart(t)
  /\ calls' = [calls EXCEPT !.deq = @ + 1]
  /\ UNCHANGED <<spare, carry>>
  /\ NoteEmpty

InRing(t) ==
  /\ CallStep(t)
  /\ spare' = IF At(t, "idle")' THEN spare \cup ({me'[t].index} \cap Indices) ELSE spare
  /\ carry' = {u \in carry : /\ me'[u].kind = "enq"
                             /\ \A s \in Slots : entry'[s].index # me'[u].index}
  /\ UNCHANGED calls
  /\ NoteEmpty

Next == \E t \in Threads : Enqueue(t) \/ Dequeue(t) \/ InRing(t)

Spec == Init /\ [][Next]_vars

\* A thread that is inside a call keeps running.
FairSpec == Spec /\ \A t \in Threads : WF_vars(InRing(t))

-----------------------------------------------------------------------------
(***************************************************************************)
(* Properties                                                              *)
(***************************************************************************)

\* Every variable keeps its range; a sequence number that is stored last never runs
\* ahead of the one that is stored first.
TypeOK ==
  /\ \A s \in Sides : ctr[s].cnt \in Nat /\ ctr[s].tid \in Threads \cup {NoTid}
  /\ threshold \in Int /\ threshold <= ThreshMax
  /\ \A s \in Slots :
       /\ entry[s].index \in Indices \cup {Bot, BotC}
       /\ {entry[s].cycle, entry[s].note} \subseteq 0 .. CycleMod - 1
  /\ \A t \in Threads :
       /\ req[t].seq2 <= req[t].seq1 /\ p2[t].seq2 <= p2[t].seq1
       /\ turn[t].left \in 0 .. HelpDelay /\ turn[t].next \in Threads
       /\ me[t].tries \in 0 .. EnqTries + DeqTries
  /\ spare \subseteq Indices

Places(i) ==
  {<<"slot", s>> : s \in {s \in Slots : entry[s].index = i}}
    \cup {<<"call", t>> : t \in {t \in carry : me[t].index = i}}
    \cup {<<"spare", j>> : j \in spare \cap {i}}

\* No index is in two places: the owner of a request and all who help it insert its
\* index once, and an index that is taken on either path is gone from its slot.
NoIndexTwice == \A i \in Indices : \A p, q \in Places(i) : p = q

\* A slow enqueue that finds its ticket's cycle in the slot is over, since the index
\* is "already produced (by us or another helper)" (gwf_ring.hpp:703): every index is
\* spare, in a slot, or with an enqueue that has not returned.
NoIndexLost == \A i \in Indices : Places(i) # {}

\* A dequeuer that is about to mark an entry consumed finds the index it took there,
\* whether it came by its own ticket or by the one its helpers left in localHead.
ConsumeFindsItem ==
  \A t \in Threads :
    At(t, "deq_consume") => entry[Slot(me[t].tkt)].index = me[t].index

\* The word of a request, localTail or localHead, is stored by its owner when it is
\* published; after that its ticket never goes back, whoever helps and however long a
\* helper has slept, and no thread takes a request up again that is finished.
RequestsGoForward ==
  [][\A side \in Sides, r \in Threads :
       loc'[side][r] # loc[side][r] /\ ~At(r, "req_local") =>
         ~loc[side][r].fin /\ loc'[side][r].cnt >= loc[side][r].cnt]_vars

\* A dequeue that answers "empty" is right at some time in its call: at once when
\* threshold is negative, after its tries, or when a helper ended its request.
EmptyIsTrue ==
  [][/\ calls' # calls /\ me' = me => EmptyNow
     /\ \A t \in Threads :
          me[t].kind = "deq" /\ At(t, "idle")' /\ me'[t].index = Bot =>
            sawEmpty[t] \/ EmptyNow]_vars

\* Every call returns, the slow ones and the ones that help included; calls are finitely
\* many, so that the ring comes to rest.
EveryCallReturns == <>[](\A t \in Threads : At(t, "idle"))

\* slow_faa "Increments the global counter exactly once across all cooperative
\* threads" (gwf_ring.hpp:511): a ticket that the owner of a request or a helper acts
\* on has been taken out of the global counter, so that no other thread gets it.
SlowTicketsTaken ==
  \A t \in Threads :
    me[t].pc \in {"se_load", "sd_load"} => me[t].tkt < ctr[Job(t).side].cnt
===============================================================================
