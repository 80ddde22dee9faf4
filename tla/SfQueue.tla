------------------------------- MODULE SfQueue -------------------------------
(***************************************************************************)
(* The SFQ ring (sfqueue_hip.hpp, sfqueue_hip.cpp): a bounded queue whose  *)
(* slots carry an id that says whose turn it is.  A caller takes a ticket  *)
(* from tail or head and waits for its turn (blocking), or checks the turn *)
(* first and then tries to take the ticket (non-blocking).                 *)
(*                                                                         *)
(* head, tail and ticket count without bound here: the program keeps them  *)
(* modulo TicketMod (2^32), and Slot, GetId and the compare-and-swaps look *)
(* only at that part.  ids holds the program's values, wrap included.      *)
(* Atomics of the program are atomic steps, in program order.              *)
(***************************************************************************)
EXTENDS Integers, Sequences, FiniteSets

CONSTANTS
  Threads,      \* threads that use the queue
  QueueLength,  \* SFQ_QUEUE_LENGTH
  TicketMod,    \* number of values of the 32-bit head and tail
  Items,        \* values that can be enqueued
  NoItem,       \* stands for SFQ_EMPTY
  MaxCalls      \* bound: calls made by all threads together

MaxId == 2 * (TicketMod \div QueueLength)

ASSUME ThreadsAssumption == IsFiniteSet(Threads)
ASSUME LengthAssumption == QueueLength \in Nat \ {0}
ASSUME WrapAssumption == TicketMod \in Nat \ {0} /\ TicketMod % QueueLength = 0
ASSUME MaxIdAssumption == MaxId >= 2 * (Cardinality(Threads) + 1)
ASSUME ItemAssumption == NoItem \notin Items
ASSUME MaxCallsAssumption == MaxCalls \in Nat

VARIABLES
  head, tail, closed, items, ids,   \* struct sfq_queue
  pc, ticket, val,                  \* a call: step, ticket, argument or result
  put,    \* history: argument of the enqueue that holds each ticket
  pass,   \* history: number of hand-overs each slot has seen
  left,   \* history: side on which a thread gave a ticket up (SFQ_CLOSED)
  calls   \* history: number of calls made

vars == <<head, tail, closed, items, ids, pc, ticket, val, put, pass, left, calls>>

Slots == 0 .. QueueLength - 1

Slot(n) == (n % TicketMod) % QueueLength
GetId(n) == ((n % TicketMod) \div QueueLength) * 2

NextId(id) == IF id + 1 = MaxId THEN 0 ELSE id + 1

EnqPcs == {"enq_poll", "enq_recheck", "enq_write", "enq_publish"}
DeqPcs == {"deq_poll", "deq_recheck", "deq_read", "deq_release"}
EnqTries == {"enq_check", "enq_cas"}
DeqTries == {"deq_check", "deq_cas"}
Pcs == EnqPcs \cup DeqPcs \cup EnqTries \cup DeqTries
         \cup {"idle", "enq_faa", "enq_load", "deq_faa", "deq_load"}

Init ==
  /\ head = 0 /\ tail = 0 /\ closed = FALSE
  /\ items = [s \in Slots |-> NoItem]
  /\ ids = [s \in Slots |-> 0]
  /\ pc = [t \in Threads |-> "idle"]
  /\ ticket = [t \in Threads |-> 0]
  /\ val = [t \in Threads |-> NoItem]
  /\ put = <<>>
  /\ pass = [s \in Slots |-> 0]
  /\ left = [t \in Threads |-> "no"]
  /\ calls = 0

(***************************************************************************)
(* A call starts with a look at closed; on a closed queue it is over.      *)
(***************************************************************************)
Start(t, first, v) ==
  /\ pc[t] = "idle"
  /\ calls < MaxCalls
  /\ calls' = calls + 1
  /\ pc' = [pc EXCEPT ![t] = IF closed THEN "idle" ELSE first]
  /\ val' = [val EXCEPT ![t] = IF closed THEN NoItem ELSE v]
  /\ UNCHANGED <<head, tail, closed, items, ids, ticket, put, pass, left>>

EnqStart(t, v) == Start(t, "enq_faa", v)
EnqNbStart(t, v) == Start(t, "enq_load", v)
DeqStart(t) == Start(t, "deq_faa", NoItem)
DeqNbStart(t) == Start(t, "deq_load", NoItem)

Close(t) ==
  /\ pc[t] = "idle"
  /\ calls < MaxCalls
  /\ calls' = calls + 1
  /\ closed' = TRUE
  /\ UNCHANGED <<head, tail, items, ids, pc, ticket, val, put, pass, left>>

(***************************************************************************)
(* Bound on stalls: no thread sleeps between its load of a counter and the *)
(* compare-and-swap on it while the counter goes once round its TicketMod  *)
(* values.                                                                 *)
(***************************************************************************)
NotLapped(counter, tries) ==
  \A u \in Threads : pc[u] \in tries => counter + 1 < ticket[u] + TicketMod

TakeEnqTicket(t, next) ==
  /\ NotLapped(tail, EnqTries)
  /\ tail' = tail + 1
  /\ ticket' = [ticket EXCEPT ![t] = tail]
  /\ put' = Append(put, val[t])
  /\ pc' = [pc EXCEPT ![t] = next]
  /\ UNCHANGED <<head, closed, items, ids, val, pass, left, calls>>

TakeDeqTicket(t, next) ==
  /\ NotLapped(head, DeqTries)
  /\ head' = head + 1
  /\ ticket' = [ticket EXCEPT ![t] = head]
  /\ pc' = [pc EXCEPT ![t] = next]
  /\ UNCHANGED <<tail, closed, items, ids, val, put, pass, left, calls>>

GoTo(t, next) ==
  /\ pc' = [pc EXCEPT ![t] = next]
  /\ UNCHANGED <<head, tail, closed, items, ids, ticket, val, put, pass, left, calls>>

\* The return of SFQ_BUSY: nothing was taken and nothing is returned.
Busy(t) ==
  /\ pc' = [pc EXCEPT ![t] = "idle"]
  /\ val' = [val EXCEPT ![t] = NoItem]
  /\ UNCHANGED <<head, tail, closed, items, ids, ticket, put, pass, left, calls>>

\* The return of SFQ_CLOSED from a wait: the ticket is never used.
GiveUp(t, side) ==
  /\ pc' = [pc EXCEPT ![t] = "idle"]
  /\ val' = [val EXCEPT ![t] = NoItem]
  /\ left' = [left EXCEPT ![t] = side]
  /\ UNCHANGED <<head, tail, closed, items, ids, ticket, put, pass, calls>>

MyTurnToEnq(t) == ids[Slot(ticket[t])] = GetId(ticket[t])

\* A definition that no action uses is a slip of the code: it stands in for the
\* definition after it in a mutant, which a property must notice.
MyTurnToDeqEven(t) == ids[Slot(ticket[t])] = GetId(ticket[t])

MyTurnToDeq(t) == ids[Slot(ticket[t])] = GetId(ticket[t]) + 1

HandOver(t, id) ==
  /\ ids' = [ids EXCEPT ![Slot(ticket[t])] = NextId(id)]
  /\ pass' = [pass EXCEPT ![Slot(ticket[t])] = @ + 1]
  /\ pc' = [pc EXCEPT ![t] = "idle"]

(***************************************************************************)
(* sfq_enqueue_blocking_u32 after its first check of closed                *)
(***************************************************************************)
EnqTicket(t) == pc[t] = "enq_faa" /\ TakeEnqTicket(t, "enq_poll")

EnqPollNoWait(t) == pc[t] = "enq_poll" /\ GoTo(t, "enq_write")

EnqPoll(t) ==
  /\ pc[t] = "enq_poll"
  /\ GoTo(t, IF MyTurnToEnq(t) THEN "enq_write" ELSE "enq_recheck")

EnqRecheck(t) ==
  /\ pc[t] = "enq_recheck"
  /\ IF closed THEN GiveUp(t, "enq") ELSE GoTo(t, "enq_poll")

EnqWrite(t) ==
  /\ pc[t] = "enq_write"
  /\ items' = [items EXCEPT ![Slot(ticket[t])] = val[t]]
  /\ pc' = [pc EXCEPT ![t] = "enq_publish"]
  /\ UNCHANGED <<head, tail, closed, ids, ticket, val, put, pass, left, calls>>

EnqPublish(t) ==
  /\ pc[t] = "enq_publish"
  /\ HandOver(t, GetId(ticket[t]))
  /\ val' = [val EXCEPT ![t] = NoItem]
  /\ UNCHANGED <<head, tail, closed, items, ticket, put, left, calls>>

(***************************************************************************)
(* sfq_dequeue_blocking_u32 after its first check of closed                *)
(***************************************************************************)
DeqTicket(t) == pc[t] = "deq_faa" /\ TakeDeqTicket(t, "deq_poll")

DeqPollNoWait(t) == pc[t] = "deq_poll" /\ GoTo(t, "deq_read")

DeqPoll(t) ==
  /\ pc[t] = "deq_poll"
  /\ GoTo(t, IF MyTurnToDeq(t) THEN "deq_read" ELSE "deq_recheck")

DeqRecheckGivesUp(t) == pc[t] = "deq_recheck" /\ GiveUp(t, "deq")

DeqRecheckBlind(t) == pc[t] = "deq_recheck" /\ GoTo(t, "deq_poll")

DeqRecheck(t) ==
  /\ pc[t] = "deq_recheck"
  /\ IF closed THEN GiveUp(t, "deq") ELSE GoTo(t, "deq_poll")

DeqRead(t) ==
  /\ pc[t] = "deq_read"
  /\ val' = [val EXCEPT ![t] = items[Slot(ticket[t])]]
  /\ pc' = [pc EXCEPT ![t] = "deq_release"]
  /\ UNCHANGED <<head, tail, closed, items, ids, ticket, put, pass, left, calls>>

DeqReleaseForgotten(t) ==
  /\ pc[t] = "deq_release"
  /\ pc' = [pc EXCEPT ![t] = "idle"]
  /\ UNCHANGED <<head, tail, closed, items, ids, ticket, val, put, pass, left, calls>>

DeqRelease(t) ==
  /\ pc[t] = "deq_release"
  /\ HandOver(t, GetId(ticket[t]) + 1)
  /\ UNCHANGED <<head, tail, closed, items, ticket, val, put, left, calls>>

(***************************************************************************)
(* sfq_enqueue_nb_u32 and sfq_dequeue_nb_u32 up to their compare-and-swap; *)
(* from there they do what the blocking calls do once it is their turn     *)
(***************************************************************************)
LoadCounter(t, counter, next) ==
  /\ ticket' = [ticket EXCEPT ![t] = counter]
  /\ pc' = [pc EXCEPT ![t] = next]
  /\ UNCHANGED <<head, tail, closed, items, ids, val, put, pass, left, calls>>

EnqNbLoad(t) == pc[t] = "enq_load" /\ LoadCounter(t, tail, "enq_check")

EnqNbCheckOdd(t) ==
  /\ pc[t] = "enq_check"
  /\ IF MyTurnToDeq(t) THEN GoTo(t, "enq_cas") ELSE Busy(t)

EnqNbCheck(t) ==
  /\ pc[t] = "enq_check"
  /\ IF MyTurnToEnq(t) THEN GoTo(t, "enq_cas") ELSE Busy(t)

EnqNbCasBlind(t) == pc[t] = "enq_cas" /\ TakeEnqTicket(t, "enq_write")

EnqNbCas(t) ==
  /\ pc[t] = "enq_cas"
  /\ IF tail % TicketMod = ticket[t] % TicketMod
     THEN TakeEnqTicket(t, "enq_write")
     ELSE Busy(t)

DeqNbLoad(t) == pc[t] = "deq_load" /\ LoadCounter(t, head, "deq_check")

DeqNbCheck(t) ==
  /\ pc[t] = "deq_check"
  /\ IF MyTurnToDeq(t) THEN GoTo(t, "deq_cas") ELSE Busy(t)

DeqNbCasBlind(t) == pc[t] = "deq_cas" /\ TakeDeqTicket(t, "deq_read")

DeqNbCas(t) ==
  /\ pc[t] = "deq_cas"
  /\ IF head % TicketMod = ticket[t] % TicketMod
     THEN TakeDeqTicket(t, "deq_read")
     ELSE Busy(t)

EnqStep(t) ==
  \/ EnqTicket(t) \/ EnqPoll(t) \/ EnqRecheck(t) \/ EnqWrite(t) \/ EnqPublish(t)
  \/ EnqNbLoad(t) \/ EnqNbCheck(t) \/ EnqNbCas(t)

DeqStep(t) ==
  \/ DeqTicket(t) \/ DeqPoll(t) \/ DeqRecheck(t) \/ DeqRead(t) \/ DeqRelease(t)
  \/ DeqNbLoad(t) \/ DeqNbCheck(t) \/ DeqNbCas(t)

Call(t) ==
  \/ \E v \in Items : EnqStart(t, v) \/ EnqNbStart(t, v)
  \/ DeqStart(t) \/ DeqNbStart(t) \/ Close(t)

Next == \E t \in Threads : Call(t) \/ EnqStep(t) \/ DeqStep(t)

Spec == Init /\ [][Next]_vars

\* A thread that is inside a call keeps running; no call has to be made.
Fairness == \A t \in Threads : WF_vars(EnqStep(t) \/ DeqStep(t))

FairSpec == Spec /\ Fairness

-----------------------------------------------------------------------------
(***************************************************************************)
(* Properties                                                              *)
(***************************************************************************)

\* Every variable keeps its range: in particular each id stays below
\* SFQ_MAX_ID, so that SFQ_GET_ID of a ticket can meet it again after a wrap.
TypeOK ==
  /\ head \in Nat /\ tail \in Nat /\ calls \in Nat
  /\ closed \in BOOLEAN
  /\ items \in [Slots -> Items \cup {NoItem}]
  /\ ids \in [Slots -> 0 .. MaxId - 1]
  /\ pc \in [Threads -> Pcs]
  /\ ticket \in [Threads -> Nat]
  /\ val \in [Threads -> Items \cup {NoItem}]
  /\ put \in Seq(Items)
  /\ pass \in [Slots -> Nat]
  /\ left \in [Threads -> {"no", "enq", "deq"}]

HoldsEnq(t) == pc[t] \in EnqPcs \/ left[t] = "enq"
HoldsDeq(t) == pc[t] \in DeqPcs \/ left[t] = "deq"
InSlot(t) == pc[t] \in {"enq_write", "enq_publish", "deq_read", "deq_release"}

\* The hand-overs of its slot that come before the turn of ticket n.
EnqTurn(n) == 2 * (n \div QueueLength)
DeqTurn(n) == 2 * (n \div QueueLength) + 1

\* Two threads never work on one slot at a time, whatever mix of blocking and
\* non-blocking calls they make, however far head and tail run apart, and even
\* after the ids have wrapped (SFQ_MAX_ID >= 2 * (SFQ_MAX_THREADS + 1)).
SlotExclusive ==
  \A t, u \in Threads :
    t # u /\ InSlot(t) /\ InSlot(u) => Slot(ticket[t]) # Slot(ticket[u])

\* The n-th dequeue returns what the n-th enqueue brought: nothing is lost,
\* returned twice or returned out of ticket order.
DeliveredInOrder ==
  \A t \in Threads :
    pc[t] = "deq_release" => /\ ticket[t] < tail
                             /\ val[t] = put[ticket[t] + 1]

\* An item whose enqueue has returned SFQ_SUCCESS stays untouched in its slot
\* until the dequeue with the same ticket has read it.
PublishedIntact ==
  \A n \in 0 .. tail - 1 :
    pass[Slot(n)] = DeqTurn(n) => items[Slot(n)] = put[n + 1]

\* SFQ_BUSY is never returned for nothing.  An enqueue refused at its check
\* meets a slot whose dequeuer of the lap before has not released it or has not
\* come yet; a dequeue refused at its check meets a slot whose enqueuer has not
\* published or has not come; otherwise the counter has moved since the load.
\* A refused compare-and-swap means that another thread took that ticket.
BusyHasReason ==
  [][\A t \in Threads :
       pc'[t] = "idle" =>
         /\ pc[t] = "enq_check" =>
              tail # ticket[t] \/ pass[Slot(ticket[t])] < EnqTurn(ticket[t])
         /\ pc[t] = "deq_check" =>
              head # ticket[t] \/ pass[Slot(ticket[t])] < DeqTurn(ticket[t])
         /\ pc[t] = "enq_cas" => tail > ticket[t]
         /\ pc[t] = "deq_cas" => head > ticket[t]]_vars

\* Once tail and head have both passed ticket n, its item is returned unless
\* somebody closes the queue: waiting threads cannot lock each other out.
MatchedTicketsComplete ==
  \A n \in 0 .. MaxCalls - 1 :
    (n < tail /\ n < head) ~> (closed \/ pass[Slot(n)] > DeqTurn(n))

\* Closing the queue gets every thread out of its call, also those that spin
\* on a turn that will never come.
CloseReleasesWaiters ==
  closed ~> \A t \in Threads : pc[t] = "idle"

(***************************************************************************)
(* The inductive invariant behind the safety properties: every ticket that *)
(* is out has exactly one holder until its hand-over, so the tickets that  *)
(* wait for one slot are at most as many as the threads, and an id that    *)
(* matches modulo SFQ_MAX_ID matches for real.                             *)
(***************************************************************************)
TicketOf(s, k) == QueueLength * k + s

IdsFollowPass == \A s \in Slots : ids[s] = pass[s] % MaxId

TicketsTaken ==
  /\ Len(put) = tail
  /\ \A t \in Threads :
       /\ HoldsEnq(t) => ticket[t] < tail
       /\ HoldsDeq(t) => ticket[t] < head
       /\ pc[t] \in EnqTries => ticket[t] <= tail /\ tail < ticket[t] + TicketMod
       /\ pc[t] \in DeqTries => ticket[t] <= head /\ head < ticket[t] + TicketMod

HeldByOne ==
  \A t, u \in Threads :
    /\ HoldsEnq(t) /\ HoldsEnq(u) /\ ticket[t] = ticket[u] => t = u
    /\ HoldsDeq(t) /\ HoldsDeq(u) /\ ticket[t] = ticket[u] => t = u

HeldUntilTurn ==
  /\ \A n \in 0 .. tail - 1 :
       pass[Slot(n)] <= EnqTurn(n) => \E t \in Threads : HoldsEnq(t) /\ ticket[t] = n
  /\ \A n \in 0 .. head - 1 :
       pass[Slot(n)] <= DeqTurn(n) => \E t \in Threads : HoldsDeq(t) /\ ticket[t] = n

TurnNotPast ==
  \A t \in Threads :
    /\ HoldsEnq(t) => pass[Slot(ticket[t])] <= EnqTurn(ticket[t])
    /\ HoldsDeq(t) => pass[Slot(ticket[t])] <= DeqTurn(ticket[t])

PassedWereTaken ==
  \A s \in Slots : \A k \in 0 .. pass[s] :
    /\ 2 * k < pass[s] => TicketOf(s, k) < tail
    /\ 2 * k + 1 < pass[s] => TicketOf(s, k) < head

InSlotAtTurn ==
  \A t \in Threads :
    /\ pc[t] \in {"enq_write", "enq_publish"} =>
         pass[Slot(ticket[t])] = EnqTurn(ticket[t])
    /\ pc[t] \in {"deq_read", "deq_release"} =>
         pass[Slot(ticket[t])] = DeqTurn(ticket[t])

ReadyUntilTaken ==
  \A t \in Threads :
    /\ pc[t] = "enq_cas" /\ tail = ticket[t] =>
         pass[Slot(ticket[t])] = EnqTurn(ticket[t])
    /\ pc[t] = "deq_cas" /\ head = ticket[t] =>
         pass[Slot(ticket[t])] = DeqTurn(ticket[t])

LeftForGood == \A t \in Threads : left[t] # "no" => pc[t] = "idle" /\ closed

ValuesCarried ==
  \A t \in Threads :
    /\ pc[t] \in EnqTries \cup {"enq_faa", "enq_load"} => val[t] \in Items
    /\ pc[t] \in EnqPcs => val[t] = put[ticket[t] + 1]
    /\ pc[t] = "enq_publish" => items[Slot(ticket[t])] = put[ticket[t] + 1]

IInv ==
  /\ TypeOK /\ IdsFollowPass /\ TicketsTaken /\ HeldByOne /\ HeldUntilTurn
  /\ TurnNotPast /\ PassedWereTaken /\ InSlotAtTurn /\ ReadyUntilTaken
  /\ LeftForGood /\ ValuesCarried /\ PublishedIntact /\ DeliveredInOrder

(***************************************************************************)
(* The queue implements TicketFifo.  An item is claimed as soon as both    *)
(* tickets with its number have been taken, whoever came first.            *)
(***************************************************************************)
HolderOfDeq(n) == CHOOSE t \in Threads : HoldsDeq(t) /\ ticket[t] = n

AbstractSt(t) ==
  CASE pc[t] \in EnqTries \cup {"enq_faa", "enq_load"} -> "enq"
    [] pc[t] \in DeqTries \cup {"deq_faa", "deq_load"} -> "deq"
    [] pc[t] \in EnqPcs -> "put"
    [] pc[t] \in DeqPcs -> "got"
    [] OTHER -> "idle"

Fifo == INSTANCE TicketFifo WITH
  queue <- SubSeq(put, head + 1, tail),
  waiting <- [i \in 1 .. head - tail |-> HolderOfDeq(tail + i - 1)],
  hand <- [t \in Threads |->
             IF HoldsDeq(t) /\ ticket[t] < tail THEN put[ticket[t] + 1] ELSE NoItem],
  out <- [t \in Threads |-> IF pc[t] = "idle" THEN val[t] ELSE NoItem],
  st <- [t \in Threads |-> AbstractSt(t)]

\* What callers see is a FIFO queue: each successful call takes effect at one
\* instant between its start and its return.
ImplementsFifo == Fifo!Spec
===============================================================================
