------------------------------ MODULE TicketFifo ------------------------------
(***************************************************************************)
(* What a closable FIFO queue promises its callers.  An enqueue takes      *)
(* effect at one instant (Put), a dequeue at the later of its own instant  *)
(* (Get) and the Put that feeds it, so a dequeue that finds nothing waits  *)
(* in line.  An attempt may fail without effect (Fail), and after the      *)
(* queue is closed a caller may give up (Abandon), in which case the item  *)
(* it carried or was owed is not delivered to anybody else.                *)
(***************************************************************************)
EXTENDS Sequences

CONSTANTS
  Threads,
  Items,
  NoItem   \* not a member of Items

VARIABLES
  queue,    \* items put and not yet claimed, oldest first
  waiting,  \* threads that claimed an item that does not exist yet, in order
  hand,     \* the item claimed by each thread and not yet returned
  out,      \* the item returned by the last call of each thread
  st,       \* where each thread is in its call
  closed

vars == <<queue, waiting, hand, out, st, closed>>

TypeOK ==
  /\ queue \in Seq(Items)
  /\ waiting \in Seq(Threads)
  /\ hand \in [Threads -> Items \cup {NoItem}]
  /\ out \in [Threads -> Items \cup {NoItem}]
  /\ st \in [Threads -> {"idle", "enq", "put", "deq", "got"}]
  /\ closed \in BOOLEAN

Init ==
  /\ queue = <<>>
  /\ waiting = <<>>
  /\ hand = [t \in Threads |-> NoItem]
  /\ out = [t \in Threads |-> NoItem]
  /\ st = [t \in Threads |-> "idle"]
  /\ closed = FALSE

Call(t) ==
  /\ st[t] = "idle"
  /\ \E kind \in {"enq", "deq"} : st' = [st EXCEPT ![t] = kind]
  /\ out' = [out EXCEPT ![t] = NoItem]
  /\ UNCHANGED <<queue, waiting, hand, closed>>

Put(t, v) ==
  /\ st[t] = "enq"
  /\ st' = [st EXCEPT ![t] = "put"]
  /\ \/ /\ waiting = <<>>
        /\ queue' = Append(queue, v)
        /\ UNCHANGED <<waiting, hand>>
     \/ /\ waiting # <<>>
        /\ hand' = [hand EXCEPT ![Head(waiting)] = v]
        /\ waiting' = Tail(waiting)
        /\ UNCHANGED queue
  /\ UNCHANGED <<out, closed>>

Get(t) ==
  /\ st[t] = "deq"
  /\ st' = [st EXCEPT ![t] = "got"]
  /\ \/ /\ queue = <<>>
        /\ waiting' = Append(waiting, t)
        /\ UNCHANGED <<queue, hand>>
     \/ /\ queue # <<>>
        /\ hand' = [hand EXCEPT ![t] = Head(queue)]
        /\ queue' = Tail(queue)
        /\ UNCHANGED waiting
  /\ UNCHANGED <<out, closed>>

Return(t) ==
  /\ \/ /\ st[t] = "put"
        /\ UNCHANGED <<out, hand>>
     \/ /\ st[t] = "got"
        /\ hand[t] # NoItem
        /\ out' = [out EXCEPT ![t] = hand[t]]
        /\ hand' = [hand EXCEPT ![t] = NoItem]
  /\ st' = [st EXCEPT ![t] = "idle"]
  /\ UNCHANGED <<queue, waiting, closed>>

Fail(t) ==
  /\ st[t] \in {"enq", "deq"}
  /\ st' = [st EXCEPT ![t] = "idle"]
  /\ UNCHANGED <<queue, waiting, hand, out, closed>>

FailAtOnce(t) ==
  /\ st[t] = "idle"
  /\ out' = [out EXCEPT ![t] = NoItem]
  /\ UNCHANGED <<queue, waiting, hand, st, closed>>

Abandon(t) ==
  /\ closed
  /\ st[t] \in {"put", "got"}
  /\ st' = [st EXCEPT ![t] = "idle"]
  /\ UNCHANGED <<queue, waiting, hand, out, closed>>

Close ==
  /\ closed' = TRUE
  /\ UNCHANGED <<queue, waiting, hand, out, st>>

Next ==
  \/ Close
  \/ \E t \in Threads :
       \/ Call(t) \/ Get(t) \/ Return(t)
       \/ Fail(t) \/ FailAtOnce(t) \/ Abandon(t)
       \/ \E v \in Items : Put(t, v)

Spec == Init /\ [][Next]_vars
===============================================================================
