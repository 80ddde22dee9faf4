------------------------------ MODULE GlfRingUse ------------------------------
(***************************************************************************)
(* One GLFQ ring in the use its queue makes of it: N indices circulate     *)
(* between the ring and the threads, and an index that was dequeued may be *)
(* enqueued again by any thread (fq_enqueue_ptr and fq_dequeue_ptr pass    *)
(* them on through the other ring and the payload array).                  *)
(***************************************************************************)
EXTENDS GlfRingInv

CONSTANT MaxCalls   \* bound: calls made by all threads together

ASSUME ConstantsAssumption == RingAssumptions
ASSUME MaxCallsAssumption == MaxCalls \in Nat

VARIABLES
  spare,     \* indices outside the ring and outside every call
  calls,     \* history: number of calls made
  older,     \* history: for an index, those whose enqueue had returned when its
             \*   own began, and that are still in the ring
  sawEmpty   \* history: was the ring empty at some time in the thread's call

useVars == <<spare, calls, older, sawEmpty>>
vars == <<ring, useVars>>

\* The enqueue of index i has taken effect but not returned.
Returning(i) ==
  \E t \in Threads : pc[t] \in {"enq_threshold", "enq_reset"} /\ idx[t] = i

\* Nothing is in the ring but what calls in progress put there or will take.
EmptyNow == \A s \in Slots : Live(s) => Claimed(s) \/ Returning(entry[s].index)

\* aq begins empty, fq full.
Init ==
  /\ \/ InitEmpty /\ spare = Indices /\ older = [i \in Indices |-> {}]
     \/ InitFull /\ spare = {} /\ older = [i \in Indices |-> 0 .. i - 1]
  /\ calls = 0
  /\ sawEmpty = [t \in Threads |-> FALSE]

Inside == {entry[s].index : s \in {s \in Slots : Live(s)}}

NoteEmpty ==
  sawEmpty' = [t \in Threads |-> pc'[t] \in DeqPcs /\ (sawEmpty[t] \/ EmptyNow')]

Enqueue(t) ==
  /\ calls < MaxCalls
  /\ \E i \in spare :
       /\ EnqStart(t, i)
       /\ spare' = spare \ {i}
       /\ older' = [older EXCEPT ![i] = {j \in Inside : ~Returning(j)}]
  /\ calls' = calls + 1
  /\ NoteEmpty

Dequeue(t) ==
  /\ calls < MaxCalls
  /\ DeqStart(t)
  /\ calls' = calls + 1
  /\ UNCHANGED <<spare, older>>
  /\ NoteEmpty

InRing(t) ==
  /\ RingStep(t)
  /\ spare' = IF pc'[t] = "idle" /\ idx'[t] # Bot THEN spare \cup {idx'[t]} ELSE spare
  /\ older' = [i \in Indices |-> older[i] \ (spare' \ spare)]
  /\ UNCHANGED calls
  /\ NoteEmpty

Next == \E t \in Threads : Enqueue(t) \/ Dequeue(t) \/ InRing(t)

Spec == Init /\ [][Next]_vars

\* A thread that is inside a call keeps running.
FairSpec == Spec /\ \A t \in Threads : WF_vars(InRing(t))

-----------------------------------------------------------------------------
(***************************************************************************)
(* Properties                                                              *)
(***************************************************************************)

\* Every variable keeps its range.
TypeOK ==
  /\ RingTypeOK
  /\ spare \subseteq Indices
  /\ calls \in 0 .. MaxCalls
  /\ older \in [Indices -> SUBSET Indices]
  /\ sawEmpty \in [Threads -> BOOLEAN]

Places(i) ==
  {<<"thread", t>> : t \in {t \in Threads : Carries(t, i)}}
    \cup {<<"slot", s>> : s \in Holders(i)}
    \cup {<<"spare", j>> : j \in spare \cap {i}}

\* Every index is in exactly one place: spare, carried by one enqueuer, or in one
\* slot.  None is lost, delivered twice or overwritten, whichever way dequeuers
\* that come too early and enqueuers that come too late cross at a slot.
IndicesConserved == \A i \in Indices : \E p \in Places(i) : Places(i) = {p}

\* First in, first out: when an index is taken, every index whose enqueue had
\* returned before the enqueue of this one began is out, or a dequeuer that is
\* still in its call is going to take it.
OldestFirst ==
  [][\A t \in Threads :
       pc[t] = "deq_consume" /\ pc'[t] = "idle" =>
         \A s \in Slots :
           Live(s) /\ entry[s].index \in older[ent[t].index] => Claimed(s)]_vars

\* A dequeue that answers "empty" is right at some time in its call, also when
\* it says so at once because threshold is negative.
EmptyIsTrue ==
  [][/\ calls' # calls /\ pc' = pc => EmptyNow
     /\ \A t \in Threads :
          pc[t] \in DeqPcs /\ pc'[t] = "idle" /\ idx'[t] = Bot =>
            sawEmpty[t] \/ EmptyNow]_vars

\* Every call returns: no ring of threads keeps each other busy for ever.
EveryCallReturns == \A t \in Threads : pc[t] # "idle" ~> pc[t] = "idle"

\* An index whose enqueue had returned before that of index i began has a smaller
\* ticket, both while i is on its way into a slot and when it is in one.
OlderAhead ==
  \A i \in Indices : \A j \in older[i] : \E s \in Holders(j) :
    /\ \A t \in Threads : Carries(t, i) /\ pc[t] # "enq_faa" => Origin(s) < tkt[t]
    /\ \A r \in Holders(i) : Origin(s) < Origin(r)

\* The inductive invariant of the ring in this use.
IInv == TypeOK /\ RingInv /\ IndicesConserved /\ TailAhead /\ OlderAhead
===============================================================================
