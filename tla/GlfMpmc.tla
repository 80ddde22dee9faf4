-------------------------------- MODULE GlfMpmc -------------------------------
(***************************************************************************)
(* The GLFQ queue (fq_mpmc_t, glf_queue.hpp): two rings of indices over an *)
(* array of N payloads.  An enqueue takes a free index from fq, writes the *)
(* payload and puts the index into aq; a dequeue goes the other way.       *)
(*                                                                         *)
(* A thread that works in one ring is idle in the other one.  What happens *)
(* between two accesses to shared memory is one step.                      *)
(***************************************************************************)
EXTENDS Integers, FiniteSets

CONSTANTS
  Threads, N, CycleMod, Catchups,   \* as in GlfRing
  Values,     \* payloads
  NoValue     \* the payload of a call that has none

VARIABLES
  aqTail, aqHead, aqThreshold, aqEntry, aqLap,   \* aq, the allocated indices
  aqPc, aqTkt, aqIdx, aqEnt, aqGoal,
  fqTail, fqHead, fqThreshold, fqEntry, fqLap,   \* fq, the free indices
  fqPc, fqTkt, fqIdx, fqEnt, fqGoal,
  data,      \* the payload array
  stage,     \* which part of its call each thread is in
  value      \* argument of an enqueue, result of a dequeue

aqVars == <<aqTail, aqHead, aqThreshold, aqEntry, aqLap,
            aqPc, aqTkt, aqIdx, aqEnt, aqGoal>>
fqVars == <<fqTail, fqHead, fqThreshold, fqEntry, fqLap,
            fqPc, fqTkt, fqIdx, fqEnt, fqGoal>>
mpmcVars == <<aqVars, fqVars, data, stage, value>>

aq == INSTANCE GlfRingInv WITH
  tail <- aqTail, head <- aqHead, threshold <- aqThreshold, entry <- aqEntry,
  lap <- aqLap, pc <- aqPc, tkt <- aqTkt, idx <- aqIdx, ent <- aqEnt, goal <- aqGoal

fq == INSTANCE GlfRingInv WITH
  tail <- fqTail, head <- fqHead, threshold <- fqThreshold, entry <- fqEntry,
  lap <- fqLap, pc <- fqPc, tkt <- fqTkt, idx <- fqIdx, ent <- fqEnt, goal <- fqGoal

ASSUME RingConstants == aq!RingAssumptions

Indices == 0 .. N - 1
FQ_BOT == N

\* fq_init
MpmcInit ==
  /\ aq!InitEmpty
  /\ fq!InitFull
  /\ data = [i \in Indices |-> NoValue]
  /\ stage = [t \in Threads |-> "idle"]
  /\ value = [t \in Threads |-> NoValue]

Enter(t, next) == stage' = [stage EXCEPT ![t] = next]

AqIdle(t) == aqPc[t] = "idle"
FqIdle(t) == fqPc[t] = "idle"

(***************************************************************************)
(* fq_enqueue_ptr                                                          *)
(***************************************************************************)
EnqPtrStart(t, v) ==
  /\ stage[t] = "idle"
  /\ fq!DeqStart(t)
  /\ value' = [value EXCEPT ![t] = v]
  /\ Enter(t, "take_free")
  /\ UNCHANGED <<aqVars, data>>

EnqPtrFull(t) ==
  /\ stage[t] = "take_free" /\ FqIdle(t) /\ fqIdx[t] = FQ_BOT
  /\ Enter(t, "idle")
  /\ UNCHANGED <<aqVars, fqVars, data, value>>

EnqPtrWrite(t) ==
  /\ stage[t] = "take_free" /\ FqIdle(t) /\ fqIdx[t] # FQ_BOT
  /\ data' = [data EXCEPT ![fqIdx[t]] = value[t]]
  /\ aq!EnqStart(t, fqIdx[t])
  /\ Enter(t, "put_used")
  /\ UNCHANGED <<fqVars, value>>

EnqPtrReturn(t) ==
  /\ stage[t] = "put_used" /\ AqIdle(t)
  /\ Enter(t, "idle")
  /\ UNCHANGED <<aqVars, fqVars, data, value>>

(***************************************************************************)
(* fq_dequeue_ptr                                                          *)
(***************************************************************************)
DeqPtrStart(t) ==
  /\ stage[t] = "idle"
  /\ aq!DeqStart(t)
  /\ value' = [value EXCEPT ![t] = NoValue]
  /\ Enter(t, "take_used")
  /\ UNCHANGED <<fqVars, data>>

DeqPtrEmpty(t) ==
  /\ stage[t] = "take_used" /\ AqIdle(t) /\ aqIdx[t] = FQ_BOT
  /\ Enter(t, "idle")
  /\ UNCHANGED <<aqVars, fqVars, data, value>>

DeqPtrRead(t) ==
  /\ stage[t] = "take_used" /\ AqIdle(t) /\ aqIdx[t] # FQ_BOT
  /\ value' = [value EXCEPT ![t] = data[aqIdx[t]]]
  /\ fq!EnqStart(t, aqIdx[t])
  /\ Enter(t, "put_free")
  /\ UNCHANGED <<aqVars, data>>

DeqPtrReturn(t) ==
  /\ stage[t] = "put_free" /\ FqIdle(t)
  /\ Enter(t, "idle")
  /\ UNCHANGED <<aqVars, fqVars, data, value>>

AqStep(t) == aq!RingStep(t) /\ UNCHANGED <<fqVars, data, stage, value>>
FqStep(t) == fq!RingStep(t) /\ UNCHANGED <<aqVars, data, stage, value>>

\* Everything inside a call but its return.
InsideStep(t) == AqStep(t) \/ FqStep(t) \/ EnqPtrWrite(t) \/ DeqPtrRead(t)

MpmcNext ==
  \E t \in Threads :
    \/ \E v \in Values : EnqPtrStart(t, v)
    \/ DeqPtrStart(t)
    \/ InsideStep(t)
    \/ EnqPtrFull(t) \/ EnqPtrReturn(t) \/ DeqPtrEmpty(t) \/ DeqPtrReturn(t)

MpmcSpec == MpmcInit /\ [][MpmcNext]_mpmcVars

-----------------------------------------------------------------------------
\* The index a thread has exclusive use of.
Owns(t, i) ==
  \/ stage[t] = "take_free" /\ FqIdle(t) /\ fqIdx[t] = i
  \/ stage[t] = "put_used" /\ aq!Carries(t, i)
  \/ stage[t] = "take_used" /\ AqIdle(t) /\ aqIdx[t] = i
  \/ stage[t] = "put_free" /\ fq!Carries(t, i)

\* Every index is in one place only: one thread owns it, or it is in one slot of
\* one ring.  So a payload is never written while another thread reads it, and
\* no cell of the array is ever lost to the queue.
CellExclusive ==
  \A i \in Indices :
    Cardinality({t \in Threads : Owns(t, i)})
      + Cardinality(aq!Holders(i)) + Cardinality(fq!Holders(i)) = 1

(***************************************************************************)
(* The inductive invariant: that of each ring; a thread is at work in at   *)
(* most one of them, the one that its stage says, and takes there or puts; *)
(* and no index is in two places, or in none.                              *)
(***************************************************************************)
Stages == {"idle", "take_free", "put_used", "take_used", "put_free"}

StageFits(t) ==
  \/ stage[t] = "idle" /\ AqIdle(t) /\ FqIdle(t)
  \/ stage[t] = "take_free" /\ AqIdle(t) /\ fqPc[t] \in fq!DeqPcs \cup {"idle"}
  \/ stage[t] = "put_used" /\ FqIdle(t) /\ aqPc[t] \in aq!EnqPcs \cup {"idle"}
  \/ stage[t] = "take_used" /\ FqIdle(t) /\ aqPc[t] \in aq!DeqPcs \cup {"idle"}
  \/ stage[t] = "put_free" /\ AqIdle(t) /\ fqPc[t] \in fq!EnqPcs \cup {"idle"}

Owners(i) == {t \in Threads : Owns(t, i)}

InOnePlace(i) ==
  \/ \E t \in Threads : Owners(i) = {t} /\ aq!Holders(i) = {} /\ fq!Holders(i) = {}
  \/ \E s \in aq!Slots : Owners(i) = {} /\ aq!Holders(i) = {s} /\ fq!Holders(i) = {}
  \/ \E s \in fq!Slots : Owners(i) = {} /\ aq!Holders(i) = {} /\ fq!Holders(i) = {s}

MpmcIInv ==
  /\ aq!RingInv /\ fq!RingInv
  /\ stage \in [Threads -> Stages] /\ \A t \in Threads : StageFits(t)
  /\ \A i \in Indices : InOnePlace(i)
===============================================================================
