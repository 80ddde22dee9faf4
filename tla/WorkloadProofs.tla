---------------------------- MODULE WorkloadProofs ----------------------------
(***************************************************************************)
(* Machine-checked proofs about four of the workloads: the ray tracer with *)
(* a queue of rays, for every number of workers, pixels and bounces; the   *)
(* FIFO check of the benchmark, whose verdict is right about loss for      *)
(* every number of threads and of tokens, whatever words a faulty queue    *)
(* gives out; the search, whose levels are distances as long as nothing is *)
(* refused, for every number of waves and lanes, and which finds and       *)
(* counts all within reach if its block is a power of two threads; and the *)
(* baseline's compaction, for every number of pixels and size of a block.  *)
(***************************************************************************)
EXTENDS RayTrace, FifoCheck, BfsLevels, RayPasses, ModArith, FiniteSetTheorems,
        WellFoundedInduction

-----------------------------------------------------------------------------
(***************************************************************************)
(* The ray tracer                                                          *)
(***************************************************************************)
\* Where a worker can be, in each of the kernels.
InGenerate == {"out", "next", "gen_fence", "gen_put"}
InTrace ==
  {"out", "load", "take", "trace", "reflect", "re_fence", "re_put", "end_ray"}

\* The worker has the pixel that it names, and nobody else has.
Has(w) ==
  worker[w].at \in {"gen_fence", "gen_put", "trace", "reflect", "re_fence", "re_put", "end_ray"}

(***************************************************************************)
(* The inductive invariant, in parts                                       *)
(***************************************************************************)
WorkerRecord ==
  [at : InGenerate \cup InTrace, pixel : Nat, depth : Int, count : Nat]

RayType ==
  /\ rtKernel \in {"off", "generate", "trace", "done"}
  /\ rays \in [TileSlots -> Int]
  /\ unseen \in [Workers -> {Nothing} \cup (TileSlots \X Int)]
  /\ rayQueue \in Seq(TileSlots)
  /\ alive \in 0 .. AliveMod - 1
  /\ worker \in [Workers -> WorkerRecord]
  /\ shaded \in [TileSlots -> Seq(Int)]

\* A kernel's workers are in that kernel; before k_trace no ray is traced, and in
\* k_generate worker w goes through the pixels w, w + RayWorkers, ... and has
\* enqueued none that it has not come to.
Kernels ==
  /\ rtKernel \in {"off", "done"} => \A w \in Workers : worker[w].at = "out"
  /\ rtKernel = "off" =>
       /\ \A w \in Workers : worker[w].pixel = w /\ worker[w].count = 0
       /\ rayQueue = <<>> /\ alive = 0
  /\ rtKernel = "trace" => \A w \in Workers : worker[w].at \in InTrace
  /\ rtKernel \in {"off", "generate"} => \A p \in TileSlots : Len(shaded[p]) = 0
  /\ rtKernel = "generate" =>
       /\ \A w \in Workers : /\ worker[w].at \in InGenerate
                             /\ worker[w].at # "out" => worker[w].pixel % RayWorkers = w
       /\ \A i \in DOMAIN rayQueue : \A w \in Workers :
            rayQueue[i] % RayWorkers = w /\ worker[w].at # "out" =>
              rayQueue[i] < worker[w].pixel

\* A pixel is once in the queue or with one worker, never both.
OnePlace ==
  /\ \A w \in Workers : Has(w) => worker[w].pixel \in TileSlots
  /\ \A v, w \in Workers :
       Has(v) /\ Has(w) /\ worker[v].pixel = worker[w].pixel => v = w
  /\ \A i \in DOMAIN rayQueue : \A w \in Workers :
       Has(w) => worker[w].pixel # rayQueue[i]
  /\ \A i, j \in DOMAIN rayQueue : rayQueue[i] = rayQueue[j] => i = j

\* A store that others do not see yet is one to the worker's own pixel, before the fence.
OnlyBeforeFence ==
  \A w \in Workers : unseen[w] # Nothing =>
    /\ worker[w].at \in {"gen_fence", "re_fence"}
    /\ unseen[w][1] = worker[w].pixel

\* The slot of a pixel holds its next bounce: for all to see when the pixel is in the
\* queue, else as far as the worker that has it can see.
NextBounce ==
  /\ \A i \in DOMAIN rayQueue : rays[rayQueue[i]] = Len(shaded[rayQueue[i]])
  /\ \A w \in Workers :
       LET p == worker[w].pixel IN
       /\ worker[w].at \in {"trace", "gen_put", "re_put"} => rays[p] = Len(shaded[p])
       /\ worker[w].at \in {"gen_fence", "re_fence"} =>
            IF unseen[w] = Nothing THEN rays[p] = Len(shaded[p])
                                   ELSE unseen[w][2] = Len(shaded[p])
       /\ worker[w].at = "reflect" => worker[w].depth + 1 = Len(shaded[p])

RayInv == RayType /\ Kernels /\ OnePlace /\ OnlyBeforeFence /\ NextBounce /\ BouncesInTurn

RtNext == RtLaunch \/ RtStep

-----------------------------------------------------------------------------
LEMMA RayInit == RtInit => RayInv
<1> SUFFICES ASSUME RtInit PROVE RayInv OBVIOUS
<1> USE RayAssumption DEF RtInit
<1>1. RayType BY DEF RayType, WorkerRecord, InGenerate, InTrace, NoRay, TileSlots, Workers
<1>2. Kernels BY DEF Kernels
<1>3. OnePlace BY DEF OnePlace, Has
<1>4. OnlyBeforeFence BY DEF OnlyBeforeFence
<1>5. NextBounce BY DEF NextBounce
<1>6. BouncesInTurn BY DEF BouncesInTurn
<1>7. QED BY <1>1, <1>2, <1>3, <1>4, <1>5, <1>6 DEF RayInv

\* The counter of the rays alive stays a number below its range.
LEMMA AliveInRange ==
  ASSUME NEW n \in Nat
  PROVE  n % AliveMod \in 0 .. AliveMod - 1
BY RayAssumption, DivMod

LEMMA TypeStep == ASSUME RayInv, RtNext PROVE RayType'
<1> USE RayAssumption DEF RayInv, RayType, WorkerRecord, Has, InGenerate, InTrace
<1>1. CASE RtLaunch BY <1>1 DEF RtLaunch
<1>2. CASE HostNextKernel BY <1>2 DEF HostNextKernel
<1>3. CASE \E w \in Workers : StoreSeen(w)
  <2>1. PICK w \in Workers : StoreSeen(w) BY <1>3
  <2>2. QED BY <2>1 DEF StoreSeen
<1>4. CASE \E w \in Workers : RtWorkerStep(w)
  <2>1. PICK w \in Workers : RtWorkerStep(w) BY <1>4
  <2>2. CASE Threadfence(w) BY <2>2 DEF Threadfence, Goto
  <2>3. CASE GenStore(w)
    <3>1. worker[w].pixel \in TileSlots BY <2>3 DEF GenStore, TileSlots
    <3>2. <<worker[w].pixel, 0>> \in TileSlots \X Int BY <3>1
    <3>3. unseen' = [unseen EXCEPT ![w] = <<worker[w].pixel, 0>>] BY <2>3 DEF GenStore, StoreRay
    <3>4. unseen' \in [Workers -> {Nothing} \cup (TileSlots \X Int)] BY <3>2, <3>3
    <3>5. QED BY <2>3, <3>4 DEF GenStore, StoreRay, Goto
  <2>4. CASE GenPut(w)
    <3>1. worker[w].pixel \in TileSlots BY <2>4 DEF GenPut, OnePlace
    <3>2. worker[w].pixel + RayWorkers \in Nat /\ worker[w].count + 1 \in Nat OBVIOUS
    <3>3. PICK ok \in BOOLEAN :
            /\ EnqueueIdx(worker[w].pixel, ok)
            /\ worker' = [worker EXCEPT ![w].at = "next", ![w].pixel = @ + RayWorkers,
                                        ![w].count = IF ok THEN @ + 1 ELSE @]
      BY <2>4 DEF GenPut
    <3>4. Append(rayQueue, worker[w].pixel) \in Seq(TileSlots) BY <3>1
    <3>5. rayQueue' \in Seq(TileSlots) BY <3>3, <3>4 DEF EnqueueIdx
    <3>6. worker' \in [Workers -> WorkerRecord]
      <4>1. PICK n \in Nat :
              worker' = [worker EXCEPT ![w].at = "next", ![w].pixel = @ + RayWorkers,
                                       ![w].count = n]
        <5>1. CASE ok BY <3>2, <3>3, <5>1
        <5>2. CASE ~ ok
          <6>1. worker[w].count \in Nat OBVIOUS
          <6>2. QED BY <3>3, <5>2, <6>1
        <5>3. QED BY <5>1, <5>2
      <4>2. QED BY <3>2, <4>1
    <3>7. QED BY <2>4, <3>5, <3>6 DEF GenPut
  <2>5. CASE GenReturn(w)
    <3>1. alive + worker[w].count \in Nat BY DEF Workers
    <3>2. alive' \in 0 .. AliveMod - 1 BY <2>5, <3>1, AliveInRange DEF GenReturn
    <3>3. worker' \in [Workers -> WorkerRecord] BY <2>5 DEF GenReturn
    <3>4. QED BY <2>5, <3>2, <3>3 DEF GenReturn
  <2>6. CASE TraceLoadAlive(w) BY <2>6 DEF TraceLoadAlive, Goto
  <2>7. CASE TraceEmpty(w) BY <2>7 DEF TraceEmpty, Goto
  <2>8. CASE TraceTake(w)
    <3>1. Head(rayQueue) \in TileSlots /\ Tail(rayQueue) \in Seq(TileSlots)
      BY <2>8 DEF TraceTake
    <3>2. TileSlots \subseteq Nat BY DEF TileSlots
    <3>3. QED BY <2>8, <3>1, <3>2 DEF TraceTake
  <2>9. CASE TraceScene(w)
    <3>1. worker[w].pixel \in TileSlots BY <2>9 DEF TraceScene, OnePlace
    <3>2. RayAsSeen(w, worker[w].pixel) \in Int BY <3>1 DEF RayAsSeen
    <3>3. Append(shaded[worker[w].pixel], RayAsSeen(w, worker[w].pixel)) \in Seq(Int)
      BY <3>1, <3>2
    <3>4. shaded' \in [TileSlots -> Seq(Int)] BY <2>9, <3>3 DEF TraceScene
    <3>5. PICK at \in {"reflect", "end_ray"} :
            worker' = [worker EXCEPT ![w].at = at, ![w].depth = RayAsSeen(w, worker[w].pixel)]
      <4>1. PICK reflected \in BOOLEAN :
              worker' = [worker EXCEPT ![w].at = IF reflected THEN "reflect" ELSE "end_ray",
                                       ![w].depth = RayAsSeen(w, worker[w].pixel)]
        BY <2>9 DEF TraceScene
      <4>2. CASE reflected BY <4>1, <4>2
      <4>3. CASE ~ reflected BY <4>1, <4>3
      <4>4. QED BY <4>2, <4>3
    <3>6. worker' \in [Workers -> WorkerRecord] BY <3>2, <3>5
    <3>7. QED BY <2>9, <3>4, <3>6 DEF TraceScene
  <2>10. CASE TraceReflect(w)
    <3>1. worker[w].pixel \in TileSlots BY <2>10 DEF TraceReflect, OnePlace
    <3>2. <<worker[w].pixel, worker[w].depth + 1>> \in TileSlots \X Int
      BY <3>1
    <3>3. unseen' = [unseen EXCEPT ![w] = <<worker[w].pixel, worker[w].depth + 1>>]
      BY <2>10 DEF TraceReflect, StoreRay
    <3>4. unseen' \in [Workers -> {Nothing} \cup (TileSlots \X Int)] BY <3>2, <3>3
    <3>5. QED BY <2>10, <3>4 DEF TraceReflect, StoreRay, Goto
  <2>11. CASE TraceRequeue(w)
    <3>1. worker[w].pixel \in TileSlots BY <2>11 DEF TraceRequeue, OnePlace
    <3>2. PICK ok \in BOOLEAN :
            /\ EnqueueIdx(worker[w].pixel, ok)
            /\ worker' = [worker EXCEPT ![w].at = IF ok THEN "load" ELSE "end_ray"]
      BY <2>11 DEF TraceRequeue, Goto
    <3>3. Append(rayQueue, worker[w].pixel) \in Seq(TileSlots) BY <3>1
    <3>4. rayQueue' \in Seq(TileSlots) BY <3>2, <3>3 DEF EnqueueIdx
    <3>5. worker' \in [Workers -> WorkerRecord] BY <3>2
    <3>6. QED BY <2>11, <3>4, <3>5 DEF TraceRequeue
  <2>12. CASE TraceEndRay(w)
    <3>1. alive + AliveMod - 1 \in Nat OBVIOUS
    <3>2. QED BY <2>12, <3>1, AliveInRange DEF TraceEndRay, Goto
  <2>13. QED BY <2>1, <2>2, <2>3, <2>4, <2>5, <2>6, <2>7, <2>8, <2>9, <2>10, <2>11,
                <2>12 DEF RtWorkerStep
<1>5. QED BY <1>1, <1>2, <1>3, <1>4 DEF RtNext, RtStep

-----------------------------------------------------------------------------
(***************************************************************************)
(* What each step changes, variable by variable                            *)
(***************************************************************************)

\* q2 is q with x added at its end.
Pushed(q, q2, x) ==
  /\ DOMAIN q2 = 1 .. Len(q) + 1
  /\ Len(q2) = Len(q) + 1
  /\ \A i \in 1 .. Len(q) : q2[i] = q[i]
  /\ q2[Len(q) + 1] = x

LEMMA AppendPushes ==
  ASSUME NEW S, NEW q \in Seq(S), NEW x \in S
  PROVE  Pushed(q, Append(q, x), x)
BY DEF Pushed

\* The types, where they are needed one by one.
LEMMA Ranges ==
  ASSUME RayType
  PROVE  /\ \A w \in Workers :
              /\ worker[w].pixel \in Nat /\ worker[w].depth \in Int
              /\ worker[w].at \in InGenerate \cup InTrace
              /\ unseen[w] # Nothing => unseen[w][1] \in TileSlots /\ unseen[w][2] \in Int
         /\ DOMAIN rayQueue = 1 .. Len(rayQueue) /\ Len(rayQueue) \in Nat
         /\ \A i \in 1 .. Len(rayQueue) : rayQueue[i] \in TileSlots
         /\ \A p \in TileSlots : Len(shaded[p]) \in Nat /\ DOMAIN shaded[p] = 1 .. Len(shaded[p])
<1> USE DEF RayType, WorkerRecord
<1>1. ASSUME NEW w \in Workers
      PROVE  unseen[w] # Nothing => unseen[w][1] \in TileSlots /\ unseen[w][2] \in Int
  OBVIOUS
<1>2. \A w \in Workers : worker[w] \in WorkerRecord OBVIOUS
<1>3. \A w \in Workers : /\ worker[w].pixel \in Nat /\ worker[w].depth \in Int
                         /\ worker[w].at \in InGenerate \cup InTrace
  BY <1>2
<1>4. QED BY <1>1, <1>3

\* The step moves worker w only, from one place to another.
Moves(w, from, to) ==
  /\ worker[w].at = from /\ worker'[w].at = to
  /\ \A v \in Workers : v # w => worker'[v] = worker[v] /\ unseen'[v] = unseen[v]
  /\ rtKernel' = rtKernel /\ rays' = rays

KeepsRay(w) ==
  /\ worker'[w].pixel = worker[w].pixel /\ worker'[w].depth = worker[w].depth
  /\ worker'[w].count = worker[w].count

LEMMA FenceEffect ==
  ASSUME RayType, NEW w \in Workers, Threadfence(w)
  PROVE  /\ Moves(w, "gen_fence", "gen_put") \/ Moves(w, "re_fence", "re_put")
         /\ KeepsRay(w) /\ unseen[w] = Nothing
         /\ UNCHANGED <<unseen, rayQueue, shaded, alive>>
BY DEF RayType, WorkerRecord, Threadfence, Goto, Moves, KeepsRay

LEMMA GenStoreEffect ==
  ASSUME RayType, NEW w \in Workers, GenStore(w)
  PROVE  /\ Moves(w, "next", "gen_fence") /\ KeepsRay(w)
         /\ worker[w].pixel \in TileSlots
         /\ unseen'[w] # Nothing /\ unseen'[w] = <<worker[w].pixel, 0>>
         /\ UNCHANGED <<rayQueue, shaded, alive>>
<1>1. unseen' = [unseen EXCEPT ![w] = <<worker[w].pixel, 0>>] BY DEF GenStore, StoreRay
<1>2. unseen'[w] = <<worker[w].pixel, 0>> /\ unseen'[w] # Nothing
  BY <1>1 DEF RayType, Nothing
<1>3. \A v \in Workers : v # w => unseen'[v] = unseen[v] BY <1>1 DEF RayType
<1>4. worker[w].pixel \in TileSlots
  <2>1. worker[w].pixel \in Nat BY Ranges
  <2>2. QED BY <2>1, RayAssumption DEF GenStore, TileSlots
<1>5. QED BY <1>2, <1>3, <1>4 DEF RayType, WorkerRecord, GenStore, StoreRay, Goto, Moves, KeepsRay

LEMMA GenPutEffect ==
  ASSUME RayType, NEW w \in Workers, GenPut(w)
  PROVE  /\ Moves(w, "gen_put", "next")
         /\ worker'[w].pixel = worker[w].pixel + RayWorkers
         /\ \/ rayQueue' = rayQueue /\ worker'[w].count = worker[w].count
            \/ /\ rayQueue' = Append(rayQueue, worker[w].pixel)
               /\ worker'[w].count = worker[w].count + 1
         /\ UNCHANGED <<unseen, shaded, alive>>
<1>1. PICK ok \in BOOLEAN :
        /\ EnqueueIdx(worker[w].pixel, ok)
        /\ worker' = [worker EXCEPT ![w].at = "next", ![w].pixel = @ + RayWorkers,
                                    ![w].count = IF ok THEN @ + 1 ELSE @]
  BY DEF GenPut
<1>2. worker'[w].pixel = worker[w].pixel + RayWorkers /\ worker'[w].at = "next"
  BY <1>1 DEF RayType, WorkerRecord
<1>3. worker'[w].count = IF ok THEN worker[w].count + 1 ELSE worker[w].count
  BY <1>1 DEF RayType, WorkerRecord
<1>4. \A v \in Workers : v # w => worker'[v] = worker[v] BY <1>1 DEF RayType
<1>5. QED BY <1>1, <1>2, <1>3, <1>4 DEF GenPut, EnqueueIdx, Moves

LEMMA GenReturnEffect ==
  ASSUME RayType, NEW w \in Workers, GenReturn(w)
  PROVE  /\ Moves(w, "next", "out")
         /\ alive' = (alive + worker[w].count) % AliveMod
         /\ UNCHANGED <<unseen, rayQueue, shaded>>
BY DEF RayType, GenReturn, Moves

LEMMA LookEffect ==
  ASSUME RayType, NEW w \in Workers, TraceLoadAlive(w) \/ TraceEmpty(w)
  PROVE  /\ \/ Moves(w, "load", "out") \/ Moves(w, "load", "take")
            \/ Moves(w, "take", "load")
         /\ UNCHANGED <<unseen, rayQueue, shaded, alive>>
BY DEF RayType, WorkerRecord, TraceLoadAlive, TraceEmpty, Goto, Moves

LEMMA TraceTakeEffect ==
  ASSUME RayType, NEW w \in Workers, TraceTake(w)
  PROVE  /\ Moves(w, "take", "trace")
         /\ Len(rayQueue) > 0
         /\ worker'[w].pixel = rayQueue[1]
         /\ rayQueue' = Tail(rayQueue)
         /\ DOMAIN rayQueue' = 1 .. Len(rayQueue) - 1
         /\ Len(rayQueue') = Len(rayQueue) - 1
         /\ \A i \in 1 .. Len(rayQueue) - 1 : rayQueue'[i] = rayQueue[i + 1]
         /\ UNCHANGED <<unseen, shaded, alive>>
<1>1. worker' = [worker EXCEPT ![w].at = "trace", ![w].pixel = Head(rayQueue)]
  BY DEF TraceTake
<1>2. worker'[w].at = "trace" /\ worker'[w].pixel = Head(rayQueue)
  BY <1>1 DEF RayType, WorkerRecord
<1>3. \A v \in Workers : v # w => worker'[v] = worker[v] BY <1>1 DEF RayType
<1>4. rayQueue # <<>> /\ rayQueue' = Tail(rayQueue) BY DEF TraceTake
<1>5. /\ Len(rayQueue) > 0 /\ Head(rayQueue) = rayQueue[1]
      /\ DOMAIN rayQueue' = 1 .. Len(rayQueue) - 1
      /\ Len(rayQueue') = Len(rayQueue) - 1
      /\ \A i \in 1 .. Len(rayQueue) - 1 : rayQueue'[i] = rayQueue[i + 1]
  BY <1>4 DEF RayType
<1>6. QED BY <1>2, <1>3, <1>4, <1>5 DEF TraceTake, Moves

LEMMA TraceSceneEffect ==
  ASSUME RayType, NEW w \in Workers, TraceScene(w), worker[w].pixel \in TileSlots
  PROVE  LET p == worker[w].pixel IN
         /\ Moves(w, "trace", "reflect") \/ Moves(w, "trace", "end_ray")
         /\ worker'[w].pixel = p /\ worker'[w].depth = RayAsSeen(w, p)
         /\ Pushed(shaded[p], shaded'[p], RayAsSeen(w, p))
         /\ \A x \in TileSlots : x # p => shaded'[x] = shaded[x]
         /\ UNCHANGED <<unseen, rayQueue, alive>>
<1> DEFINE p == worker[w].pixel
           depth == RayAsSeen(w, p)
<1>1. PICK reflected \in BOOLEAN :
        worker' = [worker EXCEPT ![w].at = IF reflected THEN "reflect" ELSE "end_ray",
                                 ![w].depth = depth]
  BY DEF TraceScene
<1>2. depth \in Int BY DEF RayType, RayAsSeen
<1>3. shaded' = [shaded EXCEPT ![p] = Append(@, depth)] BY DEF TraceScene
<1>4. Pushed(shaded[p], shaded'[p], depth)
  <2>1. shaded[p] \in Seq(Int) BY DEF RayType
  <2>2. shaded'[p] = Append(shaded[p], depth) BY <1>3 DEF RayType
  <2>3. QED BY <1>2, <2>1, <2>2, AppendPushes
<1>5. \A x \in TileSlots : x # p => shaded'[x] = shaded[x] BY <1>3 DEF RayType
<1> HIDE DEF depth
<1>6. /\ worker'[w].pixel = worker[w].pixel /\ worker'[w].depth = depth
      /\ worker'[w].at = IF reflected THEN "reflect" ELSE "end_ray"
      /\ \A v \in Workers : v # w => worker'[v] = worker[v]
  BY <1>1 DEF RayType, WorkerRecord
<1>7. worker[w].at = "trace" /\ UNCHANGED <<rtKernel, rays, unseen, rayQueue, alive>>
  BY DEF TraceScene
<1>8. QED BY <1>4, <1>5, <1>6, <1>7 DEF Moves, depth

LEMMA TraceReflectEffect ==
  ASSUME RayType, NEW w \in Workers, TraceReflect(w)
  PROVE  /\ Moves(w, "reflect", "re_fence") /\ KeepsRay(w)
         /\ unseen'[w] # Nothing /\ unseen'[w] = <<worker[w].pixel, worker[w].depth + 1>>
         /\ UNCHANGED <<rayQueue, shaded, alive>>
<1>1. unseen' = [unseen EXCEPT ![w] = <<worker[w].pixel, worker[w].depth + 1>>]
  BY DEF TraceReflect, StoreRay
<1>2. unseen'[w] = <<worker[w].pixel, worker[w].depth + 1>> /\ unseen'[w] # Nothing
  BY <1>1 DEF RayType, Nothing
<1>3. \A v \in Workers : v # w => unseen'[v] = unseen[v] BY <1>1 DEF RayType
<1>4. QED BY <1>2, <1>3 DEF RayType, WorkerRecord, TraceReflect, StoreRay, Goto, Moves, KeepsRay

LEMMA TraceRequeueEffect ==
  ASSUME RayType, NEW w \in Workers, TraceRequeue(w)
  PROVE  /\ KeepsRay(w)
         /\ \/ Moves(w, "re_put", "load") /\ rayQueue' = Append(rayQueue, worker[w].pixel)
            \/ Moves(w, "re_put", "end_ray") /\ rayQueue' = rayQueue
         /\ UNCHANGED <<unseen, shaded, alive>>
<1>1. PICK ok \in BOOLEAN :
        /\ EnqueueIdx(worker[w].pixel, ok)
        /\ worker' = [worker EXCEPT ![w].at = IF ok THEN "load" ELSE "end_ray"]
  BY DEF TraceRequeue, Goto
<1>2. /\ worker'[w].at = IF ok THEN "load" ELSE "end_ray"
      /\ KeepsRay(w) /\ \A v \in Workers : v # w => worker'[v] = worker[v]
  BY <1>1 DEF RayType, WorkerRecord, KeepsRay
<1>3. QED BY <1>1, <1>2 DEF TraceRequeue, EnqueueIdx, Moves

LEMMA TraceEndRayEffect ==
  ASSUME RayType, NEW w \in Workers, TraceEndRay(w)
  PROVE  /\ Moves(w, "end_ray", "load")
         /\ alive' = (alive + AliveMod - 1) % AliveMod
         /\ UNCHANGED <<unseen, rayQueue, shaded>>
BY DEF RayType, WorkerRecord, TraceEndRay, Goto, Moves

LEMMA StoreSeenEffect ==
  ASSUME RayType, NEW w \in Workers, StoreSeen(w)
  PROVE  /\ unseen[w] # Nothing /\ unseen'[w] = Nothing
         /\ rays'[unseen[w][1]] = unseen[w][2]
         /\ \A p \in TileSlots : p # unseen[w][1] => rays'[p] = rays[p]
         /\ \A v \in Workers : v # w => unseen'[v] = unseen[v]
         /\ UNCHANGED <<rtKernel, rayQueue, alive, worker, shaded>>
<1>1. unseen[w] # Nothing => unseen[w][1] \in TileSlots BY Ranges
<1>2. QED BY <1>1 DEF RayType, StoreSeen

\* Between two kernels and before the first, every worker starts afresh.
LEMMA LaunchEffect ==
  ASSUME RayType, RtLaunch \/ HostNextKernel
  PROVE  /\ \/ RtLaunch /\ rtKernel = "off" /\ rtKernel' = "generate"
            \/ rtKernel = "generate" /\ rtKernel' = "trace"
            \/ rtKernel = "trace" /\ rtKernel' = "done"
         /\ \A w \in Workers :
              /\ KeepsRay(w)
              /\ worker'[w].at = CASE rtKernel = "off" -> "next"
                                   [] rtKernel = "generate" -> "load"
                                   [] rtKernel = "trace" -> "out"
         /\ rtKernel # "off" => \A w \in Workers : worker[w].at = "out"
         /\ UNCHANGED <<rays, unseen, rayQueue, alive, shaded>>
<1>1. CASE RtLaunch BY <1>1 DEF RtLaunch, RayType, WorkerRecord, KeepsRay
<1>2. CASE HostNextKernel BY <1>2 DEF HostNextKernel, RayType, WorkerRecord, KeepsRay
<1>3. QED BY <1>1, <1>2

-----------------------------------------------------------------------------
(***************************************************************************)
(* Every step keeps the invariant                                          *)
(***************************************************************************)
RayParts == Kernels /\ OnePlace /\ OnlyBeforeFence /\ NextBounce /\ BouncesInTurn

\* q2 has what q has, and x.
LEMMA PushedEntries ==
  ASSUME NEW q, NEW q2, NEW x, Pushed(q, q2, x), Len(q) \in Nat
  PROVE  \A i \in DOMAIN q2 : (i \in 1 .. Len(q) /\ q2[i] = q[i]) \/ (i = Len(q) + 1 /\ q2[i] = x)
BY DEF Pushed

LEMMA FenceKeeps == ASSUME RayInv, NEW w \in Workers, Threadfence(w) PROVE RayParts'
<1> USE DEF RayInv
<1>1. /\ Moves(w, "gen_fence", "gen_put") \/ Moves(w, "re_fence", "re_put")
      /\ KeepsRay(w) /\ unseen[w] = Nothing /\ UNCHANGED <<unseen, rayQueue, shaded, alive>>
  BY FenceEffect
<1>2. Kernels' BY <1>1, Ranges DEF Kernels, Moves, KeepsRay, Has, InGenerate, InTrace
<1>3. OnePlace' BY <1>1, Ranges DEF OnePlace, Moves, KeepsRay, Has, InGenerate, InTrace
<1>4. OnlyBeforeFence' BY <1>1, Ranges DEF OnlyBeforeFence, Moves, KeepsRay, Has, InGenerate, InTrace
<1>5. NextBounce' BY <1>1, Ranges DEF NextBounce, Moves, KeepsRay, Has, InGenerate, InTrace
<1>6. BouncesInTurn' BY <1>1, Ranges DEF BouncesInTurn, Moves, KeepsRay, Has, InGenerate, InTrace
<1>7. QED BY <1>2, <1>3, <1>4, <1>5, <1>6 DEF RayParts

LEMMA GenStoreKeeps == ASSUME RayInv, NEW w \in Workers, GenStore(w) PROVE RayParts'
<1> USE DEF RayInv
<1>1. /\ Moves(w, "next", "gen_fence") /\ KeepsRay(w)
      /\ worker[w].pixel \in TileSlots
      /\ unseen'[w] # Nothing /\ unseen'[w] = <<worker[w].pixel, 0>>
      /\ UNCHANGED <<rayQueue, shaded, alive>>
  BY GenStoreEffect
<1>2. Kernels' BY <1>1, Ranges DEF Kernels, Moves, KeepsRay, Has, InGenerate, InTrace
<1>3. OnePlace'
  <2>1. \A v \in Workers : v # w => worker'[v] = worker[v] BY <1>1 DEF Moves
  <2>2. worker[w].at = "next" /\ worker'[w].pixel = worker[w].pixel BY <1>1 DEF Moves, KeepsRay
  <2>3. rtKernel = "generate" BY <2>2 DEF RayType, Kernels, InTrace
  <2>4. \A v \in Workers : Has(v)' => worker[v].at # "out" /\ worker'[v].pixel = worker[v].pixel
                                      /\ (v # w => Has(v))
    BY <2>1, <2>2 DEF Has
  <2>5. \A v \in Workers : Has(v)' => worker'[v].pixel % RayWorkers = v
    BY <2>3, <2>4 DEF Kernels
  <2>6. \A v \in Workers : Has(v)' => worker'[v].pixel \in TileSlots
    BY <1>1, <2>2, <2>4 DEF OnePlace
  <2>7. \A i \in DOMAIN rayQueue : worker[w].pixel # rayQueue[i]
    <3>1. ASSUME NEW i \in DOMAIN rayQueue, worker[w].pixel = rayQueue[i] PROVE FALSE
      <4>1. rayQueue[i] % RayWorkers = w BY <2>2, <2>3, <3>1 DEF Kernels
      <4>2. rayQueue[i] < worker[w].pixel BY <2>2, <2>3, <4>1 DEF Kernels
      <4>3. QED BY <3>1, <4>2, Ranges
    <3>2. QED BY <3>1
  <2>8. \A i \in DOMAIN rayQueue' : \A v \in Workers : Has(v)' => worker'[v].pixel # rayQueue'[i]
    BY <1>1, <2>2, <2>4, <2>7 DEF OnePlace
  <2>9. QED BY <1>1, <2>5, <2>6, <2>8 DEF OnePlace
<1>4. OnlyBeforeFence' BY <1>1, Ranges DEF OnlyBeforeFence, Moves, KeepsRay, Has, InGenerate, InTrace
<1>5. NextBounce'
  <2>1. rtKernel = "generate" BY <1>1 DEF RayType, Kernels, InTrace, Moves
  <2>2. unseen'[w][2] = Len(shaded'[worker'[w].pixel])
    BY <1>1, <2>1 DEF Kernels, Moves, KeepsRay
  <2>3. \A v \in Workers : v # w => worker'[v] = worker[v] /\ unseen'[v] = unseen[v]
    BY <1>1 DEF Moves
  <2>4. rays' = rays /\ shaded' = shaded /\ worker'[w].at = "gen_fence" BY <1>1 DEF Moves
  <2>5. \A i \in DOMAIN rayQueue' : rays'[rayQueue'[i]] = Len(shaded'[rayQueue'[i]])
    BY <1>1, <2>4 DEF NextBounce
  <2>6. QED BY <1>1, <2>2, <2>3, <2>4, <2>5 DEF NextBounce
<1>6. BouncesInTurn' BY <1>1, Ranges DEF BouncesInTurn, Moves, KeepsRay, Has, InGenerate, InTrace
<1>7. QED BY <1>2, <1>3, <1>4, <1>5, <1>6 DEF RayParts

LEMMA GenReturnKeeps == ASSUME RayInv, NEW w \in Workers, GenReturn(w) PROVE RayParts'
<1> USE DEF RayInv
<1>1. Moves(w, "next", "out") /\ UNCHANGED <<unseen, rayQueue, shaded>>
  BY GenReturnEffect
<1>2. Kernels' BY <1>1, Ranges DEF Kernels, Moves, KeepsRay, Has, InGenerate, InTrace
<1>3. OnePlace' BY <1>1, Ranges DEF OnePlace, Moves, KeepsRay, Has, InGenerate, InTrace
<1>4. OnlyBeforeFence' BY <1>1, Ranges DEF OnlyBeforeFence, Moves, KeepsRay, Has, InGenerate, InTrace
<1>5. NextBounce' BY <1>1, Ranges DEF NextBounce, Moves, KeepsRay, Has, InGenerate, InTrace
<1>6. BouncesInTurn' BY <1>1, Ranges DEF BouncesInTurn, Moves, KeepsRay, Has, InGenerate, InTrace
<1>7. QED BY <1>2, <1>3, <1>4, <1>5, <1>6 DEF RayParts

LEMMA LookKeeps == ASSUME RayInv, NEW w \in Workers, TraceLoadAlive(w) \/ TraceEmpty(w) PROVE RayParts'
<1> USE DEF RayInv
<1>1. /\ Moves(w, "load", "out") \/ Moves(w, "load", "take") \/ Moves(w, "take", "load")
      /\ UNCHANGED <<unseen, rayQueue, shaded, alive>>
  BY LookEffect
<1>2. Kernels' BY <1>1, Ranges DEF Kernels, Moves, KeepsRay, Has, InGenerate, InTrace
<1>3. OnePlace' BY <1>1, Ranges DEF OnePlace, Moves, KeepsRay, Has, InGenerate, InTrace
<1>4. OnlyBeforeFence' BY <1>1, Ranges DEF OnlyBeforeFence, Moves, KeepsRay, Has, InGenerate, InTrace
<1>5. NextBounce' BY <1>1, Ranges DEF NextBounce, Moves, KeepsRay, Has, InGenerate, InTrace
<1>6. BouncesInTurn' BY <1>1, Ranges DEF BouncesInTurn, Moves, KeepsRay, Has, InGenerate, InTrace
<1>7. QED BY <1>2, <1>3, <1>4, <1>5, <1>6 DEF RayParts

LEMMA TakeKeeps == ASSUME RayInv, NEW w \in Workers, TraceTake(w) PROVE RayParts'
<1> USE DEF RayInv
<1>1. /\ Moves(w, "take", "trace")
      /\ Len(rayQueue) > 0 /\ worker'[w].pixel = rayQueue[1]
      /\ DOMAIN rayQueue' = 1 .. Len(rayQueue) - 1
      /\ \A i \in 1 .. Len(rayQueue) - 1 : rayQueue'[i] = rayQueue[i + 1]
      /\ UNCHANGED <<unseen, shaded, alive>>
  BY TraceTakeEffect
<1>2. Kernels' BY <1>1, Ranges DEF Kernels, Moves, KeepsRay, Has, InGenerate, InTrace
<1>3. OnePlace'
  <2>1. \A v \in Workers : v # w => worker'[v] = worker[v] BY <1>1 DEF Moves
  <2>2. \A i \in DOMAIN rayQueue' : i \in 1 .. Len(rayQueue) /\ i + 1 \in DOMAIN rayQueue
                                   /\ i + 1 # 1 /\ rayQueue'[i] = rayQueue[i + 1]
    BY <1>1, Ranges
  <2>3. 1 \in DOMAIN rayQueue /\ rayQueue[1] \in TileSlots BY <1>1, Ranges
  <2>4. \A v \in Workers : Has(v)' => v = w \/ (Has(v) /\ worker'[v].pixel = worker[v].pixel)
    BY <2>1 DEF Has
  <2>5. \A v \in Workers : Has(v) => worker[v].pixel # rayQueue[1]
    BY <2>3 DEF OnePlace
  <2>6. \A v \in Workers : Has(v)' => worker'[v].pixel \in TileSlots
    BY <1>1, <2>3, <2>4 DEF OnePlace
  <2>7. \A u, v \in Workers :
          Has(u)' /\ Has(v)' /\ worker'[u].pixel = worker'[v].pixel => u = v
    BY <1>1, <2>4, <2>5 DEF OnePlace
  <2>8. \A i \in DOMAIN rayQueue' : rayQueue'[i] # rayQueue[1]
    BY <2>2, <2>3 DEF OnePlace
  <2>9. \A i \in DOMAIN rayQueue' : \A v \in Workers : Has(v)' => worker'[v].pixel # rayQueue'[i]
    BY <1>1, <2>2, <2>4, <2>8 DEF OnePlace
  <2>10. \A i, j \in DOMAIN rayQueue' : rayQueue'[i] = rayQueue'[j] => i = j
    <3>1. \A i, j \in DOMAIN rayQueue' : rayQueue'[i] = rayQueue'[j] => i + 1 = j + 1
      BY <2>2 DEF OnePlace
    <3>2. QED BY <2>2, <3>1
  <2>11. QED BY <2>6, <2>7, <2>9, <2>10 DEF OnePlace
<1>4. OnlyBeforeFence' BY <1>1, Ranges DEF OnlyBeforeFence, Moves, KeepsRay, Has, InGenerate, InTrace
<1>5. NextBounce'
  <2>1. \A v \in Workers : v # w => worker'[v] = worker[v] /\ unseen'[v] = unseen[v]
    BY <1>1 DEF Moves
  <2>2. \A i \in DOMAIN rayQueue' : i + 1 \in DOMAIN rayQueue /\ rayQueue'[i] = rayQueue[i + 1]
    BY <1>1, Ranges
  <2>3. 1 \in DOMAIN rayQueue BY <1>1, Ranges
  <2>4. rays' = rays /\ shaded' = shaded /\ worker'[w].at = "trace" BY <1>1 DEF Moves
  <2>5. \A i \in DOMAIN rayQueue' : rays'[rayQueue'[i]] = Len(shaded'[rayQueue'[i]])
    BY <2>2, <2>4 DEF NextBounce
  <2>6. rays'[worker'[w].pixel] = Len(shaded'[worker'[w].pixel])
    BY <1>1, <2>3, <2>4 DEF NextBounce
  <2>7. QED BY <2>1, <2>4, <2>5, <2>6 DEF NextBounce
<1>6. BouncesInTurn' BY <1>1, Ranges DEF BouncesInTurn, Moves, KeepsRay, Has, InGenerate, InTrace
<1>7. QED BY <1>2, <1>3, <1>4, <1>5, <1>6 DEF RayParts

LEMMA EndRayKeeps == ASSUME RayInv, NEW w \in Workers, TraceEndRay(w) PROVE RayParts'
<1> USE DEF RayInv
<1>1. Moves(w, "end_ray", "load") /\ UNCHANGED <<unseen, rayQueue, shaded>>
  BY TraceEndRayEffect
<1>2. Kernels' BY <1>1, Ranges DEF Kernels, Moves, KeepsRay, Has, InGenerate, InTrace
<1>3. OnePlace' BY <1>1, Ranges DEF OnePlace, Moves, KeepsRay, Has, InGenerate, InTrace
<1>4. OnlyBeforeFence' BY <1>1, Ranges DEF OnlyBeforeFence, Moves, KeepsRay, Has, InGenerate, InTrace
<1>5. NextBounce' BY <1>1, Ranges DEF NextBounce, Moves, KeepsRay, Has, InGenerate, InTrace
<1>6. BouncesInTurn' BY <1>1, Ranges DEF BouncesInTurn, Moves, KeepsRay, Has, InGenerate, InTrace
<1>7. QED BY <1>2, <1>3, <1>4, <1>5, <1>6 DEF RayParts

LEMMA ReflectKeeps == ASSUME RayInv, NEW w \in Workers, TraceReflect(w) PROVE RayParts'
<1> USE DEF RayInv
<1>1. /\ Moves(w, "reflect", "re_fence") /\ KeepsRay(w)
      /\ unseen'[w] # Nothing /\ unseen'[w] = <<worker[w].pixel, worker[w].depth + 1>>
      /\ UNCHANGED <<rayQueue, shaded, alive>>
  BY TraceReflectEffect
<1>2. Kernels' BY <1>1, Ranges DEF Kernels, Moves, KeepsRay, Has, InGenerate, InTrace
<1>3. OnePlace' BY <1>1, Ranges DEF OnePlace, Moves, KeepsRay, Has, InGenerate, InTrace
<1>4. OnlyBeforeFence' BY <1>1, Ranges DEF OnlyBeforeFence, Moves, KeepsRay, Has, InGenerate, InTrace
<1>5. NextBounce'
  <2>1. \A i \in DOMAIN rayQueue' : rays'[rayQueue'[i]] = Len(shaded'[rayQueue'[i]])
    BY <1>1 DEF NextBounce, Moves
  <2>2. unseen'[w][2] = Len(shaded'[worker'[w].pixel])
    BY <1>1 DEF NextBounce, Moves, KeepsRay
  <2>3. \A v \in Workers : v # w => worker'[v] = worker[v] /\ unseen'[v] = unseen[v]
    BY <1>1 DEF Moves
  <2>4. rays' = rays /\ shaded' = shaded /\ worker'[w].at = "re_fence" BY <1>1 DEF Moves
  <2>5. QED BY <1>1, <2>1, <2>2, <2>3, <2>4 DEF NextBounce
<1>6. BouncesInTurn' BY <1>1, Ranges DEF BouncesInTurn, Moves, KeepsRay, Has, InGenerate, InTrace
<1>7. QED BY <1>2, <1>3, <1>4, <1>5, <1>6 DEF RayParts

LEMMA StoreSeenKeeps == ASSUME RayInv, NEW w \in Workers, StoreSeen(w) PROVE RayParts'
<1> USE DEF RayInv
<1>1. /\ unseen[w] # Nothing /\ unseen'[w] = Nothing
      /\ rays'[unseen[w][1]] = unseen[w][2]
      /\ \A p \in TileSlots : p # unseen[w][1] => rays'[p] = rays[p]
      /\ \A v \in Workers : v # w => unseen'[v] = unseen[v]
      /\ UNCHANGED <<rtKernel, rayQueue, alive, worker, shaded>>
  BY StoreSeenEffect
<1>2. Kernels' BY <1>1 DEF Kernels
<1>3. OnePlace' BY <1>1 DEF OnePlace, Has
<1>4. OnlyBeforeFence' BY <1>1 DEF OnlyBeforeFence
<1>5. NextBounce'
  <2> DEFINE p == worker[w].pixel
  <2>1. Has(w) /\ worker[w].at \in {"gen_fence", "re_fence"} /\ unseen[w][1] = p
    BY <1>1 DEF OnlyBeforeFence, Has
  <2>2. rays'[p] = Len(shaded'[p]) BY <1>1, <2>1 DEF NextBounce
  <2>3. \A i \in DOMAIN rayQueue : rayQueue[i] \in TileSlots /\ rayQueue[i] # p
    BY <2>1, Ranges DEF OnePlace
  <2>4. \A v \in Workers : Has(v) /\ v # w => worker[v].pixel \in TileSlots /\ worker[v].pixel # p
    BY <2>1 DEF OnePlace
  <2>5. \A i \in DOMAIN rayQueue' : rays'[rayQueue'[i]] = Len(shaded'[rayQueue'[i]])
    BY <1>1, <2>1, <2>3 DEF NextBounce
  <2>6. \A v \in Workers : Has(v) /\ v # w => rays'[worker[v].pixel] = rays[worker[v].pixel]
    BY <1>1, <2>1, <2>4
  <2>7. QED BY <1>1, <2>1, <2>2, <2>5, <2>6 DEF NextBounce, Has
<1>6. BouncesInTurn' BY <1>1 DEF BouncesInTurn
<1>7. QED BY <1>2, <1>3, <1>4, <1>5, <1>6 DEF RayParts

LEMMA LaunchKeeps == ASSUME RayInv, RtLaunch \/ HostNextKernel PROVE RayParts'
<1> USE DEF RayInv
<1>1. /\ \/ RtLaunch /\ rtKernel = "off" /\ rtKernel' = "generate"
         \/ rtKernel = "generate" /\ rtKernel' = "trace"
         \/ rtKernel = "trace" /\ rtKernel' = "done"
      /\ \A w \in Workers :
           /\ KeepsRay(w)
           /\ worker'[w].at = CASE rtKernel = "off" -> "next"
                                [] rtKernel = "generate" -> "load"
                                [] rtKernel = "trace" -> "out"
      /\ rtKernel # "off" => \A w \in Workers : worker[w].at = "out"
      /\ UNCHANGED <<rays, unseen, rayQueue, alive, shaded>>
  BY LaunchEffect
<1>2. \A w \in Workers : /\ worker[w].at = "out" /\ worker'[w].at \in {"next", "load", "out"}
                         /\ worker'[w].pixel = worker[w].pixel
  BY <1>1 DEF Kernels, KeepsRay
<1>3. Kernels'
  <2>1. CASE rtKernel = "off"
    <3>1. \A w \in Workers : w % RayWorkers = w BY RayAssumption, DivModOf DEF Workers
    <3>2. \A w \in Workers : worker'[w].pixel = w /\ worker'[w].at = "next"
      BY <1>1, <1>2, <2>1 DEF Kernels
    <3>3. rtKernel' = "generate" /\ rayQueue' = <<>> BY <1>1, <2>1 DEF Kernels
    <3>4. QED BY <1>1, <2>1, <3>1, <3>2, <3>3 DEF Kernels, InGenerate
  <2>2. CASE rtKernel = "generate" BY <1>1, <2>2 DEF Kernels, InTrace
  <2>3. CASE rtKernel = "trace" BY <1>1, <2>3 DEF Kernels
  <2>4. QED BY <1>1, <2>1, <2>2, <2>3
<1>4. OnePlace' BY <1>1, <1>2 DEF OnePlace, Has
<1>5. OnlyBeforeFence' BY <1>1, <1>2 DEF OnlyBeforeFence
<1>6. NextBounce' BY <1>1, <1>2 DEF NextBounce
<1>7. BouncesInTurn' BY <1>1 DEF BouncesInTurn
<1>8. QED BY <1>3, <1>4, <1>5, <1>6, <1>7 DEF RayParts

\* The worker puts its pixel in the queue and has it no longer.
LEMMA PutKeepsPlaces ==
  ASSUME RayInv, NEW w \in Workers, worker[w].at \in {"gen_put", "re_put"},
         \A v \in Workers : v # w => worker'[v] = worker[v],
         worker'[w].at \in {"next", "load"},
         Pushed(rayQueue, rayQueue', worker[w].pixel),
         UNCHANGED <<rays, shaded, unseen>>
  PROVE  OnePlace' /\ NextBounce'
<1> USE DEF RayInv
<1> DEFINE p == worker[w].pixel
<1>1. Has(w) /\ p \in TileSlots BY DEF OnePlace, Has
<1>2. \A i \in DOMAIN rayQueue' : \/ i \in DOMAIN rayQueue /\ rayQueue'[i] = rayQueue[i]
                                  \/ i = Len(rayQueue) + 1 /\ rayQueue'[i] = p
  BY Ranges, PushedEntries
<1>3. \A v \in Workers : Has(v)' => v # w /\ Has(v) /\ worker'[v].pixel = worker[v].pixel
  BY DEF Has
<1>4. \A i \in DOMAIN rayQueue : rayQueue[i] # p BY <1>1 DEF OnePlace
<1>5. \A v \in Workers : Has(v)' => worker'[v].pixel # p BY <1>1, <1>3 DEF OnePlace
<1>6. rays[p] = Len(shaded[p]) BY DEF NextBounce
<1>7. OnePlace'
  <2>1. \A i \in DOMAIN rayQueue' : \A v \in Workers :
          Has(v)' => worker'[v].pixel # rayQueue'[i]
    BY <1>2, <1>3, <1>5 DEF OnePlace
  <2>2. \A i, j \in DOMAIN rayQueue' : rayQueue'[i] = rayQueue'[j] => i = j
    BY <1>2, <1>4 DEF OnePlace
  <2>3. QED BY <1>3, <2>1, <2>2 DEF OnePlace
<1>8. NextBounce'
  <2>1. \A i \in DOMAIN rayQueue' : rays'[rayQueue'[i]] = Len(shaded'[rayQueue'[i]])
    BY <1>2, <1>6 DEF NextBounce
  <2>2. QED BY <2>1 DEF NextBounce
<1>9. QED BY <1>7, <1>8

LEMMA RequeueKeeps == ASSUME RayInv, NEW w \in Workers, TraceRequeue(w) PROVE RayParts'
<1> USE DEF RayInv
<1>1. /\ KeepsRay(w)
      /\ \/ Moves(w, "re_put", "load") /\ rayQueue' = Append(rayQueue, worker[w].pixel)
         \/ Moves(w, "re_put", "end_ray") /\ rayQueue' = rayQueue
      /\ UNCHANGED <<unseen, shaded, alive>>
  BY TraceRequeueEffect
<1>2. rtKernel = "trace" BY <1>1 DEF RayType, Kernels, InGenerate, Moves
<1>3. Kernels' BY <1>1, <1>2 DEF Kernels, Moves, InTrace
<1>4. OnlyBeforeFence' BY <1>1 DEF OnlyBeforeFence, Moves
<1>5. BouncesInTurn' BY <1>1 DEF BouncesInTurn
<1>6. OnePlace' /\ NextBounce'
  <2>1. CASE Moves(w, "re_put", "load") /\ rayQueue' = Append(rayQueue, worker[w].pixel)
    <3>1. worker[w].pixel \in TileSlots BY <2>1 DEF OnePlace, Has, Moves
    <3>2. Pushed(rayQueue, rayQueue', worker[w].pixel) BY <2>1, <3>1, AppendPushes DEF RayType
    <3>3. QED BY <1>1, <2>1, <3>2, PutKeepsPlaces DEF Moves
  <2>2. CASE Moves(w, "re_put", "end_ray") /\ rayQueue' = rayQueue
    <3>1. OnePlace' BY <1>1, <2>2 DEF OnePlace, Has, Moves, KeepsRay
    <3>2. NextBounce' BY <1>1, <2>2 DEF NextBounce, Moves, KeepsRay
    <3>3. QED BY <3>1, <3>2
  <2>3. QED BY <1>1, <2>1, <2>2
<1>7. QED BY <1>3, <1>4, <1>5, <1>6 DEF RayParts

\* The stride of k_generate leads from a pixel of the worker to its next.
LEMMA NextPixel ==
  ASSUME NEW b \in Nat \ {0}, NEW x \in Nat
  PROVE  (x + b) % b = x % b
<1>1. PICK q \in Nat, r \in 0 .. b - 1 : q = x \div b /\ r = x % b /\ x = b * q + r
  BY DivMod
<1> DEFINE y == x + b
           p == q + 1
<1>2. y \in Nat /\ p \in Nat /\ y = b * p + r
  <2>1. b * (q + 1) = b * q + b BY Z3
  <2>2. QED BY <1>1, <2>1
<1> HIDE DEF y, p
<1>3. y % b = r BY <1>2, DivModOf
<1>4. QED BY <1>1, <1>3 DEF y

LEMMA GenPutKeeps == ASSUME RayInv, NEW w \in Workers, GenPut(w) PROVE RayParts'
<1> USE DEF RayInv
<1> DEFINE p == worker[w].pixel
<1>1. /\ Moves(w, "gen_put", "next")
      /\ worker'[w].pixel = p + RayWorkers
      /\ rayQueue' = rayQueue \/ rayQueue' = Append(rayQueue, p)
      /\ UNCHANGED <<unseen, shaded, alive>>
  BY GenPutEffect
<1>2. Has(w) /\ p \in TileSlots /\ p \in Nat BY <1>1, Ranges DEF OnePlace, Has, Moves
<1>3. rtKernel = "generate" BY <1>1 DEF RayType, Kernels, InTrace, Moves
<1>4. rayQueue' = rayQueue \/ Pushed(rayQueue, rayQueue', p)
  BY <1>1, <1>2, AppendPushes DEF RayType
<1>5. Kernels'
  <2>1. p % RayWorkers = w BY <1>1, <1>3 DEF Kernels, Moves
  <2>2. worker'[w].pixel % RayWorkers = w BY <1>1, <1>2, <2>1, NextPixel, RayAssumption
  <2>3. p < worker'[w].pixel BY <1>1, <1>2, RayAssumption
  <2>4. \A i \in DOMAIN rayQueue' : \/ i \in DOMAIN rayQueue /\ rayQueue'[i] = rayQueue[i]
                                    \/ rayQueue'[i] = p
    BY <1>4, Ranges, PushedEntries
  <2>5. \A v \in Workers : v # w => worker'[v] = worker[v] BY <1>1 DEF Moves
  <2>6. ASSUME NEW i \in DOMAIN rayQueue', NEW v \in Workers,
               rayQueue'[i] % RayWorkers = v, worker'[v].at # "out"
        PROVE  rayQueue'[i] < worker'[v].pixel
    <3>1. CASE rayQueue'[i] = p BY <2>1, <2>3, <2>6, <3>1
    <3>2. CASE i \in DOMAIN rayQueue /\ rayQueue'[i] = rayQueue[i]
      <4>1. worker[v].at # "out" BY <1>1, <2>5, <2>6 DEF Moves
      <4>2. rayQueue[i] < worker[v].pixel BY <1>3, <2>6, <3>2, <4>1 DEF Kernels
      <4>3. CASE v # w BY <2>5, <3>2, <4>2, <4>3
      <4>4. CASE v = w
        <5>1. rayQueue[i] \in Nat BY <3>2, Ranges DEF TileSlots
        <5>2. QED BY <1>2, <2>3, <3>2, <4>2, <4>4, <5>1, <1>1, RayAssumption
      <4>5. QED BY <4>3, <4>4
    <3>3. QED BY <2>4, <3>1, <3>2
  <2>7. \A v \in Workers : /\ worker'[v].at \in InGenerate
                           /\ worker'[v].at # "out" => worker'[v].pixel % RayWorkers = v
    BY <1>1, <1>3, <2>2, <2>5 DEF Kernels, Moves, InGenerate
  <2>8. rtKernel' = "generate" /\ shaded' = shaded BY <1>1, <1>3 DEF Moves
  <2>9. \A x \in TileSlots : Len(shaded'[x]) = 0 BY <1>3, <2>8 DEF Kernels
  <2>10. QED BY <2>6, <2>7, <2>8, <2>9 DEF Kernels
<1>6. OnePlace' /\ NextBounce'
  <2>1. CASE Pushed(rayQueue, rayQueue', p) BY <1>1, <2>1, PutKeepsPlaces DEF Moves
  <2>2. CASE rayQueue' = rayQueue
    <3>1. OnePlace' BY <1>1, <2>2 DEF OnePlace, Has, Moves
    <3>2. NextBounce' BY <1>1, <2>2 DEF NextBounce, Moves
    <3>3. QED BY <3>1, <3>2
  <2>3. QED BY <1>4, <2>1, <2>2
<1>7. OnlyBeforeFence' BY <1>1 DEF OnlyBeforeFence, Moves
<1>8. BouncesInTurn' BY <1>1 DEF BouncesInTurn
<1>9. QED BY <1>5, <1>6, <1>7, <1>8 DEF RayParts

LEMMA SceneKeeps == ASSUME RayInv, NEW w \in Workers, TraceScene(w) PROVE RayParts'
<1> USE DEF RayInv
<1> DEFINE p == worker[w].pixel
           depth == RayAsSeen(w, p)
<1>1. Has(w) /\ worker[w].at = "trace" /\ p \in TileSlots
  BY DEF TraceScene, OnePlace, Has
<1>2. depth = Len(shaded[p])
  <2>1. unseen[w] = Nothing BY <1>1 DEF OnlyBeforeFence
  <2>2. rays[p] = Len(shaded[p]) BY <1>1 DEF NextBounce
  <2>3. QED BY <2>1, <2>2 DEF RayAsSeen
<1>3. /\ Moves(w, "trace", "reflect") \/ Moves(w, "trace", "end_ray")
      /\ worker'[w].pixel = p /\ worker'[w].depth = depth
      /\ Pushed(shaded[p], shaded'[p], depth)
      /\ \A x \in TileSlots : x # p => shaded'[x] = shaded[x]
      /\ UNCHANGED <<unseen, rayQueue, alive>>
  BY <1>1, TraceSceneEffect
<1> HIDE DEF depth
<1>4. rtKernel = "trace" BY <1>1 DEF RayType, Kernels, InGenerate
<1>5. Kernels' BY <1>3, <1>4 DEF Kernels, Moves, InTrace
<1>6. OnePlace' BY <1>3 DEF OnePlace, Has, Moves
<1>7. OnlyBeforeFence' BY <1>3 DEF OnlyBeforeFence, Moves
<1>8. Len(shaded'[p]) = Len(shaded[p]) + 1 BY <1>3 DEF Pushed
<1>9. NextBounce'
  <2>1. \A i \in DOMAIN rayQueue : rayQueue[i] \in TileSlots /\ rayQueue[i] # p
    BY <1>1, Ranges DEF OnePlace
  <2>2. \A v \in Workers : Has(v) /\ v # w => worker[v].pixel \in TileSlots /\ worker[v].pixel # p
    BY <1>1 DEF OnePlace
  <2>3. rays' = rays /\ \A v \in Workers : v # w => worker'[v] = worker[v]
    BY <1>3 DEF Moves
  <2>4. \A i \in DOMAIN rayQueue' : rays'[rayQueue'[i]] = Len(shaded'[rayQueue'[i]])
    BY <1>3, <2>1, <2>3 DEF NextBounce
  <2>5. \A v \in Workers : Has(v) /\ v # w => shaded'[worker[v].pixel] = shaded[worker[v].pixel]
    BY <1>3, <2>2
  <2>6. worker'[w].depth + 1 = Len(shaded'[p]) BY <1>2, <1>3, <1>8
  <2>7. worker'[w].at \in {"reflect", "end_ray"} /\ worker'[w].pixel = p BY <1>3 DEF Moves
  <2>8. QED BY <1>3, <2>3, <2>4, <2>5, <2>6, <2>7 DEF NextBounce, Has
<1>10. BouncesInTurn'
  <2> SUFFICES ASSUME NEW x \in TileSlots, NEW i \in DOMAIN shaded'[x]
               PROVE  shaded'[x][i] = i - 1
    BY DEF BouncesInTurn
  <2>1. CASE x # p BY <1>3, <2>1 DEF BouncesInTurn
  <2>2. CASE x = p
    <3>1. Len(shaded[p]) \in Nat /\ DOMAIN shaded[p] = 1 .. Len(shaded[p]) BY <1>1, Ranges
    <3>2. \/ i \in 1 .. Len(shaded[p]) /\ shaded'[p][i] = shaded[p][i]
          \/ i = Len(shaded[p]) + 1 /\ shaded'[p][i] = depth
      BY <1>3, <2>2, <3>1, PushedEntries
    <3>3. QED BY <1>1, <1>2, <2>2, <3>1, <3>2 DEF BouncesInTurn
  <2>3. QED BY <2>1, <2>2
<1>11. QED BY <1>5, <1>6, <1>7, <1>9, <1>10 DEF RayParts

LEMMA RayStep == RayInv /\ [RtNext]_rayVars => RayInv'
<1> SUFFICES ASSUME RayInv, [RtNext]_rayVars PROVE RayInv' OBVIOUS
<1>1. ASSUME NEW w \in Workers, RtWorkerStep(w) PROVE RayParts'
  BY <1>1, FenceKeeps, GenStoreKeeps, GenPutKeeps, GenReturnKeeps, LookKeeps, TakeKeeps,
     SceneKeeps, ReflectKeeps, RequeueKeeps, EndRayKeeps DEF RtWorkerStep
<1>2. RtNext => RayParts'
  BY <1>1, StoreSeenKeeps, LaunchKeeps DEF RtNext, RtStep
<1>3. CASE RtNext BY <1>2, <1>3, TypeStep DEF RayInv, RayParts
<1>4. CASE UNCHANGED rayVars
  <2> USE <1>4 DEF RayInv, rayVars
  <2>1. RayType' /\ Kernels' BY DEF RayType, Kernels
  <2>2. OnePlace' /\ OnlyBeforeFence' BY DEF OnePlace, Has, OnlyBeforeFence
  <2>3. NextBounce' /\ BouncesInTurn' BY DEF NextBounce, BouncesInTurn
  <2>4. QED BY <2>1, <2>2, <2>3
<1>5. QED BY <1>3, <1>4

\* Every bounce of every ray is traced once, and with what the bounce before it stored,
\* for any number of workers: between its store and its enqueue a worker has waited
\* for the fence, and a pixel is once in the queue or in one worker's hands.
THEOREM BouncesAreInTurn == RtSpec => []BouncesInTurn
<1>1. RtInit => RayInv BY RayInit
<1>2. RayInv => BouncesInTurn BY DEF RayInv
<1>3. QED BY <1>1, <1>2, RayStep, PTL DEF RtSpec, RtNext

-----------------------------------------------------------------------------
(***************************************************************************)
(* alive counts the rays                                                   *)
(***************************************************************************)

\* Each pixel belongs to one worker of k_generate, who enqueues it and counts it.  When
\* the worker returns, it adds its count to alive.
Owner(p) == p % RayWorkers
Of(w) == {i \in DOMAIN rayQueue : Owner(rayQueue[i]) = w}
Returned == {i \in DOMAIN rayQueue : worker[Owner(rayQueue[i])].at = "out"}
Holders == {w \in Workers : HoldsRay(w)}

Counting ==
  /\ rtKernel = "generate" =>
       /\ \A w \in Workers : worker[w].at # "out" => worker[w].count = Cardinality(Of(w))
       /\ alive = Cardinality(Returned)
  /\ rtKernel = "trace" => alive = Len(rayQueue) + Cardinality(Holders)

LEMMA WorkersFinite == IsFiniteSet(Workers)
<1>1. 0 \in Int /\ RayWorkers - 1 \in Int BY RayAssumption
<1>2. QED BY <1>1, FS_Interval DEF Workers

LEMMA OwnerIsWorker == ASSUME NEW p \in Nat PROVE Owner(p) \in Workers
BY RayAssumption, DivMod DEF Owner, Workers

LEMMA OwnersAreWorkers ==
  ASSUME RayInv
  PROVE  \A i \in DOMAIN rayQueue : Owner(rayQueue[i]) \in Workers
<1>1. \A i \in DOMAIN rayQueue : rayQueue[i] \in Nat BY Ranges DEF RayInv, TileSlots
<1>2. QED BY <1>1, OwnerIsWorker

\* The queue has no pixel twice, so it is no longer than the tile.
LEMMA QueueBounded ==
  ASSUME RayInv
  PROVE  /\ IsFiniteSet(DOMAIN rayQueue) /\ Cardinality(DOMAIN rayQueue) = Len(rayQueue)
         /\ Len(rayQueue) < AliveMod
<1> USE DEF RayInv
<1>1. DOMAIN rayQueue = 1 .. Len(rayQueue) /\ Len(rayQueue) \in Nat BY Ranges
<1>2. IsFiniteSet(DOMAIN rayQueue) /\ Cardinality(DOMAIN rayQueue) = Len(rayQueue)
  <2> DEFINE n == Len(rayQueue)
  <2>1. 1 \in Int /\ n \in Int /\ n \in Nat BY <1>1
  <2> HIDE DEF n
  <2>2. IsFiniteSet(1 .. n) /\ Cardinality(1 .. n) = IF 1 > n THEN 0 ELSE n - 1 + 1
    BY <2>1, FS_Interval
  <2>3. Cardinality(1 .. n) = n BY <2>1, <2>2
  <2>4. QED BY <1>1, <2>2, <2>3 DEF n
<1>3. IsFiniteSet(TileSlots) /\ Cardinality(TileSlots) = TilePixels
  <2>1. 0 \in Int /\ TilePixels - 1 \in Int /\ TilePixels \in Nat BY RayAssumption
  <2>2. QED BY <2>1, FS_Interval DEF TileSlots
<1>4. rayQueue \in Injection(DOMAIN rayQueue, TileSlots)
  <2>1. rayQueue \in [DOMAIN rayQueue -> TileSlots] BY <1>1 DEF RayType
  <2>2. QED BY <2>1 DEF Injection, IsInjective, OnePlace
<1>5. Len(rayQueue) <= TilePixels BY <1>2, <1>3, <1>4, FS_Injection
<1>6. QED BY <1>1, <1>2, <1>5, RayAssumption

LEMMA SmallMod ==
  ASSUME NEW b \in Nat \ {0}, NEW x \in 0 .. b - 1
  PROVE  x % b = x
<1>1. b * 0 = 0 BY Z3
<1>2. 0 \in Nat /\ x \in Nat /\ x = b * 0 + x BY <1>1
<1>3. QED BY <1>2, DivModOf

LEMMA OneLess ==
  ASSUME NEW b \in Nat \ {0}, NEW x \in 1 .. b - 1
  PROVE  (x + b - 1) % b = x - 1
<1> DEFINE y == x + b - 1
           r == x - 1
<1>1. b * 1 = b BY Z3
<1>2. 1 \in Nat /\ y \in Nat /\ r \in 0 .. b - 1 /\ y = b * 1 + r BY <1>1
<1> HIDE DEF y, r
<1>3. y % b = r BY <1>2, DivModOf
<1>4. QED BY <1>3 DEF y, r

\* A worker that moves in k_generate and is not yet out changes no count but its own.
LEMMA GenerateCounts ==
  ASSUME RayInv, Counting, NEW w \in Workers, worker[w].at \in {"next", "gen_fence", "gen_put"},
         worker'[w].at # "out", worker'[w].count = worker[w].count,
         \A v \in Workers : v # w => worker'[v] = worker[v],
         UNCHANGED <<rtKernel, rayQueue, alive>>
  PROVE  Counting'
<1> USE DEF RayInv
<1>1. rtKernel = "generate" BY DEF RayType, Kernels, InTrace
<1>2. \A i \in DOMAIN rayQueue : Owner(rayQueue[i]) \in Workers BY OwnersAreWorkers
<1>3. Returned' = Returned BY <1>2 DEF Returned
<1>4. \A v \in Workers : Of(v)' = Of(v) BY DEF Of
<1>5. alive' = Cardinality(Returned') BY <1>1, <1>3 DEF Counting
<1>6. ASSUME NEW v \in Workers, worker'[v].at # "out"
      PROVE  worker'[v].count = Cardinality(Of(v)')
  BY <1>1, <1>4, <1>6 DEF Counting
<1>7. QED BY <1>1, <1>5, <1>6 DEF Counting

LEMMA GenPutCounts == ASSUME RayInv, Counting, NEW w \in Workers, GenPut(w) PROVE Counting'
<1> USE DEF RayInv
<1> DEFINE p == worker[w].pixel
           n == Len(rayQueue) + 1
<1>1. /\ Moves(w, "gen_put", "next")
      /\ \/ rayQueue' = rayQueue /\ worker'[w].count = worker[w].count
         \/ /\ rayQueue' = Append(rayQueue, p)
            /\ worker'[w].count = worker[w].count + 1
      /\ UNCHANGED <<unseen, shaded, alive>>
  BY GenPutEffect
<1>2. rtKernel = "generate" /\ rtKernel' = "generate" /\ p \in TileSlots
  BY <1>1 DEF RayType, Kernels, InTrace, Moves, OnePlace, Has
<1>3. CASE rayQueue' = rayQueue /\ worker'[w].count = worker[w].count
  BY <1>1, <1>3, GenerateCounts DEF Moves
<1>4. CASE rayQueue' = Append(rayQueue, p) /\ worker'[w].count = worker[w].count + 1
  <2>1. Pushed(rayQueue, rayQueue', p) BY <1>2, <1>4, AppendPushes DEF RayType
  <2>2. /\ DOMAIN rayQueue' = DOMAIN rayQueue \cup {n} /\ n \notin DOMAIN rayQueue
        /\ \A i \in DOMAIN rayQueue : rayQueue'[i] = rayQueue[i]
        /\ rayQueue'[n] = p
    BY <2>1, Ranges DEF Pushed
  <2>3. Owner(p) = w BY <1>1, <1>2 DEF Kernels, Moves, Owner
  <2>4. \A v \in Workers : v # w => worker'[v] = worker[v] BY <1>1 DEF Moves
  <2>5. worker[w].at # "out" /\ worker'[w].at # "out" BY <1>1 DEF Moves
  <2>6. \A i \in DOMAIN rayQueue : Owner(rayQueue[i]) \in Workers BY OwnersAreWorkers
  <2>7. Of(w)' = Of(w) \cup {n} BY <2>2, <2>3 DEF Of
  <2>8. \A v \in Workers : v # w => Of(v)' = Of(v) BY <2>2, <2>3 DEF Of
  <2>9. Returned' = Returned BY <2>2, <2>3, <2>4, <2>5, <2>6 DEF Returned
  <2>10. IsFiniteSet(Of(w)) /\ n \notin Of(w)
    <3>1. Of(w) \subseteq DOMAIN rayQueue BY DEF Of
    <3>2. QED BY <2>2, <3>1, QueueBounded, FS_Subset
  <2>11. Cardinality(Of(w)') = Cardinality(Of(w)) + 1 BY <2>7, <2>10, FS_AddElement
  <2>12. worker'[w].count = Cardinality(Of(w)') BY <1>2, <1>4, <2>5, <2>11 DEF Counting
  <2>13. ASSUME NEW v \in Workers, worker'[v].at # "out"
         PROVE  worker'[v].count = Cardinality(Of(v)')
    BY <1>2, <2>4, <2>8, <2>12, <2>13 DEF Counting
  <2>14. alive' = Cardinality(Returned') BY <1>1, <1>2, <2>9 DEF Counting
  <2>15. QED BY <1>2, <2>13, <2>14 DEF Counting
<1>5. QED BY <1>1, <1>3, <1>4

LEMMA GenReturnCounts == ASSUME RayInv, Counting, NEW w \in Workers, GenReturn(w) PROVE Counting'
<1> USE DEF RayInv
<1>1. /\ Moves(w, "next", "out")
      /\ alive' = (alive + worker[w].count) % AliveMod
      /\ UNCHANGED <<unseen, rayQueue, shaded>>
  BY GenReturnEffect
<1>2. rtKernel = "generate" /\ rtKernel' = "generate"
  BY <1>1 DEF RayType, Kernels, InTrace, Moves
<1>3. \A v \in Workers : v # w => worker'[v] = worker[v] BY <1>1 DEF Moves
<1>4. worker[w].at = "next" /\ worker'[w].at = "out" BY <1>1 DEF Moves
<1>5. \A i \in DOMAIN rayQueue : Owner(rayQueue[i]) \in Workers BY OwnersAreWorkers
<1>6. Returned' = Returned \cup Of(w) BY <1>1, <1>3, <1>4, <1>5 DEF Returned, Of
<1>7. Returned \cap Of(w) = {} BY <1>4 DEF Returned, Of
<1>8. Returned \subseteq DOMAIN rayQueue /\ Of(w) \subseteq DOMAIN rayQueue BY DEF Returned, Of
<1>9. IsFiniteSet(Returned) /\ IsFiniteSet(Of(w)) BY <1>8, QueueBounded, FS_Subset
<1>10. Cardinality(Returned) \in Nat /\ Cardinality(Of(w)) \in Nat
  BY <1>9, FS_CardinalityType
<1>11. Cardinality(Returned') = Cardinality(Returned) + Cardinality(Of(w))
  BY <1>6, <1>7, <1>9, <1>10, FS_Union, FS_EmptySet
<1>12. Cardinality(Returned') < AliveMod
  <2>1. Returned' \subseteq DOMAIN rayQueue BY <1>6, <1>8
  <2>2. Cardinality(Returned') <= Len(rayQueue) BY <2>1, QueueBounded, FS_Subset
  <2>3. QED BY <1>10, <1>11, <2>2, QueueBounded, Ranges, RayAssumption
<1>13. alive' = Cardinality(Returned')
  <2>1. alive' = (Cardinality(Returned) + Cardinality(Of(w))) % AliveMod
    BY <1>1, <1>2, <1>4 DEF Counting
  <2>2. alive' = Cardinality(Returned') % AliveMod BY <1>11, <2>1
  <2>3. AliveMod \in Nat \ {0} /\ Cardinality(Returned') \in 0 .. AliveMod - 1
    BY <1>10, <1>11, <1>12, RayAssumption
  <2>4. QED BY <2>2, <2>3, SmallMod
<1>14. ASSUME NEW v \in Workers, worker'[v].at # "out"
       PROVE  worker'[v].count = Cardinality(Of(v)')
  <2>1. v # w BY <1>4, <1>14
  <2>2. Of(v)' = Of(v) BY <1>1 DEF Of
  <2>3. QED BY <1>2, <1>3, <1>14, <2>1, <2>2 DEF Counting
<1>15. QED BY <1>2, <1>13, <1>14 DEF Counting

-----------------------------------------------------------------------------
Holding == {"trace", "reflect", "re_fence", "re_put", "end_ray"}

\* One more holder when a worker takes a ray, one less when it parts with it.
LEMMA HoldersMove ==
  ASSUME RayInv, NEW w \in Workers, NEW from, NEW to, Moves(w, from, to)
  PROVE  /\ Cardinality(Holders) \in Nat
         /\ from \in Holding <=> w \in Holders
         /\ Cardinality(Holders') = IF to \in Holding
              THEN IF from \in Holding THEN Cardinality(Holders) ELSE Cardinality(Holders) + 1
              ELSE IF from \in Holding THEN Cardinality(Holders) - 1 ELSE Cardinality(Holders)
         /\ from \in Holding => Cardinality(Holders) # 0
<1>1. Holders \subseteq Workers BY DEF Holders
<1>2. IsFiniteSet(Holders) BY <1>1, WorkersFinite, FS_Subset
<1>3. from \in Holding <=> w \in Holders BY DEF Moves, Holders, HoldsRay, Holding
<1>4. CASE to \in Holding
  <2>1. Holders' = Holders \cup {w} BY <1>4 DEF Moves, Holders, HoldsRay, Holding
  <2>2. QED BY <1>2, <1>3, <1>4, <2>1, FS_AddElement, FS_CardinalityType, FS_EmptySet
<1>5. CASE to \notin Holding
  <2>1. Holders' = Holders \ {w} BY <1>5 DEF Moves, Holders, HoldsRay, Holding
  <2>2. QED BY <1>2, <1>3, <1>5, <2>1, FS_RemoveElement, FS_CardinalityType, FS_EmptySet
<1>6. QED BY <1>4, <1>5

\* A step in k_trace by which what the queue and alive gain is what the holders lose.
LEMMA TraceCounts ==
  ASSUME RayInv, Counting, NEW w \in Workers, NEW from, NEW to, Moves(w, from, to),
         rtKernel = "trace",
         alive' - Len(rayQueue') + (IF from \in Holding THEN 1 ELSE 0)
           = alive - Len(rayQueue) + (IF to \in Holding THEN 1 ELSE 0),
         alive' \in Int, Len(rayQueue') \in Int
  PROVE  Counting'
<1>1. Cardinality(Holders') = IF to \in Holding
        THEN IF from \in Holding THEN Cardinality(Holders) ELSE Cardinality(Holders) + 1
        ELSE IF from \in Holding THEN Cardinality(Holders) - 1 ELSE Cardinality(Holders)
  BY HoldersMove
<1>2. alive = Len(rayQueue) + Cardinality(Holders) BY DEF Counting
<1>3. Cardinality(Holders) \in Nat /\ Len(rayQueue) \in Nat BY HoldersMove, Ranges DEF RayInv
<1>4. rtKernel' = "trace" BY DEF Moves
<1>5. alive' = Len(rayQueue') + Cardinality(Holders') BY <1>1, <1>2, <1>3
<1>6. QED BY <1>4, <1>5 DEF Counting

LEMMA TraceStepCounts ==
  ASSUME RayInv, Counting, NEW w \in Workers,
         \/ Threadfence(w) /\ worker[w].at = "re_fence"
         \/ TraceLoadAlive(w) \/ TraceEmpty(w) \/ TraceTake(w) \/ TraceScene(w)
         \/ TraceReflect(w) \/ TraceRequeue(w) \/ TraceEndRay(w)
  PROVE  Counting'
<1> USE DEF RayInv
<1>1. worker[w].at \in InTrace \ {"out"}
  BY DEF TraceLoadAlive, TraceEmpty, TraceTake, TraceScene, TraceReflect, TraceRequeue,
         TraceEndRay, InTrace
<1>2. rtKernel = "trace" BY <1>1 DEF RayType, Kernels, InGenerate, InTrace
<1>3. alive \in Nat /\ Len(rayQueue) \in Nat BY Ranges DEF RayType
<1>4. CASE Threadfence(w) /\ worker[w].at = "re_fence"
  <2>1. Moves(w, "re_fence", "re_put") /\ UNCHANGED <<rayQueue, alive>>
    BY <1>4, FenceEffect DEF Moves
  <2>2. QED BY <1>2, <1>3, <2>1, TraceCounts DEF Holding
<1>5. CASE TraceLoadAlive(w) \/ TraceEmpty(w)
  <2>1. /\ Moves(w, "load", "out") \/ Moves(w, "load", "take") \/ Moves(w, "take", "load")
        /\ UNCHANGED <<rayQueue, alive>>
    BY <1>5, LookEffect
  <2>2. QED BY <1>2, <1>3, <2>1, TraceCounts DEF Holding
<1>6. CASE TraceTake(w)
  <2>1. Moves(w, "take", "trace") /\ Len(rayQueue') = Len(rayQueue) - 1 /\ alive' = alive
    BY <1>6, TraceTakeEffect
  <2>2. QED BY <1>2, <1>3, <2>1, TraceCounts DEF Holding
<1>7. CASE TraceScene(w)
  <2>1. worker[w].pixel \in TileSlots BY <1>7 DEF TraceScene, OnePlace, Has
  <2>2. /\ Moves(w, "trace", "reflect") \/ Moves(w, "trace", "end_ray")
        /\ UNCHANGED <<rayQueue, alive>>
    BY <1>7, <2>1, TraceSceneEffect
  <2>3. QED BY <1>2, <1>3, <2>2, TraceCounts DEF Holding
<1>8. CASE TraceReflect(w)
  <2>1. Moves(w, "reflect", "re_fence") /\ UNCHANGED <<rayQueue, alive>>
    BY <1>8, TraceReflectEffect
  <2>2. QED BY <1>2, <1>3, <2>1, TraceCounts DEF Holding
<1>9. CASE TraceRequeue(w)
  <2>1. /\ \/ Moves(w, "re_put", "load") /\ rayQueue' = Append(rayQueue, worker[w].pixel)
           \/ Moves(w, "re_put", "end_ray") /\ rayQueue' = rayQueue
        /\ alive' = alive
    BY <1>9, TraceRequeueEffect
  <2>2. worker[w].pixel \in TileSlots BY <1>9 DEF TraceRequeue, OnePlace, Has
  <2>3. rayQueue' = Append(rayQueue, worker[w].pixel) => Len(rayQueue') = Len(rayQueue) + 1
    BY <2>2, AppendPushes DEF Pushed, RayType
  <2>4. CASE Moves(w, "re_put", "load") /\ rayQueue' = Append(rayQueue, worker[w].pixel)
    BY <1>2, <1>3, <2>1, <2>3, <2>4, TraceCounts, SMTT(30) DEF Holding
  <2>5. CASE Moves(w, "re_put", "end_ray") /\ rayQueue' = rayQueue
    BY <1>2, <1>3, <2>1, <2>5, TraceCounts, SMTT(30) DEF Holding
  <2>6. QED BY <2>1, <2>4, <2>5
<1>10. CASE TraceEndRay(w)
  <2>1. /\ Moves(w, "end_ray", "load") /\ rayQueue' = rayQueue
        /\ alive' = (alive + AliveMod - 1) % AliveMod
    BY <1>10, TraceEndRayEffect
  <2>2. Cardinality(Holders) \in Nat /\ Cardinality(Holders) # 0
    BY <2>1, HoldersMove DEF Holding
  <2>3. alive = Len(rayQueue) + Cardinality(Holders) BY <1>2 DEF Counting
  <2>4. AliveMod \in Nat \ {0} /\ alive \in 1 .. AliveMod - 1
    BY <1>3, <2>2, <2>3, RayAssumption DEF RayType
  <2>5. alive' = alive - 1 BY <2>1, <2>4, OneLess
  <2>6. QED BY <1>2, <1>3, <2>1, <2>5, TraceCounts DEF Holding
<1>11. QED BY <1>4, <1>5, <1>6, <1>7, <1>8, <1>9, <1>10

LEMMA LaunchCounts == ASSUME RayInv, Counting, RtLaunch \/ HostNextKernel PROVE Counting'
<1> USE DEF RayInv
<1>1. /\ \/ RtLaunch /\ rtKernel = "off" /\ rtKernel' = "generate"
         \/ rtKernel = "generate" /\ rtKernel' = "trace"
         \/ rtKernel = "trace" /\ rtKernel' = "done"
      /\ \A w \in Workers :
           /\ KeepsRay(w)
           /\ worker'[w].at = CASE rtKernel = "off" -> "next"
                                [] rtKernel = "generate" -> "load"
                                [] rtKernel = "trace" -> "out"
      /\ rtKernel # "off" => \A w \in Workers : worker[w].at = "out"
      /\ UNCHANGED <<rays, unseen, rayQueue, alive, shaded>>
  BY LaunchEffect
<1>2. CASE rtKernel = "off"
  <2>1. rayQueue' = <<>> /\ alive' = 0 /\ \A w \in Workers : worker'[w].count = 0
    BY <1>1, <1>2 DEF Kernels, KeepsRay
  <2>2. Returned' = {} /\ \A w \in Workers : Of(w)' = {} BY <2>1 DEF Returned, Of
  <2>3. QED BY <1>1, <1>2, <2>1, <2>2, FS_EmptySet DEF Counting
<1>3. CASE rtKernel = "generate"
  <2>1. \A i \in DOMAIN rayQueue : Owner(rayQueue[i]) \in Workers BY OwnersAreWorkers
  <2>2. Returned = DOMAIN rayQueue BY <1>1, <1>3, <2>1 DEF Returned
  <2>3. alive = Len(rayQueue) BY <1>3, <2>2, QueueBounded DEF Counting
  <2>4. Holders' = {} BY <1>1, <1>3 DEF Holders, HoldsRay
  <2>5. alive' = Len(rayQueue') + Cardinality(Holders')
    BY <1>1, <2>3, <2>4, FS_EmptySet, Ranges
  <2>6. QED BY <1>1, <1>3, <2>5 DEF Counting
<1>4. CASE rtKernel = "trace" BY <1>1, <1>4 DEF Counting
<1>5. QED BY <1>1, <1>2, <1>3, <1>4

LEMMA StillCounts ==
  ASSUME Counting, UNCHANGED <<rtKernel, rayQueue, alive, worker>>
  PROVE  Counting'
<1>1. Returned' = Returned /\ Holders' = Holders BY DEF Returned, Holders, HoldsRay
<1>2. \A w \in Workers : Of(w)' = Of(w) BY DEF Of
<1>3. QED BY <1>1, <1>2 DEF Counting

LEMMA CountStep == ASSUME RayInv, Counting, RtNext PROVE Counting'
<1>1. ASSUME NEW w \in Workers, RtWorkerStep(w) PROVE Counting'
  <2>1. CASE Threadfence(w)
    <3>1. CASE worker[w].at = "re_fence" BY <2>1, <3>1, TraceStepCounts
    <3>2. CASE worker[w].at = "gen_fence"
      <4>1. Moves(w, "gen_fence", "gen_put") /\ KeepsRay(w) /\ UNCHANGED <<rayQueue, alive>>
        BY <2>1, <3>2, FenceEffect DEF Moves, RayInv
      <4>2. QED BY <4>1, GenerateCounts DEF Moves, KeepsRay
    <3>3. QED BY <2>1, <3>1, <3>2 DEF Threadfence
  <2>2. CASE GenStore(w)
    <3>1. Moves(w, "next", "gen_fence") /\ KeepsRay(w) /\ UNCHANGED <<rayQueue, alive>>
      BY <2>2, GenStoreEffect DEF RayInv
    <3>2. QED BY <3>1, GenerateCounts DEF Moves, KeepsRay
  <2>3. QED BY <1>1, <2>1, <2>2, GenPutCounts, GenReturnCounts, TraceStepCounts
            DEF RtWorkerStep
<1>2. ASSUME NEW w \in Workers, StoreSeen(w) PROVE Counting'
  BY <1>2, StillCounts DEF StoreSeen
<1>3. QED BY <1>1, <1>2, LaunchCounts DEF RtNext, RtStep

\* alive is the number of rays in the queue and in the hands of workers all through
\* k_trace, for any number of workers and pixels, whichever enqueues the queue refuses:
\* no worker leaves, on seeing alive = 0, while there is a ray to trace.
THEOREM AliveCountsRays == RtSpec => []RaysCounted
<1>1. RtInit => RayInv /\ Counting
  <2>1. RtInit => Counting BY DEF RtInit, Counting
  <2>2. QED BY <2>1, RayInit
<1>2. RayInv /\ Counting /\ [RtNext]_rayVars => (RayInv /\ Counting)'
  <2>1. ASSUME RayInv, Counting, UNCHANGED rayVars PROVE Counting'
    BY <2>1, StillCounts DEF rayVars
  <2>2. QED BY <2>1, CountStep, RayStep
<1>3. Counting => RaysCounted BY DEF Counting, RaysCounted, Holders
<1>4. QED BY <1>1, <1>2, <1>3, PTL DEF RtSpec, RtNext

-----------------------------------------------------------------------------
(***************************************************************************)
(* The FIFO check                                                          *)
(***************************************************************************)
Words == {fifo_make_token(t, i) : t \in Tids, i \in Nat} \cup Garbage

Stages == {"off", "produce", "drain", "verify", "done"}
Places == {"out", "produce", "poll", "dequeue", "ticket", "tally", "order"}

CheckType ==
  /\ checkStage \in Stages
  /\ tokens \in Seq(Words)
  /\ checker \in [Tids -> [at : Places, i : Nat, token : Words \cup {0}]]
  /\ counts \in [Tids -> [Seqs -> Nat]]
  /\ DOMAIN errors = {"oob", "dup", "order", "missing", "gt1"}
  /\ verified \in BOOLEAN

\* No word is counted that did not go into the queue, on its way to the counts:
\* in the queue, in a thread's hand, in the counts.
QueuedEntered == \A i \in DOMAIN tokens : fifo_decode_token(tokens[i]) \in entered
HeldEntered ==
  \A t \in Tids : checker[t].at \in {"ticket", "tally", "order"} =>
                    fifo_decode_token(checker[t].token) \in entered
CountedEntered ==
  \A t \in Tids, s \in Seqs : counts[t][s] # 0 => [ptid |-> t, seq |-> s] \in entered

\* The counts stand still once the host has looked at them.
KernelsOver == checkStage \in {"verify", "done"} => AllOut
MissingCounted ==
  checkStage \in {"verify", "done"} => errors.missing = Cardinality(Slots({0}))
VerdictFollows == verified => checkStage = "done" /\ errors.missing = 0

FcInv ==
  /\ CheckType
  /\ QueuedEntered /\ HeldEntered /\ CountedEntered
  /\ KernelsOver /\ MissingCounted /\ VerdictFollows

-----------------------------------------------------------------------------
LEMMA OpsEachInt == OpsEach \in Int
<1> DEFINE capOps == CheckCapacity \div CheckThreads
           a == Max({1, FIFO_OPS_PER_THREAD})
           b == Min({a, capOps, SEQ_MASK})
           c == Max({1, b})
<1>1. capOps \in Int BY CheckAssumption
<1>2. SEQ_MASK \in Int BY CheckAssumption DEF SEQ_MASK
<1>3. a \in {1, FIFO_OPS_PER_THREAD} BY CheckAssumption DEF Max
<1>4. a \in Int BY <1>3, CheckAssumption
<1>5. b \in {a, capOps, SEQ_MASK}
  <2> HIDE DEF a, capOps
  <2>1. \E x \in {a, capOps, SEQ_MASK} : \A y \in {a, capOps, SEQ_MASK} : x <= y
    BY <1>1, <1>2, <1>4, SMT
  <2> QED BY <2>1 DEF Min
<1>6. b \in Int BY <1>1, <1>2, <1>4, <1>5
<1>7. c \in {1, b}
  <2> HIDE DEF b
  <2>1. \E x \in {1, b} : \A y \in {1, b} : x >= y BY <1>6
  <2> QED BY <2>1 DEF Max
<1>8. c \in Int BY <1>6, <1>7
<1>9. OpsEach = IF capOps = 0 \/ CheckThreads > 2 ^ TID_BITS THEN 0 ELSE c
  BY DEF OpsEach, fifo_effective_ops_per_thread
<1> HIDE DEF c
<1> QED BY <1>8, <1>9

LEMMA SlotsFinite == ASSUME NEW n PROVE IsFiniteSet(Slots(n))
<1>1. IsFiniteSet(Tids) BY CheckAssumption, FS_Interval DEF Tids
<1>2. IsFiniteSet(Seqs) BY OpsEachInt, FS_Interval DEF Seqs
<1>3. IsFiniteSet(Tids \X Seqs) BY <1>1, <1>2, FS_Product
<1>4. Slots(n) \subseteq Tids \X Seqs BY DEF Slots
<1> QED BY <1>3, <1>4, FS_Subset

\* A decoded word is a pair of a thread and a number.
LEMMA DecodedPair ==
  ASSUME NEW w
  PROVE  LET d == fifo_decode_token(w) IN d = [ptid |-> d.ptid, seq |-> d.seq]
BY DEF fifo_decode_token

-----------------------------------------------------------------------------

LEMMA CheckInit == FcInit => FcInv
<1> SUFFICES ASSUME FcInit PROVE FcInv OBVIOUS
<1> USE DEF FcInit
<1>1. CheckType
  <2>1. tokens \in Seq(Words) BY DEF CheckType
  <2>2. checker \in [Tids -> [at : Places, i : Nat, token : Words \cup {0}]] BY DEF Places
  <2>3. counts \in [Tids -> [Seqs -> Nat]] OBVIOUS
  <2>4. DOMAIN errors = {"oob", "dup", "order", "missing", "gt1"} OBVIOUS
  <2> QED BY <2>1, <2>2, <2>3, <2>4 DEF CheckType, Stages
<1>2. QueuedEntered BY DEF QueuedEntered
<1>3. HeldEntered BY DEF HeldEntered
<1>4. CountedEntered BY DEF CountedEntered
<1>5. KernelsOver /\ MissingCounted /\ VerdictFollows
  BY DEF KernelsOver, MissingCounted, VerdictFollows
<1> QED BY <1>1, <1>2, <1>3, <1>4, <1>5 DEF FcInv

\* The threads of a kernel.  They run before the host looks at the counts.
LEMMA KernelRuns ==
  ASSUME FcInv, NEW t \in Tids, checker[t].at # "out"
  PROVE  checkStage \notin {"verify", "done"} /\ ~verified
BY DEF FcInv, KernelsOver, VerdictFollows, AllOut, CheckType

LEMMA EnqueueKeeps == ASSUME FcInv, NEW t \in Tids, FcEnqueue(t) PROVE FcInv'
<1> USE DEF FcInv
<1>1. checkStage \notin {"verify", "done"} /\ ~verified BY KernelRuns DEF FcEnqueue
<1> DEFINE tok == fifo_make_token(t, checker[t].i)
<1>2. PICK words \in Added(tok) :
        /\ tokens' = tokens \o words
        /\ entered' = entered \cup {fifo_decode_token(words[i]) : i \in DOMAIN words}
  BY DEF FcEnqueue
<1>3. checker[t].i \in Nat BY DEF CheckType
<1>4. tok \in Words BY <1>3 DEF Words
<1>5. words \in Seq(Words)
  <2> HIDE DEF tok
  <2>1. words \in {<<tok>>, <<>>, <<tok, tok>>} \/ \E g \in Garbage : words = <<g>>
    BY DEF Added
  <2>2. \A g \in Garbage : g \in Words BY DEF Words
  <2>3. \A w \in Words : <<w>> \in Seq(Words) /\ <<w, w>> \in Seq(Words) OBVIOUS
  <2>4. <<>> \in Seq(Words) OBVIOUS
  <2> QED BY <1>4, <2>1, <2>2, <2>3, <2>4
<1>6. \A k \in DOMAIN tokens' : (k \in DOMAIN tokens /\ tokens'[k] = tokens[k])
                                \/ \E i \in DOMAIN words : tokens'[k] = words[i]
  <2> HIDE DEF tok
  <2> SUFFICES ASSUME NEW k \in DOMAIN tokens', k \notin DOMAIN tokens
               PROVE  \E i \in DOMAIN words : tokens'[k] = words[i]
    BY <1>2, <1>5 DEF CheckType
  <2>1. k - Len(tokens) \in DOMAIN words /\ tokens'[k] = words[k - Len(tokens)]
    BY <1>2, <1>5 DEF CheckType
  <2> QED BY <2>1
<1>7. CheckType'
  <2> HIDE DEF tok
  <2>1. tokens' \in Seq(Words) BY <1>2, <1>5 DEF CheckType
  <2>2. checker' \in [Tids -> [at : Places, i : Nat, token : Words \cup {0}]]
    <3>1. checker' = [checker EXCEPT ![t].i = @ + 1] BY DEF FcEnqueue
    <3> DEFINE Locals == [at : Places, i : Nat, token : Words \cup {0}]
    <3>2. checker \in [Tids -> Locals] BY DEF CheckType
    <3>3. checker[t].i + 1 \in Nat BY <1>3
    <3>4. \A r \in Locals, n \in Nat : [r EXCEPT !.i = n] \in Locals OBVIOUS
    <3>5. [checker[t] EXCEPT !.i = @ + 1] \in Locals BY <3>2, <3>3, <3>4
    <3> QED BY <3>1, <3>2, <3>5
  <2>3. UNCHANGED <<checkStage, counts, errors, verified>> BY DEF FcEnqueue, tallies
  <2> QED BY <2>1, <2>2, <2>3 DEF CheckType
<1>8. QueuedEntered'
  <2> HIDE DEF tok
  <2> QED BY <1>2, <1>6 DEF QueuedEntered
<1>9. HeldEntered' BY <1>2 DEF HeldEntered, FcEnqueue, CheckType
<1>10. CountedEntered' BY <1>2 DEF CountedEntered, FcEnqueue, tallies
<1>11. (KernelsOver /\ MissingCounted /\ VerdictFollows)'
  BY <1>1 DEF KernelsOver, MissingCounted, VerdictFollows, FcEnqueue, tallies
<1> QED BY <1>7, <1>8, <1>9, <1>10, <1>11

\* A step that only moves a thread, to where it holds no token it held not before.
LEMMA MoveKeeps ==
  ASSUME FcInv, NEW t \in Tids, NEW p \in Places, checker[t].at # "out",
         checker' = [checker EXCEPT ![t].at = p],
         p \in {"ticket", "tally", "order"} => checker[t].at \in {"ticket", "tally", "order"},
         UNCHANGED <<checkStage, tokens, counts, entered, verified>>,
         DOMAIN errors' = DOMAIN errors
  PROVE  CheckType' /\ QueuedEntered' /\ HeldEntered' /\ CountedEntered'
         /\ (KernelsOver /\ MissingCounted /\ VerdictFollows)'
<1> USE DEF FcInv
<1>1. checkStage \notin {"verify", "done"} /\ ~verified BY KernelRuns
<1>2. CheckType' BY DEF CheckType
<1>3. QueuedEntered' /\ CountedEntered' BY DEF QueuedEntered, CountedEntered
<1>4. HeldEntered' BY DEF HeldEntered, CheckType
<1>5. (KernelsOver /\ MissingCounted /\ VerdictFollows)'
  BY <1>1 DEF KernelsOver, MissingCounted, VerdictFollows
<1> QED BY <1>2, <1>3, <1>4, <1>5

LEMMA DequeueKeeps == ASSUME FcInv, NEW t \in Tids, FcDequeue(t) PROVE FcInv'
<1> USE DEF FcInv
<1>1. CASE tokens = <<>>
  <2>1. checker' = [checker EXCEPT ![t].at = "poll"] /\ UNCHANGED tokens
    BY <1>1 DEF FcDequeue
  <2> QED BY <2>1, MoveKeeps DEF FcDequeue, tallies, others, Places
<1>2. CASE tokens # <<>>
  <2>1. checker' = [checker EXCEPT ![t].at = "ticket", ![t].token = Head(tokens)]
        /\ tokens' = Tail(tokens)
    BY <1>2 DEF FcDequeue
  <2>2. checkStage \notin {"verify", "done"} /\ ~verified BY KernelRuns DEF FcDequeue
  <2>3. Head(tokens) \in Words /\ Head(tokens) = tokens[1] /\ 1 \in DOMAIN tokens
    BY <1>2 DEF CheckType
  <2>4. tokens' \in Seq(Words) /\ \A k \in DOMAIN tokens' : k + 1 \in DOMAIN tokens
                                     /\ tokens'[k] = tokens[k + 1]
    BY <1>2, <2>1 DEF CheckType
  <2>5. CheckType'
    <3>1. checker' \in [Tids -> [at : Places, i : Nat, token : Words \cup {0}]]
      BY <2>1, <2>3 DEF CheckType, Places
    <3>2. UNCHANGED <<checkStage, counts, errors, verified>> BY DEF FcDequeue, tallies, others
    <3> QED BY <2>4, <3>1, <3>2 DEF CheckType
  <2>6. QueuedEntered' BY <2>4 DEF QueuedEntered, FcDequeue, others
  <2>7. HeldEntered'
    <3>1. fifo_decode_token(Head(tokens)) \in entered BY <2>3 DEF QueuedEntered
    <3> QED BY <3>1, <2>1 DEF HeldEntered, CheckType, FcDequeue, others
  <2>8. CountedEntered' BY DEF CountedEntered, FcDequeue, tallies, others
  <2>9. (KernelsOver /\ MissingCounted /\ VerdictFollows)'
    BY <2>2 DEF KernelsOver, MissingCounted, VerdictFollows, FcDequeue, others
  <2> QED BY <2>5, <2>6, <2>7, <2>8, <2>9
<1> QED BY <1>1, <1>2

LEMMA TallyKeeps == ASSUME FcInv, NEW t \in Tids, FcTally(t) PROVE FcInv'
<1> USE DEF FcInv
<1> DEFINE d == fifo_decode_token(checker[t].token)
<1>1. checkStage \notin {"verify", "done"} /\ ~verified BY KernelRuns DEF FcTally
<1>2. d \in entered /\ d = [ptid |-> d.ptid, seq |-> d.seq]
  BY DecodedPair DEF HeldEntered, FcTally
<1>3. counts' = [counts EXCEPT ![d.ptid][d.seq] = @ + 1] /\ entered' = entered
      /\ checker' = [checker EXCEPT ![t].at = "order"] /\ checker[t].at = "tally"
      /\ tokens' = tokens /\ checkStage' = checkStage /\ verified' = verified
      /\ DOMAIN errors' = DOMAIN errors
  BY DEF FcTally, others
<1> HIDE DEF d
<1>4. counts' \in [Tids -> [Seqs -> Nat]]
      /\ \A p \in Tids, s \in Seqs : counts'[p][s] # counts[p][s] => p = d.ptid /\ s = d.seq
  <2>1. counts \in [Tids -> [Seqs -> Nat]] BY DEF CheckType
  <2>2. \A p \in Tids : counts[p] \in [Seqs -> Nat] BY <2>1
  <2> DEFINE row == [counts[d.ptid] EXCEPT ![d.seq] = @ + 1]
  <2>3. counts' = [counts EXCEPT ![d.ptid] = row] BY <1>3
  <2>4. d.ptid \in Tids => row \in [Seqs -> Nat]
                         /\ \A s \in Seqs : row[s] # counts[d.ptid][s] => s = d.seq
    <3> SUFFICES ASSUME d.ptid \in Tids
                 PROVE  row \in [Seqs -> Nat]
                        /\ \A s \in Seqs : row[s] # counts[d.ptid][s] => s = d.seq
      OBVIOUS
    <3>1. counts[d.ptid] \in [Seqs -> Nat] BY <2>2
    <3>2. \A f \in [Seqs -> Nat] : \A k :
            /\ [f EXCEPT ![k] = @ + 1] \in [Seqs -> Nat]
            /\ \A s \in Seqs : [f EXCEPT ![k] = @ + 1][s] # f[s] => s = k
      <4> SUFFICES ASSUME NEW f \in [Seqs -> Nat], NEW k
                   PROVE  /\ [f EXCEPT ![k] = @ + 1] \in [Seqs -> Nat]
                          /\ \A s \in Seqs : [f EXCEPT ![k] = @ + 1][s] # f[s] => s = k
        OBVIOUS
      <4> DEFINE g == [f EXCEPT ![k] = @ + 1]
      <4>3. g = [s \in Seqs |-> IF s = k THEN f[k] + 1 ELSE f[s]] BY Zenon
      <4>4. \A s \in Seqs : (IF s = k THEN f[k] + 1 ELSE f[s]) \in Nat OBVIOUS
      <4> HIDE DEF g
      <4>5. g \in [Seqs -> Nat] BY <4>3, <4>4
      <4>1. [f EXCEPT ![k] = @ + 1] \in [Seqs -> Nat] BY <4>5 DEF g
      <4>2. \A s \in Seqs : [f EXCEPT ![k] = @ + 1][s] # f[s] => s = k BY Zenon
      <4> QED BY <4>1, <4>2
    <3> QED BY <3>1, <3>2
  <2> HIDE DEF row
  <2>5. counts' \in [Tids -> [Seqs -> Nat]] BY <2>1, <2>3, <2>4
  <2>6. \A p \in Tids : counts'[p] = IF p = d.ptid THEN row ELSE counts[p] BY <2>1, <2>3
  <2> QED BY <2>4, <2>5, <2>6
<1>5. CheckType'
  <2>1. checker' \in [Tids -> [at : Places, i : Nat, token : Words \cup {0}]]
    BY <1>3 DEF CheckType, Places
  <2> QED BY <1>3, <1>4, <2>1 DEF CheckType
<1>6. QueuedEntered' BY <1>3 DEF QueuedEntered
<1>7. HeldEntered' BY <1>3 DEF HeldEntered, CheckType
<1>8. CountedEntered'
  <2> SUFFICES ASSUME NEW p \in Tids, NEW s \in Seqs, counts'[p][s] # 0
               PROVE  [ptid |-> p, seq |-> s] \in entered
    BY <1>3 DEF CountedEntered
  <2> QED BY <1>2, <1>4 DEF CountedEntered
<1>9. (KernelsOver /\ MissingCounted /\ VerdictFollows)'
  BY <1>1, <1>3 DEF KernelsOver, MissingCounted, VerdictFollows
<1> QED BY <1>5, <1>6, <1>7, <1>8, <1>9

LEMMA ThreadKeeps == ASSUME FcInv, NEW t \in Tids, FcThreadStep(t) PROVE FcInv'
<1> USE DEF tallies, others, Places
<1>1. CASE FcProduced(t) BY <1>1, MoveKeeps DEF FcProduced, FcInv
<1>2. CASE FcPoll(t)
  <2> DEFINE p == IF consumed < total_to_consume THEN "dequeue" ELSE "out"
  <2> p \in Places /\ p \notin {"ticket", "tally", "order"} OBVIOUS
  <2>1. checker' = [checker EXCEPT ![t].at = p] BY <1>2 DEF FcPoll
  <2> HIDE DEF p
  <2> QED BY <1>2, <2>1, MoveKeeps DEF FcPoll, FcInv
<1>3. CASE FcTicket(t)
  <2> DEFINE p == IF consumed >= total_to_consume THEN "poll" ELSE "tally"
  <2> p \in Places OBVIOUS
  <2>1. checker' = [checker EXCEPT ![t].at = p] BY <1>3 DEF FcTicket
  <2> HIDE DEF p
  <2> QED BY <1>3, <2>1, MoveKeeps DEF FcTicket, FcInv
<1>4. CASE FcOutOfBounds(t) BY <1>4, MoveKeeps DEF FcOutOfBounds, FcInv
<1>5. CASE FcOrder(t)
  <2>1. /\ checker' = [checker EXCEPT ![t].at = "poll"] /\ checker[t].at = "order"
        /\ DOMAIN errors' = DOMAIN errors
        /\ UNCHANGED <<checkStage, tokens, counts, entered, verified>>
    BY <1>5 DEF FcOrder
  <2> QED BY <2>1, MoveKeeps DEF FcInv
<1> QED BY <1>1, <1>2, <1>3, <1>4, <1>5, EnqueueKeeps, DequeueKeeps, TallyKeeps
        DEF FcThreadStep

-----------------------------------------------------------------------------
LEMMA HostKeeps == ASSUME FcInv, FcLaunch \/ FcHostStep PROVE FcInv'
<1> USE DEF tallies, others, FcInv
<1>1. CASE FcLaunch \/ FcDrain
  <2> PICK p \in {"produce", "poll"} :
             checker' = [t \in Tids |-> [checker[t] EXCEPT !.at = p]]
    BY <1>1 DEF FcLaunch, FcDrain
  <2> checkStage' \in {"produce", "drain"} /\ checkStage \notin {"verify", "done"}
    BY <1>1 DEF FcLaunch, FcDrain
  <2> UNCHANGED <<tokens, counts, errors, verified, entered>>
    BY <1>1 DEF FcLaunch, FcDrain
  <2>1. CheckType' BY DEF CheckType, Stages, Places
  <2>2. QueuedEntered' /\ CountedEntered' BY DEF QueuedEntered, CountedEntered
  <2>3. HeldEntered' BY DEF HeldEntered, CheckType
  <2>4. (KernelsOver /\ MissingCounted /\ VerdictFollows)'
    BY DEF KernelsOver, MissingCounted, VerdictFollows
  <2> QED BY <2>1, <2>2, <2>3, <2>4
<1>2. CASE FcVerifyCounts
  <2>1. /\ checkStage' = "verify" /\ AllOut' /\ ~verified
        /\ errors'.missing = Cardinality(Slots({0})) /\ DOMAIN errors' = DOMAIN errors
        /\ UNCHANGED <<tokens, checker, counts, verified, entered>>
    BY <1>2 DEF FcVerifyCounts, VerdictFollows, AllOut, CheckType
  <2>2. CheckType' BY <2>1 DEF CheckType, Stages
  <2>3. QueuedEntered' /\ HeldEntered' /\ CountedEntered'
    BY <2>1 DEF QueuedEntered, HeldEntered, CountedEntered
  <2>4. (KernelsOver /\ VerdictFollows)' BY <2>1 DEF KernelsOver, VerdictFollows, CheckType
  <2>5. MissingCounted' BY <2>1 DEF MissingCounted, Slots
  <2> QED BY <2>2, <2>3, <2>4, <2>5
<1>3. CASE FcVerdict
  <2>1. /\ checkStage = "verify" /\ checkStage' = "done" /\ verified' = AllChecksPass
        /\ UNCHANGED <<tokens, checker, counts, errors, entered>>
    BY <1>3 DEF FcVerdict
  <2>2. verified' \in BOOLEAN BY <2>1 DEF AllChecksPass
  <2>3. CheckType' BY <2>1, <2>2 DEF CheckType, Stages
  <2>4. QueuedEntered' /\ HeldEntered' /\ CountedEntered'
    BY <2>1 DEF QueuedEntered, HeldEntered, CountedEntered
  <2>5. KernelsOver' BY <2>1 DEF KernelsOver, AllOut
  <2>6. MissingCounted' BY <2>1 DEF MissingCounted, Slots
  <2>7. VerdictFollows' BY <2>1 DEF VerdictFollows, AllChecksPass, CheckType
  <2> QED BY <2>3, <2>4, <2>5, <2>6, <2>7
<1> QED BY <1>1, <1>2, <1>3 DEF FcHostStep

LEMMA InvGivesVerdict == FcInv => VerdictSound
<1> SUFFICES ASSUME FcInv, verified, NEW t \in Tids, NEW s \in Seqs
             PROVE  [ptid |-> t, seq |-> s] \in entered
  BY DEF VerdictSound
<1>1. Cardinality(Slots({0})) = 0
  BY DEF FcInv, VerdictFollows, MissingCounted
<1>2. Slots({0}) = {} BY <1>1, SlotsFinite, FS_EmptySet
<1>3. <<t, s>> \notin Slots({0}) BY <1>2
<1>4. counts[t][s] # 0 BY <1>3 DEF Slots
<1> QED BY <1>4 DEF FcInv, CountedEntered

\* A run of the FIFO check that ends in PASS has had every token that was produced in
\* the queue: the counts it looks at are of words that came out, every such word
\* went in, and the counts stand still while it looks.
THEOREM VerdictIsSound == FcSpec => []VerdictSound
<1>1. FcInit => FcInv BY CheckInit
<1>2. FcInv /\ [FcLaunch \/ FcStep]_checkVars => FcInv'
  <2> SUFFICES ASSUME FcInv, [FcLaunch \/ FcStep]_checkVars PROVE FcInv' OBVIOUS
  <2>1. CASE FcLaunch \/ FcHostStep BY <2>1, HostKeeps
  <2>2. CASE \E t \in Tids : FcThreadStep(t) BY <2>2, ThreadKeeps
  <2>3. CASE UNCHANGED checkVars
    BY <2>3 DEF FcInv, checkVars, CheckType, QueuedEntered, HeldEntered, CountedEntered,
                KernelsOver, AllOut, MissingCounted, Slots, VerdictFollows
  <2> QED BY <2>1, <2>2, <2>3 DEF FcStep
<1>3. FcInv => VerdictSound BY InvGivesVerdict
<1> QED BY <1>1, <1>2, <1>3, PTL DEF FcSpec

-----------------------------------------------------------------------------
(***************************************************************************)
(* The search                                                              *)
(***************************************************************************)
\* Any graph of at least one vertex.
AllGraphs == UNION {[0 .. V - 1 -> Seq(0 .. V - 1)] : V \in Nat \ {0}}

BfsNext == (\E g \in AllGraphs, src \in Int : BfsLaunch(g, src)) \/ BfsStep

BfsSpec == BfsInit /\ [][BfsNext]_bfsVars

Working == bfsKernel \in {"expand", "hub", "host"}

MaybeVertex == Vertices \cup {NoVertex}

LaneRecord ==
  [at : {"dequeue", "scan", "enqueue", "meet", "out"}, u : MaybeVertex,
   pending : MaybeVertex, todo : Seq(Vertices), next : Nat]

BfsType ==
  /\ bfsKernel \in {"off", "expand", "hub", "host", "done"}
  /\ graph \in AllGraphs
  /\ source \in Vertices
  /\ level \in [Vertices -> Int]
  /\ q_in \in Seq(Vertices) /\ q_out \in Seq(Vertices) /\ hubs \in Seq(Vertices)
  /\ curr_level \in Nat /\ blocking \in BOOLEAN
  /\ lane \in [Lanes -> LaneRecord]
  /\ refused \subseteq Vertices

HasEdges(x) == lane[x].at \in {"scan", "enqueue"}

\* A lane that is not scanning has no edge left; one that saw no vertex saw the
\* queue of this level empty, and only such lanes leave.
LaneGood(x) ==
  /\ HasEdges(x) <=> lane[x].todo # <<>>
  /\ lane[x].at \in {"dequeue", "out"} => lane[x].pending = NoVertex
  /\ lane[x].at = "out" => lane[x].u = NoVertex
  /\ Working /\ lane[x].at # "dequeue" /\ lane[x].u = NoVertex => q_in = <<>>
  /\ bfsKernel = "hub" =>
       lane[x].pending = NoVertex /\ lane[x].u = NoVertex /\ lane[x].at \notin {"dequeue", "out"}
  /\ bfsKernel \in {"host", "done"} => lane[x] = Idle

LaneInv == \A x \in Lanes : LaneGood(x)

\* Whatever waits to be expanded is of this level, what was found is of the next.
LevelInv ==
  /\ \A v \in Vertices : level[v] \in -1 .. curr_level + 1 /\ (level[v] = 0 <=> v = source)
  /\ \A v \in ToSet(q_in) : level[v] = curr_level
  /\ \A v \in ToSet(hubs) : level[v] = curr_level
  /\ \A x \in Lanes : lane[x].pending # NoVertex => level[lane[x].pending] = curr_level
  /\ \A v \in ToSet(q_out) : level[v] = curr_level + 1
  /\ \A x \in Lanes : \A v \in ToSet(lane[x].todo) :
       \E u \in Vertices : level[u] = curr_level /\ Edge(u, v)
  /\ \A x \in Lanes : lane[x].at = "enqueue" => level[Head(lane[x].todo)] = curr_level + 1
  /\ bfsKernel \in {"host", "done"} => hubs = <<>>

\* A vertex of this level waits to be expanded, or its edge to v to be scanned.
Awaits(u, v) ==
  \/ u \in ToSet(q_in)
  \/ u \in ToSet(hubs)
  \/ \E x \in Lanes : lane[x].pending = u
  \/ \E x \in Lanes : v \in ToSet(lane[x].todo)

\* No edge is forgotten and no vertex found, as long as no queue was full.
WorkInv ==
  refused = {} /\ Working =>
    /\ \A u, v \in Vertices :
         level[u] = curr_level /\ Edge(u, v) /\ level[v] = -1 => Awaits(u, v)
    /\ \A v \in Vertices : level[v] = curr_level + 1 =>
         \/ v \in ToSet(q_out)
         \/ \E x \in Lanes : lane[x].at = "enqueue" /\ Head(lane[x].todo) = v

\* The vertices of a level that are done with are those at that distance.
DistInv ==
  /\ \A v \in Vertices : level[v] # -1 => v \in Within[level[v]]
  /\ refused = {} =>
       \A n \in 0 .. curr_level : \A v \in Within[n] : level[v] \in 0 .. n

\* The finds of a lane, and the one that it has still to enqueue.
Limit(x) == lane[x].next + IF lane[x].at = "enqueue" THEN 1 ELSE 0
Tokens == UNION {{x} \X (1 .. Limit(x)) : x \in Lanes}

UpTo(n) == {v \in Vertices : level[v] \in 0 .. n}
AtLevel(n) == {v \in Vertices : level[v] = n}

\* The halving sums of a block need a number of threads that can be halved.
BlockIsPowerOfTwo == \E k \in Nat : BlockDim = 2 ^ k

Counted ==
  /\ {reached, next_count} \subseteq Nat
  /\ reached = Cardinality(UpTo(curr_level))
  /\ Cardinality(AtLevel(curr_level + 1)) = next_count + Cardinality(Tokens)
  /\ Working => reached > curr_level
  /\ bfsKernel = "done" =>
       reached >= curr_level /\ \A v \in Vertices : level[v] < curr_level

CountInv == IsFiniteSet(Tokens) /\ (BlockIsPowerOfTwo => Counted)

Running == BfsType /\ LaneInv /\ LevelInv /\ WorkInv /\ DistInv /\ CountInv

BfsInv == IF bfsKernel = "off" THEN BfsInit ELSE Running

-----------------------------------------------------------------------------
(***************************************************************************)
(* Induction, for sets of numbers                                          *)
(***************************************************************************)
LEMMA LessThanIsWellFounded == IsWellFoundedOn({p \in Nat \X Nat : p[1] < p[2]}, Nat)
BY NatLessThanWellFounded DEF OpToRel

\* A set of numbers that has any has a smallest.
LEMMA Smallest ==
  ASSUME NEW S \in SUBSET Nat, S # {}
  PROVE  \E x \in S : \A y \in S : x <= y
<1> DEFINE Lt == {p \in Nat \X Nat : p[1] < p[2]}
<1>1. PICK x \in S : \A y \in S : ~ (<<y, x>> \in Lt)
  <2>1. IsWellFoundedOn(Lt, Nat) BY LessThanIsWellFounded
  <2> HIDE DEF Lt
  <2>2. QED BY <2>1, WFMin
<1>2. \A y \in S : ~ (y < x) BY <1>1
<1>3. QED BY <1>2

LEMMA SetInduction ==
  ASSUME NEW S \in SUBSET Nat, 0 \in S, \A n \in S : n + 1 \in S
  PROVE  S = Nat
<1> SUFFICES ASSUME Nat \ S # {} PROVE FALSE
  OBVIOUS
<1>1. PICK x \in Nat \ S : \A y \in Nat \ S : x <= y BY Smallest
<1>2. x - 1 \in Nat /\ x - 1 \in S BY <1>1
<1>3. (x - 1) + 1 \in S BY <1>2
<1>4. QED BY <1>1, <1>3

-----------------------------------------------------------------------------
(***************************************************************************)
(* Powers of two                                                           *)
(***************************************************************************)
LEMMA PowZero == 2 ^ 0 = 1
<1>1. 2 ^ Cardinality({}) = Cardinality(SUBSET {}) BY FS_SUBSET, FS_EmptySet
<1>2. SUBSET {} = {{}} OBVIOUS
<1>3. Cardinality({{}}) = 1 BY FS_Singleton
<1>4. Cardinality({}) = 0 BY FS_EmptySet
<1>5. QED BY <1>1, <1>2, <1>3, <1>4

\* The sets of numbers up to n + 1 are those up to n, and these with n + 1.
LEMMA PowSucc ==
  ASSUME NEW n \in Nat
  PROVE  2 ^ n \in Nat /\ 2 ^ (n + 1) = 2 * 2 ^ n
<1> DEFINE A == SUBSET (1 .. n)
           B == {s \cup {n + 1} : s \in A}
<1>1. IsFiniteSet(1 .. n) /\ Cardinality(1 .. n) = n
  <2>1. n = IF 1 > n THEN 0 ELSE n - 1 + 1 OBVIOUS
  <2>2. QED BY <2>1, FS_Interval
<1>2. IsFiniteSet(1 .. n + 1) /\ Cardinality(1 .. n + 1) = n + 1
  <2>1. n + 1 = IF 1 > n + 1 THEN 0 ELSE n + 1 - 1 + 1 OBVIOUS
  <2>2. QED BY <2>1, FS_Interval
<1>3. IsFiniteSet(A) /\ Cardinality(A) = 2 ^ n BY <1>1, FS_SUBSET
<1>4. Cardinality(SUBSET (1 .. n + 1)) = 2 ^ (n + 1) BY <1>2, FS_SUBSET
<1>5. SUBSET (1 .. n + 1) = A \cup B
  <2>1. ASSUME NEW s \in SUBSET (1 .. n + 1) PROVE s \in A \cup B
    <3>1. CASE n + 1 \in s
      <4>1. s \ {n + 1} \in A BY <2>1
      <4>2. s = (s \ {n + 1}) \cup {n + 1} BY <3>1
      <4>3. QED BY <4>1, <4>2
    <3>2. CASE n + 1 \notin s BY <2>1, <3>2
    <3>3. QED BY <3>1, <3>2
  <2>2. ASSUME NEW s \in A PROVE s \in SUBSET (1 .. n + 1) /\ s \cup {n + 1} \in SUBSET (1 .. n + 1)
    OBVIOUS
  <2>3. A \cup B \subseteq SUBSET (1 .. n + 1)
    <3> SUFFICES ASSUME NEW r \in A \cup B PROVE r \in SUBSET (1 .. n + 1)
      OBVIOUS
    <3>1. CASE r \in A BY <2>2, <3>1
    <3>2. CASE r \in B
      <4>1. PICK s \in A : r = s \cup {n + 1} BY <3>2
      <4>2. QED BY <4>1, <2>2
    <3>3. QED BY <3>1, <3>2
  <2> HIDE DEF A, B
  <2>4. QED BY <2>1, <2>3
<1>6. A \cap B = {} OBVIOUS
<1>7. ExistsBijection(A, B)
  <2> DEFINE f == [s \in A |-> s \cup {n + 1}]
  <2>1. f \in [A -> B] OBVIOUS
  <2>2. \A s, r \in A : f[s] = f[r] => s = r
    <3> TAKE s, r \in A
    <3> HAVE f[s] = f[r]
    <3>1. s = f[s] \ {n + 1} /\ r = f[r] \ {n + 1} OBVIOUS
    <3>2. QED BY <3>1
  <2>3. \A q \in B : \E s \in A : f[s] = q OBVIOUS
  <2> HIDE DEF f, A, B
  <2>4. f \in Bijection(A, B) BY <2>1, <2>2, <2>3 DEF Bijection, Injection, Surjection, IsInjective
  <2>5. QED BY <2>4 DEF ExistsBijection
<1> HIDE DEF A, B
<1>8. IsFiniteSet(B) /\ Cardinality(B) = Cardinality(A) BY <1>3, <1>7, FS_Bijection
<1>9. Cardinality(A \cup B) = Cardinality(A) + Cardinality(B) - Cardinality(A \cap B)
  BY <1>3, <1>8, FS_Union
<1>10. Cardinality(A) \in Nat BY <1>3, FS_CardinalityType
<1>11. Cardinality(A \cap B) = 0 BY <1>6, FS_EmptySet
<1>12. 2 ^ (n + 1) = Cardinality(A) + Cardinality(A) - 0
  BY <1>4, <1>5, <1>8, <1>9, <1>11
<1>13. PICK c \in Nat : c = 2 ^ n BY <1>3, <1>10
<1>14. 2 ^ (n + 1) = c + c BY <1>3, <1>12, <1>13
<1>15. QED BY <1>13, <1>14

LEMMA PowType ==
  ASSUME NEW n \in Nat
  PROVE  2 ^ n \in Nat \ {0}
<1> DEFINE S == {m \in Nat : 2 ^ m \in Nat \ {0}}
<1>1. 0 \in S BY PowZero
<1>2. ASSUME NEW m \in S PROVE m + 1 \in S
  <2>1. 2 ^ (m + 1) = 2 * 2 ^ m BY PowSucc
  <2>2. 2 ^ m \in Nat \ {0} OBVIOUS
  <2>3. QED BY <2>1, <2>2
<1>3. S = Nat BY <1>1, <1>2, SetInduction
<1>4. QED BY <1>3

LEMMA PowDown ==
  ASSUME NEW n \in Nat \ {0}
  PROVE  2 ^ n = 2 * 2 ^ (n - 1) /\ 2 ^ (n - 1) \in Nat \ {0}
<1>1. n - 1 \in Nat /\ (n - 1) + 1 = n OBVIOUS
<1>2. QED BY <1>1, PowSucc, PowType

LEMMA PowSum ==
  ASSUME NEW n \in Nat, NEW k \in 0 .. n
  PROVE  2 ^ (n - k) * 2 ^ k = 2 ^ n
<1> DEFINE S == {m \in Nat : m <= n => 2 ^ (n - m) * 2 ^ m = 2 ^ n}
<1>1. 0 \in S
  <2>1. n - 0 = n /\ 2 ^ n \in Nat BY PowType
  <2>2. QED BY <2>1, PowZero
<1>2. ASSUME NEW m \in S PROVE m + 1 \in S
  <2> SUFFICES ASSUME m + 1 <= n PROVE 2 ^ (n - (m + 1)) * 2 ^ (m + 1) = 2 ^ n
    OBVIOUS
  <2> DEFINE a == 2 ^ (n - (m + 1))
             c == 2 ^ m
  <2>1. n - (m + 1) \in Nat /\ (n - (m + 1)) + 1 = n - m OBVIOUS
  <2>2. 2 ^ (n - m) = 2 * a /\ a \in Nat BY <2>1, PowSucc
  <2>3. 2 ^ (m + 1) = 2 * c /\ c \in Nat BY PowSucc
  <2>4. 2 ^ (n - m) * 2 ^ m = 2 ^ n OBVIOUS
  <2> HIDE DEF a, c
  <2>5. (2 * a) * c = a * (2 * c) BY <2>2, <2>3
  <2>6. QED BY <2>2, <2>3, <2>4, <2>5 DEF a, c
<1>3. S = Nat BY <1>1, <1>2, SetInduction
<1>4. k \in Nat /\ k <= n OBVIOUS
<1>5. k \in S BY <1>3, <1>4
<1>6. QED BY <1>4, <1>5

LEMMA PowBounds ==
  ASSUME NEW n \in Nat
  PROVE  /\ n < 2 ^ n
         /\ \A m \in Nat : n < m => 2 ^ n < 2 ^ m
<1> DEFINE S == {i \in Nat : i < 2 ^ i}
           R == {i \in Nat : 2 ^ n <= 2 ^ (n + i)}
<1>1. S = Nat
  <2>1. 0 \in S BY PowZero
  <2>2. ASSUME NEW i \in S PROVE i + 1 \in S
    <3>1. 2 ^ (i + 1) = 2 * 2 ^ i /\ 2 ^ i \in Nat /\ i < 2 ^ i BY PowSucc
    <3>2. QED BY <3>1
  <2>3. QED BY <2>1, <2>2, SetInduction
<1>2. R = Nat
  <2>1. 0 \in R
    <3>1. n + 0 = n /\ 2 ^ n \in Nat BY PowType
    <3>2. QED BY <3>1
  <2>2. ASSUME NEW i \in R PROVE i + 1 \in R
    <3>1. n + (i + 1) = (n + i) + 1 /\ n + i \in Nat OBVIOUS
    <3>2. 2 ^ (n + (i + 1)) = 2 * 2 ^ (n + i) /\ 2 ^ (n + i) \in Nat /\ 2 ^ n \in Nat
      BY <3>1, PowSucc, PowType
    <3>3. 2 ^ n <= 2 ^ (n + i) OBVIOUS
    <3>4. QED BY <3>2, <3>3
  <2>3. QED BY <2>1, <2>2, SetInduction
<1>3. ASSUME NEW m \in Nat, n < m PROVE 2 ^ n < 2 ^ m
  <2> DEFINE i == m - (n + 1)
  <2>1. i \in Nat /\ m = (n + i) + 1 /\ n + i \in Nat BY <1>3
  <2>2. 2 ^ n <= 2 ^ (n + i) BY <1>2, <2>1
  <2>3. 2 ^ m = 2 * 2 ^ (n + i) /\ 2 ^ (n + i) \in Nat /\ 2 ^ n \in Nat \ {0}
    BY <2>1, PowSucc, PowType
  <2>4. QED BY <2>2, <2>3
<1>4. QED BY <1>1, <1>3

-----------------------------------------------------------------------------
(***************************************************************************)
(* The search: distances                                                   *)
(***************************************************************************)
\* A vertex is within n edges when a walk of n steps, some of which may stay where
\* they are, leads to it.
Walk(n, v) ==
  \E p \in [0 .. n -> Vertices] :
    /\ p[0] = source /\ p[n] = v
    /\ \A i \in 0 .. n - 1 : p[i + 1] = p[i] \/ Edge(p[i], p[i + 1])

LEMMA WalkNowhere ==
  ASSUME source \in Vertices, NEW v \in Vertices
  PROVE  Walk(0, v) <=> v = source
<1>1. Walk(0, v) => v = source BY DEF Walk
<1>2. ASSUME v = source PROVE Walk(0, v)
  <2> DEFINE p == [i \in 0 .. 0 |-> source]
  <2>1. p \in [0 .. 0 -> Vertices] /\ p[0] = source OBVIOUS
  <2>2. \A i \in 0 .. 0 - 1 : FALSE OBVIOUS
  <2>3. QED BY <1>2, <2>1, <2>2 DEF Walk
<1>3. QED BY <1>1, <1>2

LEMMA WalkFurther ==
  ASSUME NEW n \in Nat, NEW v \in Vertices
  PROVE  Walk(n + 1, v) <=>
           Walk(n, v) \/ \E u \in Vertices : Walk(n, u) /\ Edge(u, v)
<1>1. ASSUME Walk(n + 1, v)
      PROVE  Walk(n, v) \/ \E u \in Vertices : Walk(n, u) /\ Edge(u, v)
  <2>1. PICK p \in [0 .. n + 1 -> Vertices] :
          /\ p[0] = source /\ p[n + 1] = v
          /\ \A i \in 0 .. n : p[i + 1] = p[i] \/ Edge(p[i], p[i + 1])
    BY <1>1 DEF Walk
  <2> DEFINE q == [i \in 0 .. n |-> p[i]]
  <2>2. q \in [0 .. n -> Vertices] /\ q[0] = source /\ q[n] = p[n] /\ p[n] \in Vertices
    BY <2>1
  <2>3. \A i \in 0 .. n - 1 : q[i + 1] = q[i] \/ Edge(q[i], q[i + 1])
    <3> SUFFICES ASSUME NEW i \in 0 .. n - 1
                 PROVE  q[i + 1] = q[i] \/ Edge(q[i], q[i + 1])
      OBVIOUS
    <3>1. i \in 0 .. n /\ i + 1 \in 0 .. n /\ q[i] = p[i] /\ q[i + 1] = p[i + 1] OBVIOUS
    <3>2. QED BY <2>1, <3>1
  <2>4. Walk(n, p[n]) BY <2>2, <2>3 DEF Walk
  <2>5. v = p[n] \/ Edge(p[n], v) BY <2>1
  <2>6. QED BY <2>2, <2>4, <2>5
<1>2. ASSUME NEW u \in Vertices, Walk(n, u), u = v \/ Edge(u, v)
      PROVE  Walk(n + 1, v)
  <2>1. PICK p \in [0 .. n -> Vertices] :
          /\ p[0] = source /\ p[n] = u
          /\ \A i \in 0 .. n - 1 : p[i + 1] = p[i] \/ Edge(p[i], p[i + 1])
    BY <1>2 DEF Walk
  <2> DEFINE q == [i \in 0 .. n + 1 |-> IF i = n + 1 THEN v ELSE p[i]]
  <2>2. q \in [0 .. n + 1 -> Vertices] /\ q[0] = source /\ q[n + 1] = v BY <2>1
  <2>3. \A i \in 0 .. (n + 1) - 1 : q[i + 1] = q[i] \/ Edge(q[i], q[i + 1])
    <3> SUFFICES ASSUME NEW i \in 0 .. (n + 1) - 1
                 PROVE  q[i + 1] = q[i] \/ Edge(q[i], q[i + 1])
      OBVIOUS
    <3>1. CASE i = n
      <4>1. q[i] = u /\ q[i + 1] = v BY <2>1, <3>1
      <4>2. QED BY <1>2, <4>1
    <3>2. CASE i # n
      <4>1. i \in 0 .. n - 1 /\ q[i] = p[i] /\ q[i + 1] = p[i + 1] BY <3>2
      <4>2. QED BY <2>1, <4>1
    <3>3. QED BY <3>1, <3>2
  <2>4. QED BY <2>2, <2>3 DEF Walk
<1>3. QED BY <1>1, <1>2

\* The recursion that defines Within has a solution, so that Within is one.
LEMMA WithinDefined ==
  ASSUME source \in Vertices
  PROVE  Within = [n \in Nat |->
           IF n = 0 THEN {source}
           ELSE Within[n - 1] \cup
                  {v \in Vertices : \E u \in Within[n - 1] : Edge(u, v)}]
<1> DEFINE Rec(h) == [n \in Nat |->
             IF n = 0 THEN {source}
             ELSE h[n - 1] \cup {v \in Vertices : \E u \in h[n - 1] : Edge(u, v)}]
           f == [n \in Nat |-> {v \in Vertices : Walk(n, v)}]
<1>1. ASSUME NEW n \in Nat PROVE f[n] = Rec(f)[n]
  <2>1. CASE n = 0
    <3>1. {v \in Vertices : Walk(0, v)} = {source} BY WalkNowhere
    <3>2. QED BY <2>1, <3>1
  <2>2. CASE n # 0
    <3> DEFINE m == n - 1
    <3>1. m \in Nat /\ n = m + 1 BY <2>2
    <3>2. f[m] = {v \in Vertices : Walk(m, v)} BY <3>1
    <3>3. f[n] = {v \in Vertices : Walk(m + 1, v)} BY <3>1
    <3>4. Rec(f)[n] = f[m] \cup {v \in Vertices : \E u \in f[m] : Edge(u, v)} BY <2>2
    <3> HIDE DEF m, f
    <3>5. \A v \in Vertices : Walk(m + 1, v) <=>
            Walk(m, v) \/ \E u \in Vertices : Walk(m, u) /\ Edge(u, v)
      BY <3>1, WalkFurther
    <3>6. f[n] = f[m] \cup {v \in Vertices : \E u \in f[m] : Edge(u, v)}
      BY <3>2, <3>3, <3>5
    <3>7. QED BY <3>4, <3>6
  <2>3. QED BY <2>1, <2>2
<1>2. f = Rec(f)
  <2>1. f = [n \in Nat |-> f[n]] OBVIOUS
  <2>2. Rec(f) = [n \in Nat |-> Rec(f)[n]] OBVIOUS
  <2> HIDE DEF f, Rec
  <2>3. QED BY <1>1, <2>1, <2>2
<1>3. \E h : h = Rec(h)
  <2> HIDE DEF f
  <2>1. QED BY <1>2
<1>4. Within = CHOOSE h : h = Rec(h) BY DEF Within
<1> HIDE DEF Rec
<1>5. Within = Rec(Within) BY <1>3, <1>4
<1>6. QED BY <1>5 DEF Rec

LEMMA WithinFacts ==
  ASSUME source \in Vertices
  PROVE  /\ Within[0] = {source}
         /\ \A n \in Nat : Within[n + 1] =
              Within[n] \cup {v \in Vertices : \E u \in Within[n] : Edge(u, v)}
<1>1. Within[0] = {source} BY WithinDefined
<1>2. ASSUME NEW n \in Nat
      PROVE  Within[n + 1] =
               Within[n] \cup {v \in Vertices : \E u \in Within[n] : Edge(u, v)}
  <2>1. n + 1 \in Nat /\ n + 1 # 0 /\ (n + 1) - 1 = n OBVIOUS
  <2>2. QED BY <2>1, WithinDefined
<1>3. QED BY <1>1, <1>2

\* Every vertex within n edges is a vertex.
LEMMA WithinVertices ==
  ASSUME source \in Vertices
  PROVE  \A n \in Nat : Within[n] \subseteq Vertices
<1> DEFINE S == {n \in Nat : Within[n] \subseteq Vertices}
<1>1. 0 \in S BY WithinFacts
<1>2. ASSUME NEW n \in S PROVE n + 1 \in S BY WithinFacts
<1>3. S \in SUBSET Nat OBVIOUS
<1> HIDE DEF S
<1>4. S = Nat BY <1>1, <1>2, <1>3, SetInduction
<1>5. QED BY <1>4 DEF S

-----------------------------------------------------------------------------
(***************************************************************************)
(* The search: sharing out edges                                           *)
(***************************************************************************)
\* Lane k of n gets every n-th edge and no other ...
LEMMA StridedIsPart ==
  ASSUME NEW S, NEW edges \in Seq(S), NEW n \in Nat \ {0}, NEW k \in 0 .. n - 1
  PROVE  /\ Strided(edges, k, n) \in Seq(S)
         /\ \A j \in DOMAIN Strided(edges, k, n) : \E i \in DOMAIN edges :
              Strided(edges, k, n)[j] = edges[i]
<1> DEFINE L == Len(edges)
           top == L + n - 1 - k
           m == top \div n
<1>1. L \in Nat /\ top \in Nat /\ DOMAIN edges = 1 .. L OBVIOUS
<1>2. m \in Nat /\ n * m <= top
  <2> HIDE DEF top
  <2>1. top = n * m + (top % n) /\ m \in Nat /\ top % n \in 0 .. n - 1 BY <1>1, DivMod
  <2> HIDE DEF m
  <2>2. n * m \in Nat BY <2>1, Z3
  <2>3. QED BY <2>1, <2>2
<1>3. ASSUME NEW j \in 1 .. m PROVE (j - 1) * n + k + 1 \in 1 .. L
  <2> HIDE DEF m
  <2>1. j \in Nat /\ j - 1 \in Nat /\ j <= m BY <1>2
  <2>2. n * j <= n * m BY <1>2, <2>1, Z3
  <2>3. (j - 1) * n = n * j - n /\ n * j \in Nat /\ n * m \in Nat /\ (j - 1) * n \in Nat
    BY <1>2, <2>1, Z3
  <2>4. (j - 1) * n <= top - n BY <1>2, <2>2, <2>3, <1>1
  <2>5. QED BY <2>3, <2>4, <1>1
<1>4. Strided(edges, k, n) = [j \in 1 .. m |-> edges[(j - 1) * n + k + 1]] BY DEF Strided
<1>5. ASSUME NEW j \in 1 .. m PROVE edges[(j - 1) * n + k + 1] \in S
  <2> HIDE DEF m, L
  <2>1. (j - 1) * n + k + 1 \in DOMAIN edges BY <1>1, <1>3
  <2>2. QED BY <2>1
<1> HIDE DEF m, L
<1>6. Strided(edges, k, n) \in [1 .. m -> S] BY <1>4, <1>5
<1>7. Strided(edges, k, n) \in Seq(S) BY <1>2, <1>6
<1>8. DOMAIN Strided(edges, k, n) = 1 .. m BY <1>4
<1>9. QED BY <1>1, <1>3, <1>4, <1>7, <1>8

\* ... and together the lanes get them all.
LEMMA StridedIsAll ==
  ASSUME NEW S, NEW edges \in Seq(S), NEW n \in Nat \ {0}, NEW i \in DOMAIN edges
  PROVE  \E k \in 0 .. n - 1 : \E j \in DOMAIN Strided(edges, k, n) :
           Strided(edges, k, n)[j] = edges[i]
<1> DEFINE L == Len(edges)
<1>1. L \in Nat /\ i \in 1 .. L OBVIOUS
<1>2. PICK q \in Nat, k \in 0 .. n - 1 : i - 1 = n * q + k
  <2> DEFINE x == i - 1
  <2>1. x \in Nat BY <1>1
  <2> HIDE DEF x
  <2>2. x = n * (x \div n) + (x % n) /\ x \div n \in Nat /\ x % n \in 0 .. n - 1
    BY <2>1, DivMod
  <2>3. QED BY <2>2 DEF x
<1> DEFINE top == L + n - 1 - k
           m == top \div n
<1>3. top \in Nat BY <1>1
<1>4. n * q + n <= top /\ n * q \in Nat
  <2>1. n * q \in Nat BY Z3
  <2>2. QED BY <1>1, <1>2, <2>1
<1>5. q + 1 <= m /\ m \in Nat
  <2> HIDE DEF top
  <2>1. top = n * m + (top % n) /\ m \in Nat /\ top % n \in 0 .. n - 1 BY <1>3, DivMod
  <2> HIDE DEF m
  <2>2. ~ (m < q + 1)
    <3> SUFFICES ASSUME m < q + 1 PROVE FALSE OBVIOUS
    <3>1. m <= q BY <2>1
    <3>2. n * m <= n * q /\ n * m \in Nat BY <2>1, <3>1, Z3
    <3>3. QED BY <1>3, <1>4, <2>1, <3>2
  <2>3. QED BY <2>1, <2>2
<1>6. Strided(edges, k, n) = [j \in 1 .. m |-> edges[(j - 1) * n + k + 1]] BY DEF Strided
<1>7. ((q + 1) - 1) * n + k + 1 = i
  <2>1. ((q + 1) - 1) * n = n * q BY Z3
  <2>2. QED BY <1>2, <1>4, <2>1, <1>1
<1> HIDE DEF m
<1>8. q + 1 \in 1 .. m BY <1>5
<1>9. Strided(edges, k, n)[q + 1] = edges[i] BY <1>6, <1>7, <1>8
<1>10. q + 1 \in DOMAIN Strided(edges, k, n) BY <1>6, <1>8
<1>11. QED BY <1>9, <1>10

LEMMA LaneNumbers ==
  /\ \A x \in Lanes : /\ x = <<x[1], x[2]>>
                      /\ x[1] \in 0 .. NumWaves - 1 /\ x[2] \in 0 .. WarpSize - 1
  /\ \A w \in 0 .. NumWaves - 1 : Wave(w) \subseteq Lanes
  /\ \A w \in 0 .. NumWaves - 1 : \A k \in 0 .. WarpSize - 1 :
       <<w, k>> \in Lanes /\ <<w, k>> \in Wave(w)
BY DEF Lanes, Wave

\* The threads of the block are numbered from 0.
LEMMA ThreadNumbers ==
  /\ BlockDim \in Nat \ {0}
  /\ \A x \in Lanes : ThreadIdx(x) \in 0 .. BlockDim - 1
  /\ \A k \in 0 .. BlockDim - 1 : \E x \in Lanes : ThreadIdx(x) = k
<1>1. NumWaves \in Nat \ {0} /\ WarpSize \in Nat \ {0} BY BfsAssumption
<1>2. NumWaves * WarpSize \in Nat \ {0} BY <1>1, Z3
<1>3. ASSUME NEW x \in Lanes
      PROVE  x[1] * WarpSize + x[2] \in 0 .. NumWaves * WarpSize - 1
  <2>1. PICK a \in 0 .. NumWaves - 1, b \in 0 .. WarpSize - 1 : a = x[1] /\ b = x[2]
    BY LaneNumbers
  <2>2. a \in Nat /\ a + 1 <= NumWaves /\ b \in Nat BY <1>1, <2>1
  <2>3. (a + 1) * WarpSize <= NumWaves * WarpSize BY <1>1, <2>2, Z3
  <2>4. (a + 1) * WarpSize = a * WarpSize + WarpSize /\ a * WarpSize \in Nat BY <1>1, <2>2, Z3
  <2>5. a * WarpSize + b \in 0 .. NumWaves * WarpSize - 1 BY <1>1, <1>2, <2>2, <2>3, <2>4
  <2>6. QED BY <2>1, <2>5
<1>4. ASSUME NEW k \in 0 .. NumWaves * WarpSize - 1
      PROVE  \E x \in Lanes : x[1] * WarpSize + x[2] = k
  <2>0. k \in Nat /\ k < NumWaves * WarpSize BY <1>2
  <2>1. PICK a \in Nat, b \in 0 .. WarpSize - 1 : k = WarpSize * a + b
    <3>1. /\ k = WarpSize * (k \div WarpSize) + (k % WarpSize)
          /\ k \div WarpSize \in Nat /\ k % WarpSize \in 0 .. WarpSize - 1
      BY <1>1, <2>0, DivMod
    <3>2. QED BY <3>1
  <2>2. a < NumWaves
    <3> SUFFICES ASSUME NumWaves <= a PROVE FALSE BY <1>1, <2>1
    <3>1. NumWaves * WarpSize <= WarpSize * a BY <1>1, <2>1, Z3
    <3>2. WarpSize * a \in Nat BY <1>1, <2>1, Z3
    <3>3. QED BY <1>1, <1>2, <2>0, <2>1, <3>1, <3>2
  <2>3. <<a, b>> \in Lanes
    <3>1. a \in 0 .. NumWaves - 1 BY <1>1, <2>1, <2>2
    <3>2. QED BY <3>1, <2>1, LaneNumbers
  <2>4. a * WarpSize = WarpSize * a BY <1>1, <2>1, Z3
  <2>5. <<a, b>>[1] * WarpSize + <<a, b>>[2] = k BY <2>1, <2>4
  <2>6. QED BY <2>3, <2>5
<1>5. QED BY <1>2, <1>3, <1>4 DEF BlockDim, ThreadIdx

-----------------------------------------------------------------------------
(***************************************************************************)
(* Sequences as the sets of what is in them                                *)
(***************************************************************************)
LEMMA HeadAndTail ==
  ASSUME NEW S, NEW s \in Seq(S), s # <<>>
  PROVE  /\ Tail(s) \in Seq(S) /\ Head(s) \in S
         /\ ToSet(s) = {Head(s)} \cup ToSet(Tail(s))
<1>1. Tail(s) \in Seq(S) /\ Head(s) \in S /\ Len(Tail(s)) = Len(s) - 1 /\ Len(s) \in Nat \ {0}
  OBVIOUS
<1>2. \A i \in 1 .. Len(s) - 1 : Tail(s)[i] = s[i + 1] OBVIOUS
<1>3. ASSUME NEW i \in 1 .. Len(s) PROVE s[i] \in {Head(s)} \cup ToSet(Tail(s))
  <2>1. CASE i = 1 BY <2>1
  <2>2. CASE i # 1
    <3>1. i - 1 \in 1 .. Len(s) - 1 /\ s[i] = Tail(s)[i - 1] BY <1>1, <1>2, <2>2
    <3>2. i - 1 \in DOMAIN Tail(s) BY <1>1, <3>1
    <3>3. QED BY <3>1, <3>2 DEF ToSet
  <2>3. QED BY <2>1, <2>2
<1>4. ASSUME NEW i \in DOMAIN Tail(s) PROVE Tail(s)[i] \in ToSet(s)
  <2>1. i \in 1 .. Len(s) - 1 BY <1>1
  <2>2. i + 1 \in DOMAIN s /\ Tail(s)[i] = s[i + 1] BY <1>1, <1>2, <2>1
  <2>3. QED BY <2>2 DEF ToSet
<1>5. Head(s) \in ToSet(s) BY <1>1 DEF ToSet
<1>6. DOMAIN s = 1 .. Len(s) OBVIOUS
<1>7. QED BY <1>1, <1>3, <1>4, <1>5, <1>6 DEF ToSet

LEMMA AppendSet ==
  ASSUME NEW S, NEW s \in Seq(S), NEW e \in S
  PROVE  Append(s, e) \in Seq(S) /\ ToSet(Append(s, e)) = ToSet(s) \cup {e}
<1>1. /\ Append(s, e) \in Seq(S) /\ Len(s) \in Nat
      /\ DOMAIN Append(s, e) = 1 .. Len(s) + 1 /\ DOMAIN s = 1 .. Len(s)
      /\ \A i \in 1 .. Len(s) : Append(s, e)[i] = s[i]
      /\ Append(s, e)[Len(s) + 1] = e
  OBVIOUS
<1>2. \A i \in 1 .. Len(s) + 1 : i \in 1 .. Len(s) \/ i = Len(s) + 1 BY <1>1
<1>3. \A i \in 1 .. Len(s) : i \in 1 .. Len(s) + 1 BY <1>1
<1>4. Len(s) + 1 \in 1 .. Len(s) + 1 BY <1>1
<1>5. QED BY <1>1, <1>2, <1>3, <1>4 DEF ToSet

LEMMA EmptySet ==
  ASSUME NEW S, NEW s \in Seq(S)
  PROVE  ToSet(s) \subseteq S /\ (s = <<>> <=> ToSet(s) = {})
<1>1. ToSet(s) \subseteq S BY DEF ToSet
<1>2. DOMAIN s = 1 .. Len(s) /\ Len(s) \in Nat OBVIOUS
<1>3. ASSUME s # <<>> PROVE ToSet(s) # {}
  <2>1. 1 \in DOMAIN s BY <1>3
  <2>2. QED BY <2>1 DEF ToSet
<1>4. ASSUME s = <<>> PROVE ToSet(s) = {} BY <1>4 DEF ToSet
<1>5. QED BY <1>1, <1>3, <1>4

\* What the lanes of a group are given of the edges, as sets.
LEMMA StridedSets ==
  ASSUME NEW S, NEW edges \in Seq(S), NEW n \in Nat \ {0}
  PROVE  /\ \A k \in 0 .. n - 1 : /\ Strided(edges, k, n) \in Seq(S)
                                  /\ ToSet(Strided(edges, k, n)) \subseteq ToSet(edges)
         /\ \A v \in ToSet(edges) : \E k \in 0 .. n - 1 : v \in ToSet(Strided(edges, k, n))
<1>1. ASSUME NEW k \in 0 .. n - 1
      PROVE  /\ Strided(edges, k, n) \in Seq(S)
             /\ ToSet(Strided(edges, k, n)) \subseteq ToSet(edges)
  <2>1. Strided(edges, k, n) \in Seq(S) BY StridedIsPart
  <2>2. \A j \in DOMAIN Strided(edges, k, n) : \E i \in DOMAIN edges :
          Strided(edges, k, n)[j] = edges[i]
    BY StridedIsPart
  <2>3. ToSet(Strided(edges, k, n)) \subseteq ToSet(edges) BY <2>2 DEF ToSet
  <2>4. QED BY <2>1, <2>3
<1>2. ASSUME NEW v \in ToSet(edges)
      PROVE  \E k \in 0 .. n - 1 : v \in ToSet(Strided(edges, k, n))
  <2>1. PICK i \in DOMAIN edges : edges[i] = v BY DEF ToSet
  <2>2. PICK k \in 0 .. n - 1 : \E j \in DOMAIN Strided(edges, k, n) :
          Strided(edges, k, n)[j] = edges[i]
    BY StridedIsAll
  <2>3. QED BY <2>1, <2>2 DEF ToSet
<1>3. QED BY <1>1, <1>2

-----------------------------------------------------------------------------
(***************************************************************************)
(* The search: what each step does                                         *)
(***************************************************************************)
LEMMA TheVertices ==
  ASSUME graph \in AllGraphs
  PROVE  /\ IsFiniteSet(Vertices) /\ 0 \in Vertices /\ NoVertex \notin Vertices
         /\ Vertices \subseteq Nat
         /\ graph \in [Vertices -> Seq(Vertices)]
<1>1. PICK V \in Nat \ {0} : graph \in [0 .. V - 1 -> Seq(0 .. V - 1)] BY DEF AllGraphs
<1>2. Vertices = 0 .. V - 1 BY <1>1 DEF Vertices
<1>3. IsFiniteSet(0 .. V - 1) BY <1>1, FS_Interval
<1>4. QED BY <1>1, <1>2, <1>3 DEF NoVertex

LEMMA GivenLane ==
  ASSUME NEW x \in Lanes, lane \in [Lanes -> LaneRecord], NEW edges \in Seq(Vertices)
  PROVE  LET r == Given(x, edges) IN
         /\ r \in LaneRecord /\ r.todo = edges
         /\ r.at = IF edges = <<>> THEN "meet" ELSE "scan"
         /\ r.u = lane[x].u /\ r.pending = lane[x].pending /\ r.next = lane[x].next
BY DEF Given, LaneRecord

\* Only lane x changes.
Alone(x) == \A y \in Lanes : y # x => lane'[y] = lane[y]

LEMMA ScanEffect ==
  ASSUME BfsType, LaneInv, LevelInv, NEW x \in Lanes, ScanEdge(x)
  PROVE  LET w == Head(lane[x].todo)
             rest == Tail(lane[x].todo)
         IN /\ w \in Vertices /\ rest \in Seq(Vertices)
            /\ ToSet(lane[x].todo) = {w} \cup ToSet(rest)
            /\ lane' \in [Lanes -> LaneRecord] /\ Alone(x)
            /\ lane[x].at = "scan"
            /\ lane'[x].u = lane[x].u /\ lane'[x].pending = lane[x].pending
            /\ lane'[x].next = lane[x].next
            /\ \/ /\ level[w] = -1 /\ level' = [level EXCEPT ![w] = curr_level + 1]
                  /\ lane'[x].at = "enqueue" /\ lane'[x].todo = lane[x].todo
               \/ /\ level[w] # -1 /\ level' = level
                  /\ lane'[x].at = (IF rest = <<>> THEN "meet" ELSE "scan")
                  /\ lane'[x].todo = rest
<1> DEFINE w == Head(lane[x].todo)
           rest == Tail(lane[x].todo)
<1>1. lane[x] \in LaneRecord /\ lane[x].at = "scan" /\ lane[x].todo \in Seq(Vertices)
  BY DEF BfsType, ScanEdge, LaneRecord
<1>2. lane[x].todo # <<>> BY <1>1 DEF LaneInv, LaneGood, HasEdges
<1>3. w \in Vertices /\ rest \in Seq(Vertices) /\ ToSet(lane[x].todo) = {w} \cup ToSet(rest)
  BY <1>1, <1>2, HeadAndTail
<1> HIDE DEF w, rest
<1>4. CASE level[w] = -1
  <2>1. level' = [level EXCEPT ![w] = curr_level + 1] /\ lane' = [lane EXCEPT ![x].at = "enqueue"]
    BY <1>4 DEF ScanEdge, w
  <2>2. [lane[x] EXCEPT !.at = "enqueue"] \in LaneRecord BY <1>1 DEF LaneRecord
  <2>3. lane' \in [Lanes -> LaneRecord] /\ Alone(x) /\ lane'[x] = [lane[x] EXCEPT !.at = "enqueue"]
    BY <2>1, <2>2 DEF BfsType, Alone
  <2>4. QED BY <1>1, <1>3, <1>4, <2>1, <2>3 DEF w, rest, LaneRecord
<1>5. CASE level[w] # -1
  <2> DEFINE r == Given(x, rest)
  <2>1. level' = level /\ lane' = [lane EXCEPT ![x] = r]
    BY <1>5 DEF ScanEdge, w, rest
  <2>2. /\ r \in LaneRecord /\ r.todo = rest
        /\ r.at = IF rest = <<>> THEN "meet" ELSE "scan"
        /\ r.u = lane[x].u /\ r.pending = lane[x].pending /\ r.next = lane[x].next
    BY <1>3, GivenLane DEF BfsType
  <2> HIDE DEF r
  <2>3. lane' \in [Lanes -> LaneRecord] /\ Alone(x) /\ lane'[x] = r
    BY <2>1, <2>2 DEF BfsType, Alone
  <2>4. QED BY <1>1, <1>3, <1>5, <2>1, <2>2, <2>3 DEF w, rest
<1>6. QED BY <1>4, <1>5

LEMMA EnqueueEffect ==
  ASSUME BfsType, LaneInv, LevelInv, NEW x \in Lanes, EnqueueFound(x)
  PROVE  LET w == Head(lane[x].todo)
             rest == Tail(lane[x].todo)
         IN /\ w \in Vertices /\ rest \in Seq(Vertices)
            /\ ToSet(lane[x].todo) = {w} \cup ToSet(rest)
            /\ lane' \in [Lanes -> LaneRecord] /\ Alone(x)
            /\ lane[x].at = "enqueue"
            /\ lane'[x].u = lane[x].u /\ lane'[x].pending = lane[x].pending
            /\ lane'[x].next = lane[x].next + 1
            /\ lane'[x].at = (IF rest = <<>> THEN "meet" ELSE "scan")
            /\ lane'[x].todo = rest
            /\ \/ q_out' = Append(q_out, w) /\ refused' = refused
               \/ q_out' = q_out /\ refused' = refused \cup {w}
<1> DEFINE w == Head(lane[x].todo)
           rest == Tail(lane[x].todo)
           g == Given(x, rest)
           r == [g EXCEPT !.next = @ + 1]
<1>1. lane[x] \in LaneRecord /\ lane[x].at = "enqueue" /\ lane[x].todo \in Seq(Vertices)
      /\ lane[x].next \in Nat
  BY DEF BfsType, EnqueueFound, LaneRecord
<1>2. lane[x].todo # <<>> BY <1>1 DEF LaneInv, LaneGood, HasEdges
<1>3. w \in Vertices /\ rest \in Seq(Vertices) /\ ToSet(lane[x].todo) = {w} \cup ToSet(rest)
  BY <1>1, <1>2, HeadAndTail
<1>4. lane' = [lane EXCEPT ![x] = r] BY DEF EnqueueFound
<1>5. \/ q_out' = Append(q_out, w) /\ refused' = refused
      \/ q_out' = q_out /\ refused' = refused \cup {w}
  <2> DEFINE full == Full
  <2>1. \/ ~ full /\ q_out' = Append(q_out, w) /\ UNCHANGED refused
        \/ full /\ ~ blocking /\ refused' = refused \cup {w} /\ UNCHANGED q_out
    BY DEF EnqueueFound
  <2>2. QED BY <2>1
<1> HIDE DEF w, rest
<1>6. /\ g \in LaneRecord /\ g.todo = rest
      /\ g.at = IF rest = <<>> THEN "meet" ELSE "scan"
      /\ g.u = lane[x].u /\ g.pending = lane[x].pending /\ g.next = lane[x].next
  BY <1>3, GivenLane DEF BfsType
<1> HIDE DEF g
<1>7. /\ r \in LaneRecord /\ r.todo = g.todo /\ r.at = g.at /\ r.u = g.u
      /\ r.pending = g.pending /\ r.next = g.next + 1
  BY <1>6 DEF LaneRecord
<1> HIDE DEF r
<1>8. lane' \in [Lanes -> LaneRecord] /\ Alone(x) /\ lane'[x] = r
  BY <1>4, <1>7 DEF BfsType, Alone
<1>9. QED BY <1>1, <1>3, <1>5, <1>6, <1>7, <1>8 DEF w, rest

LEMMA DequeueEffect ==
  ASSUME BfsType, LaneInv, LevelInv, NEW x \in Lanes, DequeueVertex(x)
  PROVE  LET u == Head(q_in) IN
         /\ u \in Vertices /\ q_in # <<>>
         /\ q_in' \in Seq(Vertices) /\ ToSet(q_in) = {u} \cup ToSet(q_in')
         /\ lane' \in [Lanes -> LaneRecord] /\ Alone(x)
         /\ lane[x].at = "dequeue" /\ lane[x].todo = <<>> /\ lane[x].pending = NoVertex
         /\ lane'[x].u = u /\ lane'[x].next = lane[x].next
         /\ \/ /\ hubs' = hubs /\ lane'[x].todo = graph[u] /\ lane'[x].pending = NoVertex
               /\ lane'[x].at = IF graph[u] = <<>> THEN "meet" ELSE "scan"
            \/ /\ hubs' = Append(hubs, u) /\ lane'[x].todo = <<>> /\ lane'[x].pending = NoVertex
               /\ lane'[x].at = "meet"
            \/ /\ hubs' = hubs /\ lane'[x].todo = <<>> /\ lane'[x].pending = u
               /\ lane'[x].at = "meet"
<1> DEFINE u == Head(q_in)
           mine == [lane[x] EXCEPT !.u = u, !.at = "meet"]
           g == Given(x, graph[u])
<1>1. lane[x] \in LaneRecord /\ lane[x].at = "dequeue" /\ q_in # <<>> /\ q_in \in Seq(Vertices)
  BY DEF BfsType, DequeueVertex
<1>2. lane[x].todo = <<>> /\ lane[x].pending = NoVertex BY <1>1 DEF LaneInv, LaneGood, HasEdges
<1>3. q_in' = Tail(q_in) BY DEF DequeueVertex
<1>4. u \in Vertices /\ q_in' \in Seq(Vertices) /\ ToSet(q_in) = {u} \cup ToSet(q_in')
  BY <1>1, <1>3, HeadAndTail
<1>5. graph[u] \in Seq(Vertices) BY <1>4, TheVertices DEF BfsType
<1>6. \/ /\ lane' = [lane EXCEPT ![x] = [g EXCEPT !.u = u]]
         /\ hubs' = hubs
      \/ hubs' = Append(hubs, u) /\ lane' = [lane EXCEPT ![x] = mine]
      \/ /\ lane' = [lane EXCEPT ![x] = [mine EXCEPT !.pending = u]]
         /\ hubs' = hubs
  BY DEF DequeueVertex
<1> HIDE DEF u
<1>7. /\ g \in LaneRecord /\ g.todo = graph[u]
      /\ g.at = IF graph[u] = <<>> THEN "meet" ELSE "scan"
      /\ g.u = lane[x].u /\ g.pending = lane[x].pending /\ g.next = lane[x].next
  BY <1>5, GivenLane DEF BfsType
<1> HIDE DEF g
<1>8. CASE lane' = [lane EXCEPT ![x] = [g EXCEPT !.u = u]] /\ hubs' = hubs
  <2> DEFINE r == [g EXCEPT !.u = u]
  <2>1. /\ r \in LaneRecord /\ r.u = u /\ r.todo = g.todo /\ r.at = g.at /\ r.next = g.next
        /\ r.pending = g.pending
    BY <1>4, <1>7 DEF LaneRecord, MaybeVertex
  <2>2. lane' = [lane EXCEPT ![x] = r] BY <1>8
  <2> HIDE DEF r
  <2>3. lane' \in [Lanes -> LaneRecord] /\ Alone(x) /\ lane'[x] = r
    BY <2>1, <2>2 DEF BfsType, Alone
  <2>4. QED BY <1>1, <1>2, <1>4, <1>7, <1>8, <2>1, <2>3 DEF u
<1>9. /\ mine \in LaneRecord /\ mine.u = u /\ mine.at = "meet"
      /\ mine.todo = <<>> /\ mine.pending = NoVertex /\ mine.next = lane[x].next
  BY <1>1, <1>2, <1>4 DEF LaneRecord, MaybeVertex
<1> HIDE DEF mine
<1>10. CASE hubs' = Append(hubs, u) /\ lane' = [lane EXCEPT ![x] = mine]
  <2>1. lane' \in [Lanes -> LaneRecord] /\ Alone(x) /\ lane'[x] = mine
    BY <1>9, <1>10 DEF BfsType, Alone
  <2>2. QED BY <1>1, <1>2, <1>4, <1>9, <1>10, <2>1 DEF u
<1>11. CASE lane' = [lane EXCEPT ![x] = [mine EXCEPT !.pending = u]] /\ hubs' = hubs
  <2> DEFINE r == [mine EXCEPT !.pending = u]
  <2>1. /\ r \in LaneRecord /\ r.u = u /\ r.todo = <<>> /\ r.at = "meet"
        /\ r.next = mine.next /\ r.pending = u
    BY <1>4, <1>9 DEF LaneRecord, MaybeVertex
  <2>2. lane' = [lane EXCEPT ![x] = r] BY <1>11
  <2> HIDE DEF r
  <2>3. lane' \in [Lanes -> LaneRecord] /\ Alone(x) /\ lane'[x] = r
    BY <2>1, <2>2 DEF BfsType, Alone
  <2>4. QED BY <1>1, <1>2, <1>4, <1>9, <1>11, <2>1, <2>3 DEF u
<1>12. QED BY <1>6, <1>8, <1>10, <1>11

LEMMA DequeueNoneEffect ==
  ASSUME BfsType, LaneInv, LevelInv, NEW x \in Lanes, DequeueNone(x)
  PROVE  /\ q_in = <<>>
         /\ lane' \in [Lanes -> LaneRecord] /\ Alone(x)
         /\ lane[x].at = "dequeue" /\ lane[x].todo = <<>> /\ lane[x].pending = NoVertex
         /\ lane'[x].u = NoVertex /\ lane'[x].next = lane[x].next
         /\ lane'[x].at = "meet" /\ lane'[x].todo = <<>> /\ lane'[x].pending = NoVertex
<1> DEFINE r == [lane[x] EXCEPT !.at = "meet", !.u = NoVertex]
<1>1. lane[x] \in LaneRecord /\ lane[x].at = "dequeue" /\ q_in = <<>>
  BY DEF BfsType, DequeueNone
<1>2. lane[x].todo = <<>> /\ lane[x].pending = NoVertex BY <1>1 DEF LaneInv, LaneGood, HasEdges
<1>3. lane' = [lane EXCEPT ![x] = r] BY DEF DequeueNone, BfsType
<1>4. /\ r \in LaneRecord /\ r.u = NoVertex /\ r.at = "meet" /\ r.todo = <<>>
      /\ r.pending = NoVertex /\ r.next = lane[x].next
  BY <1>1, <1>2 DEF LaneRecord, MaybeVertex
<1> HIDE DEF r
<1>5. lane' \in [Lanes -> LaneRecord] /\ Alone(x) /\ lane'[x] = r
  BY <1>3, <1>4 DEF BfsType, Alone
<1>6. QED BY <1>1, <1>2, <1>4, <1>5

\* A group of lanes is given the edges of vertex p; only lane o was the one that had p.
SharesOut(group, p, o) ==
  /\ p \in Vertices
  /\ \A x \in Lanes \ group : lane'[x] = lane[x]
  /\ \A x \in group :
       /\ lane[x].at = "meet" /\ lane[x].todo = <<>>
       /\ lane'[x].u = lane[x].u /\ lane'[x].next = lane[x].next
       /\ lane'[x].pending = IF x = o THEN NoVertex ELSE lane[x].pending
       /\ lane'[x].at = IF lane'[x].todo = <<>> THEN "meet" ELSE "scan"
       /\ ToSet(lane'[x].todo) \subseteq ToSet(graph[p])
  /\ \A v \in ToSet(graph[p]) : \E x \in group : v \in ToSet(lane'[x].todo)
  /\ group \subseteq Lanes /\ lane' \in [Lanes -> LaneRecord]

LEMMA ShareEffect ==
  ASSUME BfsType, LaneInv, LevelInv, NEW w \in 0 .. NumWaves - 1, ShareVertex(w)
  PROVE  \E o \in Wave(w) : /\ lane[o].pending # NoVertex
                            /\ SharesOut(Wave(w), lane[o].pending, o)
<1> DEFINE owners == {x \in Wave(w) : lane[x].pending # NoVertex}
           o == CHOOSE x \in owners : \A y \in owners : x[2] <= y[2]
           p == lane[o].pending
<1>1. Wave(w) \subseteq Lanes BY LaneNumbers
<1>2. o \in owners
  <2> DEFINE places == {x[2] : x \in owners}
  <2>1. owners # {} BY DEF ShareVertex
  <2>2. places \in SUBSET Nat /\ places # {} BY <1>1, <2>1, LaneNumbers
  <2>3. PICK n \in places : \A k \in places : n <= k
    <3> HIDE DEF places
    <3>1. QED BY <2>2, Smallest
  <2>4. \E x \in owners : \A y \in owners : x[2] <= y[2] BY <2>3
  <2> HIDE DEF owners
  <2>5. QED BY <2>4
<1>3. \A x \in Wave(w) : lane[x].at = "meet" BY DEF ShareVertex, WaveMeets
<1>4. lane' = [x \in Lanes |->
          IF x \notin Wave(w) THEN lane[x]
          ELSE [Given(x, Strided(graph[p], x[2], WarpSize))
                  EXCEPT !.pending = IF x = o THEN NoVertex ELSE @]]
  BY DEF ShareVertex
<1> HIDE DEF o
<1>5. o \in Wave(w) /\ p # NoVertex BY <1>2
<1>6. p \in Vertices
  <2>1. lane[o] \in LaneRecord BY <1>1, <1>5 DEF BfsType
  <2>2. QED BY <1>5, <2>1 DEF LaneRecord, MaybeVertex
<1> HIDE DEF p
<1>7. graph[p] \in Seq(Vertices) BY <1>6, TheVertices DEF BfsType
<1>8. WarpSize \in Nat \ {0} BY BfsAssumption
<1>9. ASSUME NEW x \in Wave(w)
      PROVE  /\ lane[x].todo = <<>>
             /\ lane'[x] \in LaneRecord
             /\ lane'[x].u = lane[x].u /\ lane'[x].next = lane[x].next
             /\ lane'[x].pending = IF x = o THEN NoVertex ELSE lane[x].pending
             /\ lane'[x].at = IF lane'[x].todo = <<>> THEN "meet" ELSE "scan"
             /\ lane'[x].todo = Strided(graph[p], x[2], WarpSize)
             /\ ToSet(lane'[x].todo) \subseteq ToSet(graph[p])
  <2> DEFINE part == Strided(graph[p], x[2], WarpSize)
             g == Given(x, part)
             r == [g EXCEPT !.pending = IF x = o THEN NoVertex ELSE @]
  <2>1. x \in Lanes /\ x[2] \in 0 .. WarpSize - 1 BY <1>1, LaneNumbers
  <2>2. part \in Seq(Vertices) /\ ToSet(part) \subseteq ToSet(graph[p])
    BY <1>7, <1>8, <2>1, StridedSets
  <2>3. lane[x].todo = <<>> BY <1>3, <2>1 DEF LaneInv, LaneGood, HasEdges
  <2>4. lane'[x] = r BY <1>4, <2>1
  <2> HIDE DEF part
  <2>5. /\ g \in LaneRecord /\ g.todo = part
        /\ g.at = IF part = <<>> THEN "meet" ELSE "scan"
        /\ g.u = lane[x].u /\ g.pending = lane[x].pending /\ g.next = lane[x].next
    BY <2>1, <2>2, GivenLane DEF BfsType
  <2> HIDE DEF g
  <2>6. /\ r \in LaneRecord /\ r.todo = part /\ r.at = g.at /\ r.u = g.u /\ r.next = g.next
        /\ r.pending = IF x = o THEN NoVertex ELSE g.pending
    BY <2>5 DEF LaneRecord, MaybeVertex
  <2> HIDE DEF r
  <2>7. QED BY <2>2, <2>3, <2>4, <2>5, <2>6 DEF part
<1>10. \A x \in Lanes \ Wave(w) : lane'[x] = lane[x] BY <1>4
<1>11. lane' \in [Lanes -> LaneRecord]
  <2>1. \A x \in Lanes : lane'[x] \in LaneRecord BY <1>9, <1>10 DEF BfsType
  <2>2. lane' = [x \in Lanes |-> lane'[x]] BY <1>4
  <2>3. QED BY <2>1, <2>2
<1>12. ASSUME NEW v \in ToSet(graph[p])
       PROVE  \E x \in Wave(w) : v \in ToSet(lane'[x].todo)
  <2>1. PICK k \in 0 .. WarpSize - 1 : v \in ToSet(Strided(graph[p], k, WarpSize))
    BY <1>7, <1>8, StridedSets
  <2>2. <<w, k>> \in Wave(w) BY LaneNumbers
  <2>3. lane'[<<w, k>>].todo = Strided(graph[p], <<w, k>>[2], WarpSize) BY <1>9, <2>2
  <2>4. <<w, k>>[2] = k OBVIOUS
  <2>5. QED BY <2>1, <2>2, <2>3, <2>4
<1>13. SharesOut(Wave(w), p, o)
  BY <1>1, <1>3, <1>6, <1>9, <1>10, <1>11, <1>12 DEF SharesOut
<1>14. QED BY <1>5, <1>13 DEF p

LEMMA HubEffect ==
  ASSUME BfsType, LaneInv, LevelInv, NextHub
  PROVE  /\ SharesOut(Lanes, Head(hubs), NoVertex)
         /\ \A x \in Lanes : lane'[x].pending = lane[x].pending
         /\ hubs' \in Seq(Vertices) /\ ToSet(hubs) = {Head(hubs)} \cup ToSet(hubs')
<1> DEFINE p == Head(hubs)
           n == BlockDim
<1>1. hubs # <<>> /\ hubs \in Seq(Vertices) /\ hubs' = Tail(hubs) BY DEF NextHub, BfsType
<1>2. p \in Vertices /\ hubs' \in Seq(Vertices) /\ ToSet(hubs) = {p} \cup ToSet(hubs')
  BY <1>1, HeadAndTail
<1>3. lane' = [x \in Lanes |-> Given(x, Strided(graph[p], ThreadIdx(x), n))]
  BY DEF NextHub
<1> HIDE DEF p
<1>4. \A x \in Lanes : lane[x].at = "meet" BY DEF NextHub, AllAt
<1>5. graph[p] \in Seq(Vertices) BY <1>2, TheVertices DEF BfsType
<1>6. /\ n \in Nat \ {0}
      /\ \A x \in Lanes : ThreadIdx(x) \in 0 .. n - 1
      /\ \A k \in 0 .. n - 1 : \E x \in Lanes : ThreadIdx(x) = k
  BY ThreadNumbers
<1> HIDE DEF n
<1>7. ASSUME NEW x \in Lanes
      PROVE  /\ lane[x].todo = <<>> /\ lane[x].pending = NoVertex
             /\ lane'[x] \in LaneRecord
             /\ lane'[x].u = lane[x].u /\ lane'[x].next = lane[x].next
             /\ lane'[x].pending = lane[x].pending
             /\ lane'[x].at = IF lane'[x].todo = <<>> THEN "meet" ELSE "scan"
             /\ lane'[x].todo = Strided(graph[p], ThreadIdx(x), n)
             /\ ToSet(lane'[x].todo) \subseteq ToSet(graph[p])
  <2> DEFINE k == ThreadIdx(x)
             part == Strided(graph[p], k, n)
  <2>1. k \in 0 .. n - 1 BY <1>6
  <2>2. lane'[x] = Given(x, part) BY <1>3
  <2> HIDE DEF k
  <2>3. part \in Seq(Vertices) /\ ToSet(part) \subseteq ToSet(graph[p])
    BY <1>5, <1>6, <2>1, StridedSets
  <2>4. lane[x].todo = <<>> /\ lane[x].pending = NoVertex
    BY <1>4 DEF LaneInv, LaneGood, HasEdges, NextHub
  <2> DEFINE g == Given(x, part)
  <2>5. part = Strided(graph[p], ThreadIdx(x), n) BY DEF k
  <2> HIDE DEF part
  <2>6. /\ g \in LaneRecord /\ g.todo = part
        /\ g.at = IF part = <<>> THEN "meet" ELSE "scan"
        /\ g.u = lane[x].u /\ g.pending = lane[x].pending /\ g.next = lane[x].next
    BY <2>3, GivenLane DEF BfsType
  <2> HIDE DEF g
  <2>7. lane'[x] = g BY <2>2 DEF g
  <2>8. QED BY <2>3, <2>4, <2>5, <2>6, <2>7
<1>8. lane' \in [Lanes -> LaneRecord] BY <1>3, <1>7
<1>9. ASSUME NEW v \in ToSet(graph[p])
      PROVE  \E x \in Lanes : v \in ToSet(lane'[x].todo)
  <2>1. PICK k \in 0 .. n - 1 : v \in ToSet(Strided(graph[p], k, n))
    BY <1>5, <1>6, StridedSets
  <2>2. PICK x \in Lanes : ThreadIdx(x) = k BY <1>6
  <2>3. QED BY <1>7, <2>1, <2>2
<1>10. SharesOut(Lanes, p, NoVertex)
  BY <1>2, <1>4, <1>7, <1>8, <1>9 DEF SharesOut
<1>11. QED BY <1>2, <1>7, <1>10 DEF p

LEMMA VoteEffect ==
  ASSUME BfsType, LaneInv, LevelInv, NEW w \in 0 .. NumWaves - 1, VoteExit(w)
  PROVE  /\ lane' \in [Lanes -> LaneRecord]
         /\ \A x \in Lanes \ Wave(w) : lane'[x] = lane[x]
         /\ \A x \in Wave(w) :
              /\ lane[x].at = "meet" /\ lane[x].todo = <<>> /\ lane[x].pending = NoVertex
              /\ lane'[x].u = lane[x].u /\ lane'[x].next = lane[x].next
              /\ lane'[x].todo = <<>> /\ lane'[x].pending = NoVertex
              /\ \/ lane'[x].at = "dequeue"
                 \/ lane'[x].at = "out" /\ lane[x].u = NoVertex
         /\ Wave(w) \subseteq Lanes
<1> DEFINE allEmpty == \A x \in Wave(w) : lane[x].u = NoVertex
           next == IF allEmpty THEN "out" ELSE "dequeue"
<1>1. Wave(w) \subseteq Lanes BY LaneNumbers
<1>2. lane' = [x \in Lanes |-> IF x \notin Wave(w) THEN lane[x]
                               ELSE [lane[x] EXCEPT !.at = next]]
  BY DEF VoteExit
<1>3. \A x \in Wave(w) : lane[x].at = "meet" /\ lane[x].pending = NoVertex
  BY DEF VoteExit, WaveMeets
<1>4. next \in {"out", "dequeue"} /\ (next = "out" => allEmpty) OBVIOUS
<1> HIDE DEF next
<1>5. ASSUME NEW x \in Wave(w)
      PROVE  /\ lane[x].todo = <<>> /\ lane'[x] \in LaneRecord
             /\ lane'[x].u = lane[x].u /\ lane'[x].next = lane[x].next
             /\ lane'[x].todo = <<>> /\ lane'[x].pending = NoVertex /\ lane'[x].at = next
  <2>1. lane[x] \in LaneRecord /\ x \in Lanes BY <1>1 DEF BfsType
  <2>2. lane[x].todo = <<>> BY <1>3, <2>1 DEF LaneInv, LaneGood, HasEdges
  <2>3. lane'[x] = [lane[x] EXCEPT !.at = next] BY <1>2, <2>1
  <2>4. QED BY <1>3, <1>4, <2>1, <2>2, <2>3 DEF LaneRecord
<1>6. \A x \in Lanes \ Wave(w) : lane'[x] = lane[x] BY <1>2
<1>7. lane' \in [Lanes -> LaneRecord]
  <2>1. \A x \in Lanes : lane'[x] \in LaneRecord BY <1>5, <1>6 DEF BfsType
  <2>2. lane' = [x \in Lanes |-> lane'[x]] BY <1>2
  <2>3. QED BY <2>1, <2>2
<1>8. QED BY <1>1, <1>3, <1>4, <1>5, <1>6, <1>7

-----------------------------------------------------------------------------
(***************************************************************************)
(* The search: the invariant is kept                                       *)
(***************************************************************************)
LEMMA SameGraph ==
  ASSUME graph' = graph, source' = source
  PROVE  /\ Vertices' = Vertices /\ MaybeVertex' = MaybeVertex /\ LaneRecord' = LaneRecord
         /\ Within' = Within
         /\ \A u, v : Edge(u, v)' <=> Edge(u, v)
<1>1. Vertices' = Vertices BY DEF Vertices
<1>2. MaybeVertex' = MaybeVertex BY <1>1 DEF MaybeVertex
<1>3. LaneRecord' = LaneRecord BY <1>1, <1>2 DEF LaneRecord
<1>4. Within' = Within BY DEF Within, Vertices, Edge
<1>5. \A u, v : Edge(u, v)' <=> Edge(u, v) BY DEF Edge
<1>6. QED BY <1>1, <1>2, <1>3, <1>4, <1>5

LEMMA TokensAre ==
  ASSUME lane \in [Lanes -> LaneRecord]
  PROVE  /\ \A x \in Lanes : Limit(x) \in Nat
         /\ \A p : p \in Tokens <=> \E x \in Lanes : \E i \in 1 .. Limit(x) : p = <<x, i>>
<1>1. \A x \in Lanes : Limit(x) \in Nat BY DEF Limit, LaneRecord
<1>2. ASSUME NEW p
      PROVE  p \in Tokens <=> \E x \in Lanes : \E i \in 1 .. Limit(x) : p = <<x, i>>
  BY DEF Tokens
<1>3. QED BY <1>1, <1>2

\* A step that gives no vertex a level, and enqueues what it counts.
LEMMA CountStays ==
  ASSUME BfsType, CountInv, level' = level, graph' = graph, curr_level' = curr_level,
         reached' = reached, next_count' = next_count, bfsKernel' = bfsKernel,
         \A x \in Lanes : Limit(x)' = Limit(x)
  PROVE  CountInv'
<1>1. Vertices' = Vertices BY DEF Vertices
<1>2. UpTo(curr_level)' = UpTo(curr_level) BY <1>1 DEF UpTo
<1>3. AtLevel(curr_level + 1)' = AtLevel(curr_level + 1) BY <1>1 DEF AtLevel
<1>4. Tokens' = Tokens BY DEF Tokens
<1>5. BlockIsPowerOfTwo' <=> BlockIsPowerOfTwo BY DEF BlockIsPowerOfTwo
<1>6. QED BY <1>1, <1>2, <1>3, <1>4, <1>5 DEF CountInv, Counted, Working

LEMMA ScanKeeps ==
  ASSUME Running, NEW x \in Lanes, ScanEdge(x)
  PROVE  Running'
<1> DEFINE w == Head(lane[x].todo)
           rest == Tail(lane[x].todo)
<1> USE DEF Running
<1>1. /\ w \in Vertices /\ rest \in Seq(Vertices)
      /\ ToSet(lane[x].todo) = {w} \cup ToSet(rest)
      /\ lane' \in [Lanes -> LaneRecord] /\ Alone(x) /\ lane[x].at = "scan"
      /\ lane'[x].u = lane[x].u /\ lane'[x].pending = lane[x].pending
      /\ lane'[x].next = lane[x].next
  BY ScanEffect
<1>2. \/ /\ level[w] = -1 /\ level' = [level EXCEPT ![w] = curr_level + 1]
         /\ lane'[x].at = "enqueue" /\ lane'[x].todo = lane[x].todo
      \/ /\ level[w] # -1 /\ level' = level
         /\ lane'[x].at = (IF rest = <<>> THEN "meet" ELSE "scan")
         /\ lane'[x].todo = rest
  BY ScanEffect
<1>3. w = Head(lane[x].todo) OBVIOUS
<1> HIDE DEF w, rest
<1>4. UNCHANGED <<bfsKernel, blocking, graph, source, curr_level, frontier, reached, q_in, q_out, hubs,
                  next_count, refused>>
  BY DEF ScanEdge, counters
<1>5. /\ Vertices' = Vertices /\ MaybeVertex' = MaybeVertex /\ LaneRecord' = LaneRecord
      /\ Within' = Within
      /\ \A u, v : Edge(u, v)' <=> Edge(u, v)
  BY <1>4, SameGraph
<1>6. curr_level \in Nat /\ bfsKernel \notin {"host", "done"}
  BY <1>1 DEF BfsType, LaneInv, LaneGood, Idle
<1>7. level' \in [Vertices -> Int] /\ \A v \in Vertices : level'[v] = level[v] \/
         (v = w /\ level[w] = -1 /\ level'[w] = curr_level + 1)
  BY <1>2, <1>6 DEF BfsType
<1>8. BfsType' BY <1>1, <1>4, <1>5, <1>7 DEF BfsType
<1>9. LaneInv'
  <2> SUFFICES ASSUME NEW y \in Lanes
               PROVE  LaneGood(y)'
    BY DEF LaneInv
  <2>1. CASE y # x
    <3>1. lane'[y] = lane[y] BY <1>1, <2>1 DEF Alone
    <3>2. QED BY <1>4, <3>1 DEF LaneInv, LaneGood, HasEdges, Working
  <2>2. CASE y = x
    <3>1. lane[x].todo # <<>> BY <1>1 DEF LaneInv, LaneGood, HasEdges
    <3>2. lane'[x].at \in {"scan", "enqueue", "meet"} BY <1>2
    <3>3. QED BY <1>1, <1>2, <1>4, <1>6, <2>2, <3>1, <3>2 DEF LaneInv, LaneGood, HasEdges, Working
  <2>3. QED BY <2>1, <2>2
<1>10. LevelInv'
  <2>1. \A v \in Vertices : level'[v] \in -1 .. curr_level + 1 /\ (level'[v] = 0 <=> v = source)
    BY <1>6, <1>7 DEF LevelInv
  <2>2. \A v \in Vertices : level[v] # -1 => level'[v] = level[v] BY <1>7
  <2>3. /\ \A v \in ToSet(q_in) : v \in Vertices
        /\ \A v \in ToSet(q_out) : v \in Vertices
        /\ \A v \in ToSet(hubs) : v \in Vertices
    BY EmptySet DEF BfsType
  <2>4. /\ \A v \in ToSet(q_in) : level'[v] = curr_level
        /\ \A v \in ToSet(hubs) : level'[v] = curr_level
        /\ \A v \in ToSet(q_out) : level'[v] = curr_level + 1
    BY <1>6, <2>2, <2>3 DEF LevelInv
  <2>5. ASSUME NEW y \in Lanes, lane'[y].pending # NoVertex
        PROVE  level'[lane'[y].pending] = curr_level
    <3>1. lane'[y].pending = lane[y].pending BY <1>1 DEF Alone
    <3>2. lane[y].pending \in Vertices BY <2>5, <3>1 DEF BfsType, LaneRecord, MaybeVertex
    <3>3. level[lane[y].pending] = curr_level BY <2>5, <3>1 DEF LevelInv
    <3>4. QED BY <1>6, <2>2, <3>1, <3>2, <3>3
  <2>6. ASSUME NEW y \in Lanes, NEW v \in ToSet(lane'[y].todo)
        PROVE  \E u \in Vertices : level'[u] = curr_level /\ Edge(u, v)
    <3>1. v \in ToSet(lane[y].todo) BY <1>1, <1>2 DEF Alone
    <3>2. PICK u \in Vertices : level[u] = curr_level /\ Edge(u, v) BY <3>1 DEF LevelInv
    <3>3. QED BY <1>6, <2>2, <3>2
  <2>7. ASSUME NEW y \in Lanes, lane'[y].at = "enqueue"
        PROVE  level'[Head(lane'[y].todo)] = curr_level + 1
    <3>1. CASE y = x BY <1>1, <1>2, <1>3, <1>7, <2>7, <3>1
    <3>2. CASE y # x
      <4>1. lane'[y] = lane[y] BY <1>1, <3>2 DEF Alone
      <4>2. lane[y].todo \in Seq(Vertices) /\ lane[y].todo # <<>>
        BY <2>7, <4>1 DEF BfsType, LaneRecord, LaneInv, LaneGood, HasEdges
      <4>3. Head(lane[y].todo) \in Vertices BY <4>2, HeadAndTail
      <4>4. level[Head(lane[y].todo)] = curr_level + 1 BY <2>7, <4>1 DEF LevelInv
      <4>5. QED BY <1>6, <2>2, <4>1, <4>3, <4>4
    <3>3. QED BY <3>1, <3>2
  <2>8. QED BY <1>4, <1>5, <1>6, <2>1, <2>4, <2>5, <2>6, <2>7 DEF LevelInv
<1>11. WorkInv'
  <2> SUFFICES ASSUME refused = {}, Working
               PROVE  /\ \A u, v \in Vertices :
                           level'[u] = curr_level /\ Edge(u, v) /\ level'[v] = -1 => Awaits(u, v)'
                      /\ \A v \in Vertices : level'[v] = curr_level + 1 =>
                           \/ v \in ToSet(q_out)
                           \/ \E y \in Lanes : lane'[y].at = "enqueue" /\ Head(lane'[y].todo) = v
    BY <1>4, <1>5 DEF WorkInv, Working
  <2>1. ASSUME NEW u \in Vertices, NEW v \in Vertices,
               level'[u] = curr_level, Edge(u, v), level'[v] = -1
        PROVE  Awaits(u, v)'
    <3>1. level[v] = -1 /\ level[u] = curr_level /\ v # w
      BY <1>2, <1>6, <1>7, <2>1 DEF BfsType
    <3>2. Awaits(u, v) BY <2>1, <3>1 DEF WorkInv
    <3>3. \A y \in Lanes : v \in ToSet(lane[y].todo) => v \in ToSet(lane'[y].todo)
      BY <1>1, <1>2, <3>1 DEF Alone
    <3>4. \A y \in Lanes : lane'[y].pending = lane[y].pending BY <1>1 DEF Alone
    <3>5. QED BY <1>4, <3>2, <3>3, <3>4 DEF Awaits
  <2>2. ASSUME NEW v \in Vertices, level'[v] = curr_level + 1
        PROVE  \/ v \in ToSet(q_out)
               \/ \E y \in Lanes : lane'[y].at = "enqueue" /\ Head(lane'[y].todo) = v
    <3>1. CASE v = w /\ level[w] = -1 BY <1>2, <1>3, <3>1
    <3>2. CASE ~ (v = w /\ level[w] = -1)
      <4>1. level[v] = curr_level + 1 BY <1>7, <2>2, <3>2
      <4>2. CASE v \in ToSet(q_out) BY <4>2
      <4>3. ASSUME NEW y \in Lanes, lane[y].at = "enqueue", Head(lane[y].todo) = v
            PROVE  lane'[y].at = "enqueue" /\ Head(lane'[y].todo) = v
        <5>1. y # x BY <1>1, <4>3
        <5>2. QED BY <1>1, <4>3, <5>1 DEF Alone
      <4>4. QED BY <4>1, <4>2, <4>3 DEF WorkInv
    <3>3. QED BY <3>1, <3>2
  <2>3. QED BY <2>1, <2>2
<1>12. DistInv'
  <2>1. source \in Vertices BY DEF BfsType
  <2>2. ASSUME NEW v \in Vertices, level'[v] # -1 PROVE v \in Within[level'[v]]
    <3>1. CASE level'[v] = level[v] BY <2>2, <3>1 DEF DistInv
    <3>2. CASE v = w /\ level'[w] = curr_level + 1
      <4>1. PICK u \in Vertices : level[u] = curr_level /\ Edge(u, w) BY <1>1 DEF LevelInv
      <4>2. u \in Within[curr_level] BY <1>6, <4>1 DEF DistInv
      <4>3. Within[curr_level + 1] =
              Within[curr_level] \cup
                {z \in Vertices : \E y \in Within[curr_level] : Edge(y, z)}
        BY <1>6, <2>1, WithinFacts
      <4>4. QED BY <1>1, <3>2, <4>1, <4>2, <4>3
    <3>3. QED BY <1>7, <2>2, <3>1, <3>2
  <2>3. ASSUME refused = {}, NEW n \in 0 .. curr_level, NEW v \in Within[n]
        PROVE  level'[v] \in 0 .. n
    <3>1. level[v] \in 0 .. n BY <2>3 DEF DistInv
    <3>2. v \in Vertices BY <1>6, <2>1, WithinVertices
    <3>3. QED BY <1>7, <3>1, <3>2
  <2>4. QED BY <1>4, <1>5, <2>2, <2>3 DEF DistInv
<1>13. CountInv'
  <2>1. CASE level' = level /\ lane'[x].at # "enqueue"
    <3>1. \A y \in Lanes : Limit(y)' = Limit(y) BY <1>1, <2>1 DEF Limit, Alone
    <3>2. QED BY <1>4, <2>1, <3>1, CountStays
  <2>2. CASE level[w] = -1 /\ lane'[x].at = "enqueue"
    <3>1. level'[w] = curr_level + 1 BY <1>2, <1>1, <2>2 DEF BfsType
    <3>2. UpTo(curr_level)' = UpTo(curr_level) BY <1>4, <1>5, <1>6, <1>7, <2>2, <3>1 DEF UpTo
    <3>3. AtLevel(curr_level + 1)' = AtLevel(curr_level + 1) \cup {w} /\ w \notin AtLevel(curr_level + 1)
      BY <1>1, <1>4, <1>5, <1>6, <1>7, <2>2, <3>1 DEF AtLevel
    <3>4. IsFiniteSet(AtLevel(curr_level + 1))
      <4>1. IsFiniteSet(Vertices) BY TheVertices DEF BfsType
      <4>2. QED BY <4>1, FS_Subset DEF AtLevel
    <3>5. Cardinality(AtLevel(curr_level + 1))' = Cardinality(AtLevel(curr_level + 1)) + 1
      BY <3>3, <3>4, FS_AddElement
    <3> DEFINE m == Limit(x)
    <3>6. m \in Nat /\ Limit(x)' = m + 1 /\ \A y \in Lanes : y # x => Limit(y)' = Limit(y)
      BY <1>1, <2>2 DEF Limit, Alone, BfsType, LaneRecord
    <3> HIDE DEF m
    <3>7. Tokens' = Tokens \cup {<<x, m + 1>>} /\ <<x, m + 1>> \notin Tokens
      <4>1. \A p : p \in Tokens <=> \E y \in Lanes : \E i \in 1 .. Limit(y) : p = <<y, i>>
        BY TokensAre DEF BfsType
      <4>2. \A p : p \in Tokens' <=> \E y \in Lanes : \E i \in 1 .. Limit(y)' : p = <<y, i>>
        BY DEF Tokens
      <4>3. 1 .. m + 1 = (1 .. m) \cup {m + 1} /\ m + 1 \notin 1 .. m BY <3>6
      <4>4. QED BY <3>6, <4>1, <4>2, <4>3 DEF m
    <3>8. IsFiniteSet(Tokens') /\ Cardinality(Tokens') = Cardinality(Tokens) + 1
      BY <3>7, FS_AddElement DEF CountInv
    <3>9. Cardinality(Tokens) \in Nat BY FS_CardinalityType DEF CountInv
    <3>10. BlockIsPowerOfTwo' <=> BlockIsPowerOfTwo BY DEF BlockIsPowerOfTwo
    <3>11. ASSUME Counted PROVE Counted'
      <4>1. {reached, next_count} \subseteq Nat /\ bfsKernel \notin {"host", "done"}
        BY <1>6, <3>11 DEF Counted
      <4>2. QED BY <1>4, <3>2, <3>5, <3>8, <3>9, <3>11, <4>1 DEF Counted, Working
    <3>12. QED BY <3>8, <3>10, <3>11 DEF CountInv
  <2>3. QED BY <1>2, <2>1, <2>2
<1>14. QED BY <1>8, <1>9, <1>10, <1>11, <1>12, <1>13

\* A step that gives no vertex a level.
LEMMA LevelsStay ==
  ASSUME Running, level' = level,
         UNCHANGED <<bfsKernel, blocking, graph, source, curr_level, reached, next_count>>,
         refused \subseteq refused', \A x \in Lanes : Limit(x)' = Limit(x)
  PROVE  DistInv' /\ CountInv'
<1>1. /\ Vertices' = Vertices /\ Within' = Within
      /\ \A u, v : Edge(u, v)' <=> Edge(u, v)
  BY SameGraph
<1>2. DistInv' BY <1>1 DEF DistInv, Running
<1>3. CountInv' BY CountStays DEF Running
<1>4. QED BY <1>2, <1>3

LEMMA PutFoundKeeps ==
  ASSUME Running, NEW x \in Lanes, EnqueueFound(x)
  PROVE  Running'
<1> DEFINE w == Head(lane[x].todo)
           rest == Tail(lane[x].todo)
<1> USE DEF Running
<1>1. /\ w \in Vertices /\ rest \in Seq(Vertices)
      /\ ToSet(lane[x].todo) = {w} \cup ToSet(rest)
      /\ lane' \in [Lanes -> LaneRecord] /\ Alone(x) /\ lane[x].at = "enqueue"
      /\ lane'[x].u = lane[x].u /\ lane'[x].pending = lane[x].pending
      /\ lane'[x].next = lane[x].next + 1
      /\ lane'[x].at = (IF rest = <<>> THEN "meet" ELSE "scan")
      /\ lane'[x].todo = rest
  BY EnqueueEffect
<1>2. \/ q_out' = Append(q_out, w) /\ refused' = refused
      \/ q_out' = q_out /\ refused' = refused \cup {w}
  BY EnqueueEffect
<1>3. w = Head(lane[x].todo) OBVIOUS
<1> HIDE DEF w, rest
<1>4. UNCHANGED <<bfsKernel, blocking, graph, source, curr_level, frontier, reached, q_in, hubs, level,
                  next_count>>
  BY DEF EnqueueFound, counters
<1>5. /\ Vertices' = Vertices /\ MaybeVertex' = MaybeVertex /\ LaneRecord' = LaneRecord
      /\ Within' = Within
      /\ \A u, v : Edge(u, v)' <=> Edge(u, v)
  BY <1>4, SameGraph
<1>6. curr_level \in Nat /\ bfsKernel \notin {"host", "done"} /\ lane[x].next \in Nat
  BY <1>1 DEF BfsType, LaneInv, LaneGood, Idle, LaneRecord
<1>7. /\ q_out' \in Seq(Vertices) /\ refused' \subseteq Vertices /\ refused \subseteq refused'
      /\ ToSet(q_out') \subseteq ToSet(q_out) \cup {w} /\ ToSet(q_out) \subseteq ToSet(q_out')
      /\ refused' = {} => w \in ToSet(q_out')
  <2>1. q_out \in Seq(Vertices) /\ refused \subseteq Vertices BY DEF BfsType
  <2>2. /\ Append(q_out, w) \in Seq(Vertices)
        /\ ToSet(Append(q_out, w)) = ToSet(q_out) \cup {w}
    BY <1>1, <2>1, AppendSet
  <2>3. CASE q_out' = Append(q_out, w) /\ refused' = refused
    BY <2>1, <2>2, <2>3
  <2>4. CASE q_out' = q_out /\ refused' = refused \cup {w}
    BY <1>1, <2>1, <2>4
  <2>5. QED BY <1>2, <2>3, <2>4
<1>8. BfsType' BY <1>1, <1>4, <1>5, <1>7 DEF BfsType
<1>9. LaneInv'
  <2> SUFFICES ASSUME NEW y \in Lanes PROVE LaneGood(y)' BY DEF LaneInv
  <2>1. CASE y # x
    <3>1. lane'[y] = lane[y] BY <1>1, <2>1 DEF Alone
    <3>2. QED BY <1>4, <3>1 DEF LaneInv, LaneGood, HasEdges, Working
  <2>2. CASE y = x
    <3>1. QED BY <1>1, <1>4, <1>6, <2>2 DEF LaneInv, LaneGood, HasEdges, Working
  <2>3. QED BY <2>1, <2>2
<1>10. LevelInv'
  <2>1. level[w] = curr_level + 1 BY <1>1, <1>3 DEF LevelInv
  <2>2. \A v \in ToSet(q_out') : level[v] = curr_level + 1 BY <1>7, <2>1 DEF LevelInv
  <2>3. \A y \in Lanes : lane'[y].pending = lane[y].pending BY <1>1 DEF Alone
  <2>4. \A y \in Lanes : ToSet(lane'[y].todo) \subseteq ToSet(lane[y].todo)
    BY <1>1 DEF Alone
  <2>5. \A y \in Lanes : lane'[y].at = "enqueue" => lane'[y] = lane[y]
    BY <1>1 DEF Alone
  <2>6. QED BY <1>4, <1>5, <2>2, <2>3, <2>4, <2>5 DEF LevelInv
<1>11. WorkInv'
  <2> SUFFICES ASSUME refused' = {}, Working
               PROVE  /\ \A u, v \in Vertices :
                           level[u] = curr_level /\ Edge(u, v) /\ level[v] = -1 => Awaits(u, v)'
                      /\ \A v \in Vertices : level[v] = curr_level + 1 =>
                           \/ v \in ToSet(q_out')
                           \/ \E y \in Lanes : lane'[y].at = "enqueue" /\ Head(lane'[y].todo) = v
    BY <1>4, <1>5 DEF WorkInv, Working
  <2>0. refused = {} BY <1>7
  <2>1. ASSUME NEW u \in Vertices, NEW v \in Vertices,
               level[u] = curr_level, Edge(u, v), level[v] = -1
        PROVE  Awaits(u, v)'
    <3>1. Awaits(u, v) BY <2>0, <2>1 DEF WorkInv
    <3>2. level[w] = curr_level + 1 BY <1>1, <1>3 DEF LevelInv
    <3>3. v # w BY <1>6, <2>1, <3>2
    <3>4. \A y \in Lanes : v \in ToSet(lane[y].todo) => v \in ToSet(lane'[y].todo)
      BY <1>1, <3>3 DEF Alone
    <3>5. \A y \in Lanes : lane'[y].pending = lane[y].pending BY <1>1 DEF Alone
    <3>6. QED BY <1>4, <3>1, <3>4, <3>5 DEF Awaits
  <2>2. ASSUME NEW v \in Vertices, level[v] = curr_level + 1
        PROVE  \/ v \in ToSet(q_out')
               \/ \E y \in Lanes : lane'[y].at = "enqueue" /\ Head(lane'[y].todo) = v
    <3>1. CASE v = w BY <1>7, <3>1
    <3>2. CASE v # w
      <4>1. CASE v \in ToSet(q_out) BY <1>7, <4>1
      <4>2. ASSUME NEW y \in Lanes, lane[y].at = "enqueue", Head(lane[y].todo) = v
            PROVE  lane'[y].at = "enqueue" /\ Head(lane'[y].todo) = v
        <5>1. y # x BY <1>3, <3>2, <4>2
        <5>2. QED BY <1>1, <4>2, <5>1 DEF Alone
      <4>3. QED BY <2>0, <2>2, <4>1, <4>2 DEF WorkInv
    <3>3. QED BY <3>1, <3>2
  <2>3. QED BY <2>1, <2>2
<1>12. DistInv' /\ CountInv'
  <2>1. \A y \in Lanes : Limit(y)' = Limit(y) BY <1>1, <1>6 DEF Limit, Alone
  <2>2. QED BY <1>4, <1>7, <2>1, LevelsStay
<1>13. QED BY <1>8, <1>9, <1>10, <1>11, <1>12

\* A lane gets a vertex of the queue, or none.
LEMMA TakeVertexKeeps ==
  ASSUME Running, NEW x \in Lanes, DequeueVertex(x)
  PROVE  Running'
<1> DEFINE u == Head(q_in)
<1> USE DEF Running
<1>1. /\ u \in Vertices /\ q_in # <<>>
      /\ q_in' \in Seq(Vertices) /\ ToSet(q_in) = {u} \cup ToSet(q_in')
      /\ lane' \in [Lanes -> LaneRecord] /\ Alone(x)
      /\ lane[x].at = "dequeue" /\ lane[x].todo = <<>> /\ lane[x].pending = NoVertex
      /\ lane'[x].u = u /\ lane'[x].next = lane[x].next
  BY DequeueEffect
<1>2. \/ /\ hubs' = hubs /\ lane'[x].todo = graph[u] /\ lane'[x].pending = NoVertex
         /\ lane'[x].at = IF graph[u] = <<>> THEN "meet" ELSE "scan"
      \/ /\ hubs' = Append(hubs, u) /\ lane'[x].todo = <<>> /\ lane'[x].pending = NoVertex
         /\ lane'[x].at = "meet"
      \/ /\ hubs' = hubs /\ lane'[x].todo = <<>> /\ lane'[x].pending = u
         /\ lane'[x].at = "meet"
  BY DequeueEffect
<1> HIDE DEF u
<1>3. UNCHANGED <<bfsKernel, blocking, graph, source, curr_level, frontier, reached, q_out, level,
                  next_count, refused>>
  BY DEF DequeueVertex, counters
<1>4. /\ Vertices' = Vertices /\ MaybeVertex' = MaybeVertex /\ LaneRecord' = LaneRecord
      /\ Within' = Within
      /\ \A y, v : Edge(y, v)' <=> Edge(y, v)
  BY <1>3, SameGraph
<1>5. /\ curr_level \in Nat /\ bfsKernel \notin {"hub", "host", "done"}
      /\ u # NoVertex /\ level[u] = curr_level
  <2>1. u # NoVertex BY <1>1, TheVertices DEF BfsType
  <2>2. level[u] = curr_level BY <1>1 DEF LevelInv
  <2>3. bfsKernel \notin {"hub", "host", "done"} BY <1>1 DEF LaneInv, LaneGood, Idle
  <2>4. QED BY <2>1, <2>2, <2>3 DEF BfsType
<1>6. /\ hubs' \in Seq(Vertices) /\ ToSet(hubs') \subseteq ToSet(hubs) \cup {u}
      /\ ToSet(hubs) \subseteq ToSet(hubs')
      /\ hubs' # hubs => u \in ToSet(hubs')
  <2>1. hubs \in Seq(Vertices) BY DEF BfsType
  <2>2. /\ Append(hubs, u) \in Seq(Vertices)
        /\ ToSet(Append(hubs, u)) = ToSet(hubs) \cup {u}
    BY <1>1, <2>1, AppendSet
  <2>3. hubs' = hubs \/ hubs' = Append(hubs, u) BY <1>2
  <2>4. QED BY <2>1, <2>2, <2>3
<1>7. BfsType' BY <1>1, <1>3, <1>4, <1>6 DEF BfsType
<1>8. LaneInv'
  <2> SUFFICES ASSUME NEW y \in Lanes PROVE LaneGood(y)' BY DEF LaneInv
  <2>1. CASE y # x
    <3>1. lane'[y] = lane[y] BY <1>1, <2>1 DEF Alone
    <3>2. QED BY <1>1, <1>3, <1>5, <3>1 DEF LaneInv, LaneGood, HasEdges, Working
  <2>2. CASE y = x
    <3>1. lane'[x].at \in {"meet", "scan"} /\ (lane'[x].at = "scan" <=> lane'[x].todo # <<>>)
      BY <1>2
    <3>2. QED BY <1>1, <1>3, <1>5, <2>2, <3>1 DEF LaneGood, HasEdges, Working
  <2>3. QED BY <2>1, <2>2
<1>9. LevelInv'
  <2>1. \A v \in ToSet(q_in') : level[v] = curr_level BY <1>1 DEF LevelInv
  <2>2. \A v \in ToSet(hubs') : level[v] = curr_level BY <1>5, <1>6 DEF LevelInv
  <2>3. ASSUME NEW y \in Lanes, lane'[y].pending # NoVertex
        PROVE  level[lane'[y].pending] = curr_level
    BY <1>1, <1>2, <1>5, <2>3 DEF LevelInv, Alone
  <2>4. ASSUME NEW y \in Lanes, NEW v \in ToSet(lane'[y].todo)
        PROVE  \E z \in Vertices : level[z] = curr_level /\ Edge(z, v)
    <3>1. CASE y = x
      <4>1. lane'[x].todo = graph[u]
        <5>1. lane'[x].todo # <<>> BY <2>4, <3>1 DEF ToSet
        <5>2. QED BY <1>2, <5>1
      <4>2. Edge(u, v) BY <2>4, <3>1, <4>1 DEF Edge
      <4>3. QED BY <1>1, <1>5, <4>2
    <3>2. CASE y # x BY <1>1, <2>4, <3>2 DEF LevelInv, Alone
    <3>3. QED BY <3>1, <3>2
  <2>5. \A y \in Lanes : lane'[y].at = "enqueue" => lane'[y] = lane[y]
    BY <1>1, <1>2 DEF Alone
  <2>6. QED BY <1>3, <1>4, <1>5, <2>1, <2>2, <2>3, <2>4, <2>5 DEF LevelInv
<1>10. WorkInv'
  <2> SUFFICES ASSUME refused = {}, Working
               PROVE  /\ \A z, v \in Vertices :
                           level[z] = curr_level /\ Edge(z, v) /\ level[v] = -1 => Awaits(z, v)'
                      /\ \A v \in Vertices : level[v] = curr_level + 1 =>
                           \/ v \in ToSet(q_out)
                           \/ \E y \in Lanes : lane'[y].at = "enqueue" /\ Head(lane'[y].todo) = v
    BY <1>3, <1>4 DEF WorkInv, Working
  <2>1. ASSUME NEW z \in Vertices, NEW v \in Vertices,
               level[z] = curr_level, Edge(z, v), level[v] = -1
        PROVE  Awaits(z, v)'
    <3>1. Awaits(z, v) BY <2>1 DEF WorkInv
    <3>2. ASSUME z = u PROVE Awaits(z, v)'
      <4>1. v \in ToSet(graph[u]) BY <2>1, <3>2 DEF Edge
      <4>2. CASE lane'[x].todo = graph[u] BY <4>1, <4>2 DEF Awaits
      <4>3. CASE hubs' = Append(hubs, u)
        <5>1. u \in ToSet(hubs') BY <1>1, <4>3, AppendSet DEF BfsType
        <5>2. QED BY <3>2, <5>1 DEF Awaits
      <4>4. CASE lane'[x].pending = u BY <3>2, <4>4 DEF Awaits
      <4>5. QED BY <1>2, <4>2, <4>3, <4>4
    <3>3. CASE z # u
      <4>1. z \in ToSet(q_in) => z \in ToSet(q_in') BY <1>1, <3>3
      <4>2. z \in ToSet(hubs) => z \in ToSet(hubs') BY <1>6
      <4>3. \A y \in Lanes : lane[y].pending = z => lane'[y].pending = z
        <5>1. lane[x].pending # z BY <1>1, TheVertices DEF BfsType
        <5>2. QED BY <1>1, <5>1 DEF Alone
      <4>4. \A y \in Lanes : v \in ToSet(lane[y].todo) => v \in ToSet(lane'[y].todo)
        <5>1. v \notin ToSet(lane[x].todo) BY <1>1 DEF ToSet
        <5>2. QED BY <1>1, <5>1 DEF Alone
      <4>5. QED BY <3>1, <4>1, <4>2, <4>3, <4>4 DEF Awaits
    <3>4. QED BY <3>2, <3>3
  <2>2. ASSUME NEW v \in Vertices, level[v] = curr_level + 1
        PROVE  \/ v \in ToSet(q_out)
               \/ \E y \in Lanes : lane'[y].at = "enqueue" /\ Head(lane'[y].todo) = v
    <3>1. ASSUME NEW y \in Lanes, lane[y].at = "enqueue" PROVE lane'[y] = lane[y]
      BY <1>1, <3>1 DEF Alone
    <3>2. QED BY <2>2, <3>1 DEF WorkInv
  <2>3. QED BY <2>1, <2>2
<1>11. DistInv' /\ CountInv'
  <2>1. lane'[x].at # "enqueue" BY <1>2
  <2>2. \A y \in Lanes : Limit(y)' = Limit(y) BY <1>1, <2>1 DEF Limit, Alone
  <2>3. QED BY <1>3, <2>2, LevelsStay
<1>12. QED BY <1>7, <1>8, <1>9, <1>10, <1>11

LEMMA DequeueNoneKeeps ==
  ASSUME Running, NEW x \in Lanes, DequeueNone(x)
  PROVE  Running'
<1> USE DEF Running
<1>1. /\ q_in = <<>>
      /\ lane' \in [Lanes -> LaneRecord] /\ Alone(x)
      /\ lane[x].at = "dequeue" /\ lane[x].todo = <<>> /\ lane[x].pending = NoVertex
      /\ lane'[x].u = NoVertex /\ lane'[x].next = lane[x].next
      /\ lane'[x].at = "meet" /\ lane'[x].todo = <<>> /\ lane'[x].pending = NoVertex
  BY DequeueNoneEffect
<1>2. UNCHANGED <<bfsKernel, blocking, graph, source, curr_level, frontier, reached, q_in, q_out, hubs,
                  level, next_count, refused>>
  BY DEF DequeueNone, counters
<1>3. /\ Vertices' = Vertices /\ MaybeVertex' = MaybeVertex /\ LaneRecord' = LaneRecord
      /\ Within' = Within
      /\ \A y, v : Edge(y, v)' <=> Edge(y, v)
  BY <1>2, SameGraph
<1>4. bfsKernel \notin {"hub", "host", "done"} BY <1>1 DEF LaneInv, LaneGood, Idle
<1>5. BfsType' BY <1>1, <1>2, <1>3 DEF BfsType
<1>6. LaneInv'
  <2> SUFFICES ASSUME NEW y \in Lanes PROVE LaneGood(y)' BY DEF LaneInv
  <2>1. CASE y # x
    <3>1. lane'[y] = lane[y] BY <1>1, <2>1 DEF Alone
    <3>2. QED BY <1>2, <3>1 DEF LaneInv, LaneGood, HasEdges, Working
  <2>2. CASE y = x BY <1>1, <1>2, <1>4, <2>2 DEF LaneGood, HasEdges, Working
  <2>3. QED BY <2>1, <2>2
<1>7. \A y \in Lanes : lane'[y].pending = lane[y].pending /\ lane'[y].todo = lane[y].todo
  BY <1>1 DEF Alone
<1>8. \A y \in Lanes : lane'[y].at = "enqueue" <=> lane[y].at = "enqueue"
  BY <1>1 DEF Alone
<1>9. LevelInv' BY <1>2, <1>3, <1>7, <1>8 DEF LevelInv
<1>10. WorkInv' BY <1>2, <1>3, <1>7, <1>8 DEF WorkInv, Awaits, Working
<1>11. DistInv' /\ CountInv'
  <2>1. \A y \in Lanes : Limit(y)' = Limit(y) BY <1>1, <1>8 DEF Limit, Alone
  <2>2. QED BY <1>2, <2>1, LevelsStay
<1>12. QED BY <1>5, <1>6, <1>9, <1>10, <1>11

\* The edges of a vertex are shared out: it no longer waits, its edges do.
LEMMA SharingKeeps ==
  ASSUME Running, NEW group, NEW p, NEW o, SharesOut(group, p, o), level[p] = curr_level,
         UNCHANGED <<bfsKernel, blocking, graph, source, curr_level, reached, q_in, q_out, level,
                     next_count, refused>>,
         bfsKernel \in {"expand", "hub"},
         \A x \in Lanes : lane'[x].pending = lane[x].pending \/ lane[x].pending = p,
         hubs' \in Seq(Vertices), ToSet(hubs') \subseteq ToSet(hubs),
         \A z \in ToSet(hubs) : z = p \/ z \in ToSet(hubs')
  PROVE  Running'
<1> USE DEF Running
<1>1. /\ p \in Vertices
      /\ \A x \in Lanes \ group : lane'[x] = lane[x]
      /\ \A v \in ToSet(graph[p]) : \E x \in group : v \in ToSet(lane'[x].todo)
      /\ group \subseteq Lanes /\ lane' \in [Lanes -> LaneRecord]
  BY DEF SharesOut
<1>2. \A x \in group :
       /\ lane[x].at = "meet" /\ lane[x].todo = <<>>
       /\ lane'[x].u = lane[x].u /\ lane'[x].next = lane[x].next
       /\ lane'[x].pending \in {NoVertex, lane[x].pending}
       /\ lane'[x].at = IF lane'[x].todo = <<>> THEN "meet" ELSE "scan"
       /\ ToSet(lane'[x].todo) \subseteq ToSet(graph[p])
  BY DEF SharesOut
<1>3. /\ Vertices' = Vertices /\ MaybeVertex' = MaybeVertex /\ LaneRecord' = LaneRecord
      /\ Within' = Within
      /\ \A y, v : Edge(y, v)' <=> Edge(y, v)
  BY SameGraph
<1>4. BfsType' BY <1>1, <1>3 DEF BfsType
<1>5. LaneInv'
  <2> SUFFICES ASSUME NEW y \in Lanes PROVE LaneGood(y)' BY DEF LaneInv
  <2>1. CASE y \notin group
    <3>1. lane'[y] = lane[y] BY <1>1, <2>1
    <3>2. QED BY <3>1 DEF LaneInv, LaneGood, HasEdges, Working
  <2>2. CASE y \in group
    BY <1>2, <2>2 DEF LaneInv, LaneGood, HasEdges, Working
  <2>3. QED BY <2>1, <2>2
<1>6. LevelInv'
  <2>1. \A v \in ToSet(hubs') : level[v] = curr_level BY DEF LevelInv
  <2>2. \A y \in Lanes : lane'[y].pending \in {NoVertex, lane[y].pending} BY <1>1, <1>2
  <2>3. \A y \in Lanes : lane'[y].pending # NoVertex => level[lane'[y].pending] = curr_level
    BY <2>2 DEF LevelInv
  <2>4. ASSUME NEW y \in Lanes, NEW v \in ToSet(lane'[y].todo)
        PROVE  \E z \in Vertices : level[z] = curr_level /\ Edge(z, v)
    <3>1. CASE y \in group
      <4>1. Edge(p, v) BY <1>2, <2>4, <3>1 DEF Edge
      <4>2. QED BY <1>1, <4>1
    <3>2. CASE y \notin group BY <1>1, <2>4, <3>2 DEF LevelInv
    <3>3. QED BY <3>1, <3>2
  <2>5. \A y \in Lanes : lane'[y].at = "enqueue" => lane'[y] = lane[y] BY <1>1, <1>2
  <2>6. QED BY <1>3, <2>1, <2>3, <2>4, <2>5 DEF LevelInv
<1>7. WorkInv'
  <2> SUFFICES ASSUME refused = {}, Working
               PROVE  /\ \A z, v \in Vertices :
                           level[z] = curr_level /\ Edge(z, v) /\ level[v] = -1 => Awaits(z, v)'
                      /\ \A v \in Vertices : level[v] = curr_level + 1 =>
                           \/ v \in ToSet(q_out)
                           \/ \E y \in Lanes : lane'[y].at = "enqueue" /\ Head(lane'[y].todo) = v
    BY <1>3 DEF WorkInv, Working
  <2>1. ASSUME NEW z \in Vertices, NEW v \in Vertices,
               level[z] = curr_level, Edge(z, v), level[v] = -1
        PROVE  Awaits(z, v)'
    <3>1. Awaits(z, v) BY <2>1 DEF WorkInv
    <3>2. CASE z = p
      <4>1. v \in ToSet(graph[p]) BY <2>1, <3>2 DEF Edge
      <4>2. QED BY <1>1, <4>1 DEF Awaits
    <3>3. CASE z # p
      <4>1. \A y \in Lanes : lane[y].pending = z => lane'[y].pending = z BY <3>3
      <4>2. \A y \in Lanes : v \in ToSet(lane[y].todo) => v \in ToSet(lane'[y].todo)
        <5>1. \A y \in group : v \notin ToSet(lane[y].todo) BY <1>2 DEF ToSet
        <5>2. QED BY <1>1, <5>1
      <4>3. QED BY <3>1, <3>3, <4>1, <4>2 DEF Awaits
    <3>4. QED BY <3>2, <3>3
  <2>2. \A y \in Lanes : lane[y].at = "enqueue" => lane'[y] = lane[y] BY <1>1, <1>2
  <2>3. QED BY <2>1, <2>2 DEF WorkInv
<1>8. DistInv' /\ CountInv'
  <2>1. \A y \in Lanes : Limit(y)' = Limit(y)
    <3>1. ASSUME NEW y \in group PROVE Limit(y)' = Limit(y) BY <1>1, <1>2, <3>1 DEF Limit
    <3>2. QED BY <1>1, <3>1 DEF Limit
  <2>2. QED BY <2>1, LevelsStay
<1>9. QED BY <1>4, <1>5, <1>6, <1>7, <1>8

LEMMA ShareKeeps ==
  ASSUME Running, NEW w \in 0 .. NumWaves - 1, ShareVertex(w)
  PROVE  Running'
<1> USE DEF Running
<1>1. PICK o \in Wave(w) : /\ lane[o].pending # NoVertex
                           /\ SharesOut(Wave(w), lane[o].pending, o)
  BY ShareEffect
<1> DEFINE p == lane[o].pending
<1>2. UNCHANGED <<bfsKernel, blocking, graph, source, curr_level, reached, q_in, q_out, hubs, level,
                  next_count, refused>> /\ bfsKernel = "expand"
  BY DEF ShareVertex, WaveMeets, counters
<1>3. o \in Lanes BY LaneNumbers
<1>4. level[p] = curr_level BY <1>1, <1>3 DEF LevelInv
<1>5. ASSUME NEW x \in Lanes PROVE lane'[x].pending = lane[x].pending \/ lane[x].pending = p
  BY <1>1, <1>3 DEF SharesOut
<1>6. hubs' \in Seq(Vertices) BY <1>2 DEF BfsType
<1> HIDE DEF p
<1>7. SharesOut(Wave(w), p, o) BY <1>1 DEF p
<1>8. QED BY <1>2, <1>4, <1>5, <1>6, <1>7, SharingKeeps

LEMMA NextHubKeeps ==
  ASSUME Running, NextHub
  PROVE  Running'
<1> USE DEF Running
<1> DEFINE p == Head(hubs)
<1>1. /\ SharesOut(Lanes, p, NoVertex)
      /\ \A x \in Lanes : lane'[x].pending = lane[x].pending
      /\ hubs' \in Seq(Vertices) /\ ToSet(hubs) = {p} \cup ToSet(hubs')
  BY HubEffect
<1> HIDE DEF p
<1>2. UNCHANGED <<bfsKernel, blocking, graph, source, curr_level, reached, q_in, q_out, level,
                  next_count, refused>> /\ bfsKernel = "hub"
  BY DEF NextHub, counters
<1>3. level[p] = curr_level BY <1>1 DEF LevelInv
<1>4. QED BY <1>1, <1>2, <1>3, SharingKeeps

LEMMA VoteKeeps ==
  ASSUME Running, NEW w \in 0 .. NumWaves - 1, VoteExit(w)
  PROVE  Running'
<1> USE DEF Running
<1>1. /\ lane' \in [Lanes -> LaneRecord]
      /\ \A x \in Lanes \ Wave(w) : lane'[x] = lane[x]
      /\ \A x \in Wave(w) :
           /\ lane[x].at = "meet" /\ lane[x].todo = <<>> /\ lane[x].pending = NoVertex
           /\ lane'[x].u = lane[x].u /\ lane'[x].next = lane[x].next
           /\ lane'[x].todo = <<>> /\ lane'[x].pending = NoVertex
           /\ \/ lane'[x].at = "dequeue"
              \/ lane'[x].at = "out" /\ lane[x].u = NoVertex
      /\ Wave(w) \subseteq Lanes
  BY VoteEffect
<1>2. UNCHANGED <<bfsKernel, blocking, graph, source, curr_level, frontier, reached, q_in, q_out, hubs,
                  level, next_count, refused>> /\ bfsKernel = "expand"
  BY DEF VoteExit, WaveMeets, counters
<1>3. /\ Vertices' = Vertices /\ MaybeVertex' = MaybeVertex /\ LaneRecord' = LaneRecord
      /\ Within' = Within
      /\ \A y, v : Edge(y, v)' <=> Edge(y, v)
  BY <1>2, SameGraph
<1>4. BfsType' BY <1>1, <1>2, <1>3 DEF BfsType
<1>5. LaneInv'
  <2> SUFFICES ASSUME NEW y \in Lanes PROVE LaneGood(y)' BY DEF LaneInv
  <2>1. CASE y \notin Wave(w)
    <3>1. lane'[y] = lane[y] BY <1>1, <2>1
    <3>2. QED BY <1>2, <3>1 DEF LaneInv, LaneGood, HasEdges, Working
  <2>2. CASE y \in Wave(w)
    BY <1>1, <1>2, <2>2 DEF LaneInv, LaneGood, HasEdges, Working
  <2>3. QED BY <2>1, <2>2
<1>6. \A y \in Lanes : lane'[y].pending = lane[y].pending /\ lane'[y].todo = lane[y].todo
  BY <1>1
<1>7. \A y \in Lanes : lane'[y].at = "enqueue" <=> lane[y].at = "enqueue" BY <1>1
<1>8. LevelInv' BY <1>2, <1>3, <1>6, <1>7 DEF LevelInv
<1>9. WorkInv' BY <1>2, <1>3, <1>6, <1>7 DEF WorkInv, Awaits, Working
<1>10. DistInv' /\ CountInv'
  <2>1. \A y \in Lanes : Limit(y)' = Limit(y) BY <1>1, <1>7 DEF Limit
  <2>2. QED BY <1>2, <2>1, LevelsStay
<1>11. QED BY <1>4, <1>5, <1>8, <1>9, <1>10

-----------------------------------------------------------------------------
(***************************************************************************)
(* The search: the halving sums of a block                                 *)
(***************************************************************************)
\* The finds of the threads t, t + m, t + 2 m and so on.
FindsOf(m, t) == {p \in Tokens : \E q \in Nat : ThreadIdx(p[1]) = m * q + t}

LEMMA FindsFinite ==
  ASSUME IsFiniteSet(Tokens), NEW m, NEW t
  PROVE  IsFiniteSet(FindsOf(m, t)) /\ Cardinality(FindsOf(m, t)) \in Nat
<1>1. IsFiniteSet(FindsOf(m, t)) BY FS_Subset DEF FindsOf
<1>2. QED BY <1>1, FS_CardinalityType

\* To add the sum at t + m to that at t joins two such sets.
LEMMA FindsHalve ==
  ASSUME IsFiniteSet(Tokens), NEW m \in Nat \ {0}, NEW t \in 0 .. m - 1
  PROVE  Cardinality(FindsOf(m, t)) = Cardinality(FindsOf(2 * m, t)) + Cardinality(FindsOf(2 * m, t + m))
<1> DEFINE A == FindsOf(2 * m, t)
           B == FindsOf(2 * m, t + m)
<1>1. ASSUME NEW i, NEW q \in Nat, i = m * q + t
      PROVE  \E r \in Nat : i = (2 * m) * r + t \/ i = (2 * m) * r + (t + m)
  <2>1. PICK r \in Nat, e \in 0 .. 1 : q = 2 * r + e
    <3>1. q = 2 * (q \div 2) + (q % 2) /\ q \div 2 \in Nat /\ q % 2 \in 0 .. 1 OBVIOUS
    <3>2. QED BY <3>1
  <2>2. CASE e = 0
    <3>1. m * q = (2 * m) * r BY <2>1, <2>2, Z3
    <3>2. QED BY <1>1, <3>1
  <2>3. CASE e = 1
    <3>1. m * q = (2 * m) * r + m /\ m * q \in Nat /\ (2 * m) * r \in Nat BY <2>1, <2>3, Z3
    <3>2. i = (2 * m) * r + (t + m) BY <1>1, <3>1
    <3>3. QED BY <3>2
  <2>4. QED BY <2>1, <2>2, <2>3
<1>2. ASSUME NEW i, NEW r \in Nat, i = (2 * m) * r + t \/ i = (2 * m) * r + (t + m)
      PROVE  \E q \in Nat : i = m * q + t
  <2>1. CASE i = (2 * m) * r + t
    <3>1. m * (2 * r) = (2 * m) * r /\ 2 * r \in Nat BY Z3
    <3>2. QED BY <2>1, <3>1
  <2>2. CASE i = (2 * m) * r + (t + m)
    <3>1. /\ m * (2 * r + 1) = (2 * m) * r + m /\ 2 * r + 1 \in Nat
          /\ (2 * m) * r \in Nat /\ m * (2 * r + 1) \in Nat
      BY Z3
    <3>2. i = m * (2 * r + 1) + t BY <2>2, <3>1
    <3>3. QED BY <3>1, <3>2
  <2>3. QED BY <1>2, <2>1, <2>2
<1>3. FindsOf(m, t) = A \cup B
  <2>1. ASSUME NEW p \in FindsOf(m, t) PROVE p \in A \cup B
    <3>1. PICK q \in Nat : ThreadIdx(p[1]) = m * q + t BY DEF FindsOf
    <3>2. PICK r \in Nat : \/ ThreadIdx(p[1]) = (2 * m) * r + t
                           \/ ThreadIdx(p[1]) = (2 * m) * r + (t + m)
      BY <1>1, <3>1
    <3>3. QED BY <2>1, <3>2 DEF FindsOf
  <2>2. ASSUME NEW p \in A \cup B PROVE p \in FindsOf(m, t)
    <3>1. p \in Tokens BY <2>2 DEF FindsOf
    <3>2. PICK r \in Nat : \/ ThreadIdx(p[1]) = (2 * m) * r + t
                           \/ ThreadIdx(p[1]) = (2 * m) * r + (t + m)
      BY <2>2 DEF FindsOf
    <3>3. QED BY <1>2, <3>1, <3>2 DEF FindsOf
  <2> HIDE DEF A, B
  <2>3. QED BY <2>1, <2>2
<1>4. A \cap B = {}
  <2> SUFFICES ASSUME NEW p \in A, p \in B PROVE FALSE OBVIOUS
  <2>1. PICK q \in Nat : ThreadIdx(p[1]) = (2 * m) * q + t BY DEF FindsOf
  <2>2. PICK r \in Nat : ThreadIdx(p[1]) = (2 * m) * r + (t + m) BY DEF FindsOf
  <2> DEFINE c == 2 * m
             e == t + m
  <2>3. c \in Nat \ {0} /\ t \in 0 .. c - 1 /\ e \in 0 .. c - 1 /\ t # e OBVIOUS
  <2>4. c * q + t = c * r + e BY <2>1, <2>2
  <2> HIDE DEF c, e
  <2>5. t = e BY <2>3, <2>4, DivModUnique
  <2>6. QED BY <2>3, <2>5
<1>5. /\ IsFiniteSet(A) /\ Cardinality(A) \in Nat
      /\ IsFiniteSet(B) /\ Cardinality(B) \in Nat
  BY FindsFinite
<1> HIDE DEF A, B
<1>6. Cardinality(A \cup B) = Cardinality(A) + Cardinality(B) - Cardinality(A \cap B)
  BY <1>5, FS_Union
<1>7. Cardinality(A \cap B) = 0 BY <1>4, FS_EmptySet
<1>8. Cardinality(A \cup B) = Cardinality(A) + Cardinality(B) BY <1>5, <1>6, <1>7
<1>9. QED BY <1>3, <1>8 DEF A, B

\* At first each thread has its own finds.
LEMMA OwnFinds ==
  ASSUME lane \in [Lanes -> LaneRecord], \A x \in Lanes : lane[x].at # "enqueue",
         NEW t \in 0 .. BlockDim - 1
  PROVE  Cardinality(FindsOf(BlockDim, t)) = s_next[t]
<1> DEFINE x == <<t \div WarpSize, t % WarpSize>>
           n == lane[x].next
<1>1. WarpSize \in Nat \ {0} /\ BlockDim \in Nat \ {0} BY BfsAssumption, ThreadNumbers
<1>2. PICK y \in Lanes : ThreadIdx(y) = t BY ThreadNumbers
<1>3. ASSUME NEW z \in Lanes, ThreadIdx(z) = t PROVE z = x
  <2>1. z = <<z[1], z[2]>> /\ z[1] \in Nat /\ z[2] \in 0 .. WarpSize - 1
    BY LaneNumbers, BfsAssumption
  <2>2. t \in Nat /\ t = WarpSize * z[1] + z[2]
    <3>1. t \in Nat BY <1>1
    <3>2. z[1] * WarpSize = WarpSize * z[1] BY <1>1, <2>1, Z3
    <3>3. QED BY <1>3, <3>1, <3>2 DEF ThreadIdx
  <2>3. t \div WarpSize = z[1] /\ t % WarpSize = z[2] BY <1>1, <2>1, <2>2, DivModOf
  <2>4. QED BY <2>1, <2>3
<1>4. x \in Lanes /\ ThreadIdx(x) = t BY <1>2, <1>3
<1>5. s_next[t] = n BY DEF s_next
<1> HIDE DEF x
<1>6. n \in Nat BY <1>4 DEF LaneRecord
<1>7. \A z \in Lanes : Limit(z) = lane[z].next BY DEF Limit, LaneRecord
<1>8. \A p : p \in Tokens <=> \E z \in Lanes : \E i \in 1 .. lane[z].next : p = <<z, i>>
  BY <1>7, TokensAre
<1>9. FindsOf(BlockDim, t) = {x} \X (1 .. n)
  <2>1. ASSUME NEW p \in FindsOf(BlockDim, t) PROVE p \in {x} \X (1 .. n)
    <3>0. PICK z \in Lanes : \E i \in 1 .. lane[z].next : p = <<z, i>> BY <1>8 DEF FindsOf
    <3>1. PICK i \in 1 .. lane[z].next : p = <<z, i>> BY <3>0
    <3>2. PICK q \in Nat : ThreadIdx(z) = BlockDim * q + t BY <3>1 DEF FindsOf
    <3>3. ThreadIdx(z) \in 0 .. BlockDim - 1 BY ThreadNumbers
    <3>4. BlockDim * 0 + ThreadIdx(z) = BlockDim * q + t
      <4>1. BlockDim * 0 = 0 BY <1>1
      <4>2. QED BY <1>1, <3>2, <3>3, <4>1
    <3>5. ThreadIdx(z) = t BY <1>1, <3>3, <3>4, DivModUnique
    <3>6. z = x BY <1>3, <3>5
    <3>7. QED BY <3>1, <3>6
  <2>2. ASSUME NEW i \in 1 .. n PROVE <<x, i>> \in FindsOf(BlockDim, t)
    <3>1. <<x, i>> \in Tokens BY <1>4, <1>8
    <3>2. ThreadIdx(x) = BlockDim * 0 + t BY <1>1, <1>4
    <3>3. QED BY <3>1, <3>2 DEF FindsOf
  <2>3. QED BY <2>1, <2>2
<1> HIDE DEF n
<1>10. IsFiniteSet({x}) /\ Cardinality({x}) = 1 BY FS_Singleton
<1>11. IsFiniteSet(1 .. n) /\ Cardinality(1 .. n) = n
  <2>1. n = IF 1 > n THEN 0 ELSE n - 1 + 1 BY <1>6
  <2>2. QED BY <1>6, <2>1, FS_Interval
<1>12. Cardinality({x} \X (1 .. n)) = Cardinality({x}) * Cardinality(1 .. n)
  BY <1>10, <1>11, FS_Product
<1>13. Cardinality({x} \X (1 .. n)) = n BY <1>6, <1>10, <1>11, <1>12
<1>14. QED BY <1>5, <1>9, <1>13

\* In a block of a power of two threads, the sum of thread 0 in the end is of all.
LEMMA ReducedExact ==
  ASSUME lane \in [Lanes -> LaneRecord], \A x \in Lanes : lane[x].at # "enqueue",
         IsFiniteSet(Tokens), BlockIsPowerOfTwo
  PROVE  Reduced = next_count + Cardinality(Tokens)
<1>1. PICK k \in Nat : BlockDim = 2 ^ k BY DEF BlockIsPowerOfTwo
<1> DEFINE Left(i) == IF i <= k THEN k - i ELSE 0
           size(i) == 2 ^ Left(i)
           Rec(h) == [i \in Nat |->
             IF i = 0 THEN s_next
             ELSE LET s == BlockDim \div 2 ^ i IN
                  IF s = 0 THEN h[i - 1]
                  ELSE [t \in 0 .. s - 1 |-> h[i - 1][t] + h[i - 1][t + s]]]
           f == [i \in Nat |-> [t \in 0 .. size(i) - 1 |-> Cardinality(FindsOf(size(i), t))]]
<1>2. \A i \in Nat : Left(i) \in Nat /\ size(i) \in Nat \ {0} BY PowType
<1>3. f[0] = s_next
  <2>1. size(0) = BlockDim BY <1>1
  <2>2. f[0] = [t \in 0 .. BlockDim - 1 |-> Cardinality(FindsOf(BlockDim, t))] BY <2>1
  <2>3. s_next = [t \in 0 .. BlockDim - 1 |-> s_next[t]] BY DEF s_next
  <2>4. QED BY <2>2, <2>3, OwnFinds
<1>4. ASSUME NEW n \in Nat PROVE f[n + 1] = Rec(f)[n + 1]
  <2> DEFINE s == BlockDim \div 2 ^ (n + 1)
  <2>1. /\ n + 1 # 0 /\ n + 1 \in Nat /\ (n + 1) - 1 = n
        /\ 2 ^ (n + 1) \in Nat \ {0} /\ BlockDim \in Nat
    BY <1>1, PowType
  <2>2. CASE n + 1 <= k
    <3>1. size(n + 1) = 2 ^ (k - (n + 1)) /\ size(n) = 2 ^ (k - n) BY <2>2
    <3>2. s = size(n + 1)
      <4>1. size(n + 1) * 2 ^ (n + 1) = BlockDim BY <1>1, <2>2, <3>1, PowSum
      <4> DEFINE b == 2 ^ (n + 1)
                 c == size(n + 1)
      <4>2. b \in Nat \ {0} /\ c \in Nat /\ c * b = BlockDim BY <1>2, <2>1, <4>1
      <4> HIDE DEF b, c
      <4>3. BlockDim = b * c + 0 BY <2>1, <4>2, Z3
      <4>4. BlockDim \div b = c BY <2>1, <4>2, <4>3, DivModOf
      <4>5. QED BY <4>4 DEF b, c
    <3>3. size(n) = 2 * size(n + 1)
      <4>1. k - n \in Nat \ {0} /\ (k - n) - 1 = k - (n + 1) BY <2>2
      <4>2. QED BY <3>1, <4>1, PowDown
    <3> DEFINE m == size(n + 1)
    <3>4. m \in Nat \ {0} BY <1>2, <2>1
    <3>5. f[n] = [t \in 0 .. 2 * m - 1 |-> Cardinality(FindsOf(2 * m, t))] BY <3>3
    <3>6. f[n + 1] = [t \in 0 .. m - 1 |-> Cardinality(FindsOf(m, t))] OBVIOUS
    <3>7. Rec(f)[n + 1] = [t \in 0 .. m - 1 |-> f[n][t] + f[n][t + m]]
      <4> HIDE DEF f, m
      <4>1. s = m /\ m # 0 BY <3>2, <3>4 DEF m
      <4>2. QED BY <2>1, <4>1
    <3> HIDE DEF f, m, Rec
    <3>8. ASSUME NEW t \in 0 .. m - 1 PROVE Cardinality(FindsOf(m, t)) = f[n][t] + f[n][t + m]
      <4>1. t \in 0 .. 2 * m - 1 /\ t + m \in 0 .. 2 * m - 1 BY <3>4
      <4>2. f[n][t] = Cardinality(FindsOf(2 * m, t)) /\ f[n][t + m] = Cardinality(FindsOf(2 * m, t + m))
        BY <3>5, <4>1
      <4>3. QED BY <3>4, <4>2, FindsHalve
    <3>9. QED BY <3>6, <3>7, <3>8
  <2>3. CASE n + 1 > k
    <3>1. Left(n + 1) = Left(n) BY <2>3
    <3>2. f[n + 1] = f[n]
      <4> DEFINE T(j) == [t \in 0 .. 2 ^ j - 1 |-> Cardinality(FindsOf(2 ^ j, t))]
      <4>1. f[n + 1] = T(Left(n + 1)) /\ f[n] = T(Left(n)) BY <2>1
      <4> HIDE DEF T, f, Left
      <4>2. QED BY <3>1, <4>1
    <3>3. s = 0
      <4> DEFINE b == 2 ^ (n + 1)
      <4>1. BlockDim < b BY <1>1, <2>1, <2>3, PowBounds
      <4>2. b \in Nat \ {0} BY <2>1
      <4> HIDE DEF b
      <4>3. BlockDim = b * 0 + BlockDim /\ BlockDim \in 0 .. b - 1 BY <2>1, <4>1, <4>2
      <4>4. BlockDim \div b = 0 BY <2>1, <4>2, <4>3, DivModOf
      <4>5. QED BY <4>4 DEF b
    <3> HIDE DEF f
    <3>4. Rec(f)[n + 1] = f[n] BY <2>1, <3>3
    <3>5. QED BY <3>2, <3>4
  <2>4. QED BY <2>1, <2>2, <2>3
<1>5. f = Rec(f)
  <2>1. f = [i \in Nat |-> f[i]] OBVIOUS
  <2>2. Rec(f) = [i \in Nat |-> Rec(f)[i]] OBVIOUS
  <2>3. Rec(f)[0] = s_next OBVIOUS
  <2> HIDE DEF f, Rec
  <2>4. ASSUME NEW i \in Nat PROVE f[i] = Rec(f)[i]
    <3>1. CASE i = 0 BY <1>3, <2>3, <3>1
    <3>2. CASE i # 0
      <4>1. i - 1 \in Nat /\ (i - 1) + 1 = i BY <3>2
      <4>2. QED BY <1>4, <4>1
    <3>3. QED BY <3>1, <3>2
  <2>5. QED BY <2>1, <2>2, <2>4
<1> HIDE DEF f
<1>6. Sums = CHOOSE h : h = Rec(h) BY DEF Sums
<1>7. Sums = Rec(Sums)
  <2> HIDE DEF Rec
  <2>1. \E h : h = Rec(h) BY <1>5
  <2>2. QED BY <1>6, <2>1
<1> DEFINE S == {i \in Nat : Sums[i] = f[i]}
<1>8. S = Nat
  <2>1. 0 \in S
    <3>1. Sums[0] = s_next BY <1>7
    <3>2. QED BY <1>3, <3>1
  <2>2. ASSUME NEW n \in S PROVE n + 1 \in S
    <3>1. n + 1 \in Nat /\ n + 1 # 0 /\ (n + 1) - 1 = n /\ Sums[n] = f[n] OBVIOUS
    <3>2. Rec(Sums)[n + 1] = Rec(f)[n + 1] BY <3>1
    <3> HIDE DEF Rec
    <3>3. Sums[n + 1] = f[n + 1] BY <1>5, <1>7, <3>2
    <3>4. QED BY <3>1, <3>3
  <2>3. S \in SUBSET Nat OBVIOUS
  <2> HIDE DEF S
  <2>4. QED BY <2>1, <2>2, <2>3, SetInduction
<1>9. Sums[BlockDim][0] = Cardinality(Tokens)
  <2>1. BlockDim \in Nat /\ k <= BlockDim BY <1>1, PowBounds, PowType
  <2>2. size(BlockDim) = 1
    <3>1. Left(BlockDim) = 0 BY <2>1
    <3>2. QED BY <3>1, PowZero
  <2>3. Sums[BlockDim] = f[BlockDim] BY <1>8, <2>1
  <2>4. f[BlockDim] = [t \in 0 .. 0 |-> Cardinality(FindsOf(1, t))]
    <3>1. f[BlockDim] = [t \in 0 .. size(BlockDim) - 1 |-> Cardinality(FindsOf(size(BlockDim), t))]
      BY <2>1 DEF f
    <3> HIDE DEF size
    <3>2. QED BY <2>2, <3>1
  <2>5. FindsOf(1, 0) = Tokens
    <3>1. ASSUME NEW p \in Tokens PROVE p \in FindsOf(1, 0)
      <4>1. PICK x \in Lanes : p[1] = x BY TokensAre
      <4>2. ThreadIdx(p[1]) \in Nat BY <4>1, ThreadNumbers
      <4>3. ThreadIdx(p[1]) = 1 * ThreadIdx(p[1]) + 0 BY <4>2
      <4>4. QED BY <4>2, <4>3 DEF FindsOf
    <3>2. QED BY <3>1 DEF FindsOf
  <2>6. QED BY <2>3, <2>4, <2>5
<1>10. QED BY <1>9 DEF Reduced

\* When every lane is through, the block has counted what they found.
LEMMA KernelEnds ==
  ASSUME Running, bfsKernel \in {"expand", "hub"}, NEW a \in {"meet", "out"},
         \A x \in Lanes : lane[x].at \in {"meet", "out"} /\ lane[x].pending = NoVertex,
         q_in = <<>>, a = "out" => hubs = <<>>,
         next_count' = Reduced, lane' = [x \in Lanes |-> [Idle EXCEPT !.at = a]],
         bfsKernel' = IF a = "meet" THEN "hub" ELSE "host",
         UNCHANGED <<blocking, graph, source, curr_level, reached, level, q_in, q_out, hubs, refused>>
  PROVE  Running'
<1> USE DEF Running
<1>1. /\ Vertices' = Vertices /\ MaybeVertex' = MaybeVertex /\ LaneRecord' = LaneRecord
      /\ Within' = Within
      /\ \A y, v : Edge(y, v)' <=> Edge(y, v)
  BY SameGraph
<1>2. \A x \in Lanes : /\ lane'[x].at = a /\ lane'[x].u = NoVertex /\ lane'[x].pending = NoVertex
                       /\ lane'[x].todo = <<>> /\ lane'[x].next = 0
                       /\ (a = "out" => lane'[x] = Idle)
  BY DEF Idle
<1>3. \A x \in Lanes : lane[x].todo = <<>> BY DEF LaneInv, LaneGood, HasEdges
<1>4. ASSUME BlockIsPowerOfTwo
      PROVE  Counted /\ next_count' = next_count + Cardinality(Tokens)
  <2>1. Reduced = next_count + Cardinality(Tokens)
    BY <1>4, ReducedExact DEF BfsType, CountInv
  <2>2. QED BY <1>4, <2>1 DEF CountInv
<1>6. BfsType'
  <2>1. <<>> \in Seq(Vertices) OBVIOUS
  <2>2. [Idle EXCEPT !.at = a] \in LaneRecord BY <2>1 DEF Idle, LaneRecord, MaybeVertex
  <2>3. lane' \in [Lanes -> LaneRecord] BY <2>2
  <2>4. QED BY <1>1, <2>3 DEF BfsType
<1>7. LaneInv'
  <2> SUFFICES ASSUME NEW y \in Lanes PROVE LaneGood(y)' BY DEF LaneInv
  <2>1. QED BY <1>2 DEF LaneGood, HasEdges, Working
<1>8. LevelInv'
  <2>1. \A y \in Lanes : ToSet(lane'[y].todo) = {} BY <1>2 DEF ToSet
  <2>2. QED BY <1>1, <1>2, <2>1 DEF LevelInv
<1>9. WorkInv'
  <2> SUFFICES ASSUME refused = {}
               PROVE  /\ \A z, v \in Vertices :
                           level[z] = curr_level /\ Edge(z, v) /\ level[v] = -1 => Awaits(z, v)'
                      /\ \A v \in Vertices : level[v] = curr_level + 1 => v \in ToSet(q_out)
    BY <1>1 DEF WorkInv
  <2>1. ASSUME NEW z \in Vertices, NEW v \in Vertices,
               level[z] = curr_level, Edge(z, v), level[v] = -1
        PROVE  Awaits(z, v)'
    <3>1. Awaits(z, v) BY <2>1 DEF WorkInv, Working
    <3>2. z # NoVertex BY TheVertices DEF BfsType
    <3>3. \A y \in Lanes : v \notin ToSet(lane[y].todo) BY <1>3 DEF ToSet
    <3>4. QED BY <3>1, <3>2, <3>3 DEF Awaits
  <2>2. \A v \in Vertices : level[v] = curr_level + 1 => v \in ToSet(q_out)
    BY DEF WorkInv, Working
  <2>3. QED BY <2>1, <2>2
<1>10. DistInv' BY <1>1 DEF DistInv
<1>11. CountInv'
  <2>1. UpTo(curr_level)' = UpTo(curr_level) BY <1>1 DEF UpTo
  <2>2. AtLevel(curr_level + 1)' = AtLevel(curr_level + 1) BY <1>1 DEF AtLevel
  <2>3. Tokens' = {}
    <3>1. \A x \in Lanes : Limit(x)' = 0 BY <1>2 DEF Limit
    <3>2. ASSUME NEW p \in Tokens' PROVE FALSE
      <4>1. PICK x \in Lanes : p \in {x} \X (1 .. Limit(x)') BY DEF Tokens
      <4>2. Limit(x)' = 0 BY <3>1
      <4>3. QED BY <4>1, <4>2
    <3>3. QED BY <3>2
  <2>4. IsFiniteSet(Tokens') /\ Cardinality(Tokens') = 0 BY <2>3, FS_EmptySet
  <2>5. Cardinality(Tokens) \in Nat BY FS_CardinalityType DEF CountInv
  <2>6. ASSUME BlockIsPowerOfTwo PROVE Counted'
    BY <1>4, <2>1, <2>2, <2>4, <2>5, <2>6 DEF Counted, Working
  <2>7. BlockIsPowerOfTwo' <=> BlockIsPowerOfTwo BY DEF BlockIsPowerOfTwo
  <2>8. QED BY <2>4, <2>6, <2>7 DEF CountInv
<1>12. QED BY <1>6, <1>7, <1>8, <1>9, <1>10, <1>11

LEMMA KernelsEndKeep ==
  ASSUME Running, ExpandEnds \/ HubsEnd
  PROVE  Running'
<1> USE DEF Running
<1>0. <<0, 0>> \in Lanes
  <2>1. 0 \in 0 .. NumWaves - 1 /\ 0 \in 0 .. WarpSize - 1 BY BfsAssumption
  <2>2. QED BY <2>1, LaneNumbers
<1>1. CASE ExpandEnds
  <2>1. /\ bfsKernel = "expand" /\ next_count' = Reduced /\ bfsKernel' = "hub"
        /\ lane' = [x \in Lanes |-> [Idle EXCEPT !.at = "meet"]]
        /\ UNCHANGED <<blocking, graph, source, curr_level, reached, level, q_in, q_out, hubs, refused>>
    BY <1>1 DEF ExpandEnds, counters
  <2>2. \A x \in Lanes : lane[x].at = "out" BY <1>1 DEF ExpandEnds, AllAt
  <2>3. \A x \in Lanes : lane[x].at = "out" /\ lane[x].pending = NoVertex /\ lane[x].u = NoVertex
    BY <2>2 DEF LaneInv, LaneGood
  <2>4. q_in = <<>> BY <1>0, <2>1, <2>3 DEF LaneInv, LaneGood, Working
  <2>5. QED BY <2>1, <2>3, <2>4, KernelEnds
<1>2. CASE HubsEnd
  <2>1. /\ bfsKernel = "hub" /\ next_count' = Reduced /\ bfsKernel' = "host" /\ hubs = <<>>
        /\ lane' = [x \in Lanes |-> Idle]
        /\ UNCHANGED <<blocking, graph, source, curr_level, reached, level, q_in, q_out, hubs, refused>>
    BY <1>2 DEF HubsEnd, counters
  <2>2. lane' = [x \in Lanes |-> [Idle EXCEPT !.at = "out"]]
    <3>1. Idle = [Idle EXCEPT !.at = "out"] BY DEF Idle
    <3>2. QED BY <2>1, <3>1
  <2>3. \A x \in Lanes : lane[x].at = "meet" /\ lane[x].pending = NoVertex /\ lane[x].u = NoVertex
    BY <1>2, <2>1 DEF HubsEnd, AllAt, LaneInv, LaneGood
  <2>4. q_in = <<>> BY <1>0, <2>1, <2>3 DEF LaneInv, LaneGood, Working
  <2>5. QED BY <2>1, <2>2, <2>3, <2>4, KernelEnds
<1>3. QED BY <1>1, <1>2

\* Whoever is within n + 1 edges of the source was found when nothing waits any more.
LEMMA AllFound ==
  ASSUME BfsType, LevelInv, WorkInv, DistInv, refused = {}, Working,
         \A u, v \in Vertices : ~ Awaits(u, v),
         NEW v \in Within[curr_level + 1]
  PROVE  v \in Vertices /\ level[v] \in 0 .. curr_level + 1
<1>1. curr_level \in Nat /\ source \in Vertices BY DEF BfsType
<1>2. Within[curr_level + 1] \subseteq Vertices BY <1>1, WithinVertices
<1>3. v \in Vertices /\ level[v] \in -1 .. curr_level + 1 BY <1>2 DEF LevelInv
<1>4. Within[curr_level + 1] =
        Within[curr_level] \cup {z \in Vertices : \E u \in Within[curr_level] : Edge(u, z)}
  BY <1>1, WithinFacts
<1>5. CASE v \in Within[curr_level] BY <1>1, <1>3, <1>5 DEF DistInv
<1>6. ASSUME NEW u \in Within[curr_level], Edge(u, v) PROVE level[v] # -1
  <2>1. u \in Vertices BY <1>1, WithinVertices
  <2>2. level[u] \in 0 .. curr_level BY <1>1 DEF DistInv
  <2>3. CASE level[u] = curr_level BY <1>3, <1>6, <2>1, <2>3 DEF WorkInv
  <2>4. CASE level[u] # curr_level
    <3> DEFINE m == level[u]
    <3>1. m \in Nat /\ m + 1 \in 0 .. curr_level /\ m # -1 BY <1>1, <2>2, <2>4
    <3>2. u \in Within[m] BY <2>1, <3>1 DEF DistInv
    <3> HIDE DEF m
    <3>3. Within[m + 1] = Within[m] \cup {z \in Vertices : \E y \in Within[m] : Edge(y, z)}
      BY <1>1, <3>1, WithinFacts
    <3>4. v \in Within[m + 1] BY <1>3, <1>6, <3>2, <3>3
    <3>5. level[v] \in 0 .. m + 1 BY <3>1, <3>4 DEF DistInv
    <3>6. QED BY <3>1, <3>5
  <2>5. QED BY <2>3, <2>4
<1>7. level[v] # -1 BY <1>1, <1>3, <1>4, <1>5, <1>6
<1>8. QED BY <1>1, <1>3, <1>7

LEMMA SwapKeeps ==
  ASSUME Running, HostSwap
  PROVE  Running'
<1> USE DEF Running
<1>1. /\ bfsKernel = "host" /\ UNCHANGED <<blocking, graph, source, level, hubs, refused>>
      /\ q_in' = q_out /\ q_out' = q_in /\ next_count' = 0
      /\ curr_level' = curr_level + 1 /\ reached' = reached + next_count
      /\ bfsKernel' = IF next_count > 0 THEN "expand" ELSE "done"
  BY DEF HostSwap
<1>2. /\ Vertices' = Vertices /\ MaybeVertex' = MaybeVertex /\ LaneRecord' = LaneRecord
      /\ Within' = Within
      /\ \A y, v : Edge(y, v)' <=> Edge(y, v)
  BY <1>1, SameGraph
<1>3. \A x \in Lanes : lane[x] = Idle BY <1>1 DEF LaneInv, LaneGood
<1>4. <<0, 0>> \in Lanes
  <2>1. 0 \in 0 .. NumWaves - 1 /\ 0 \in 0 .. WarpSize - 1 BY BfsAssumption
  <2>2. QED BY <2>1, LaneNumbers
<1>5. q_in = <<>> /\ hubs = <<>>
  <2>1. q_in = <<>>
    <3>1. lane[<<0, 0>>].at = "out" /\ lane[<<0, 0>>].u = NoVertex BY <1>3, <1>4 DEF Idle
    <3>2. QED BY <1>1, <1>4, <3>1 DEF LaneInv, LaneGood, Working
  <2>2. QED BY <1>1, <2>1 DEF LevelInv
<1>6. \A x \in Lanes :
        /\ lane'[x].u = NoVertex /\ lane'[x].pending = NoVertex /\ lane'[x].todo = <<>>
        /\ lane'[x].next = 0
        /\ IF next_count > 0 THEN lane'[x].at = "dequeue" ELSE lane'[x] = Idle
  BY <1>3 DEF HostSwap, Idle
<1>7. /\ curr_level \in Nat
      /\ IsFiniteSet(Vertices) /\ NoVertex \notin Vertices
  BY TheVertices DEF BfsType
<1>8. Cardinality(Tokens) = 0
  <2>1. ASSUME NEW p \in Tokens PROVE FALSE
    <3>1. PICK x \in Lanes : p \in {x} \X (1 .. Limit(x)) BY DEF Tokens
    <3>2. Limit(x) = 0 BY <1>3 DEF Limit, Idle
    <3>3. QED BY <3>1, <3>2
  <2>2. QED BY <2>1, FS_EmptySet
<1>9. ASSUME BlockIsPowerOfTwo
      PROVE  {reached, next_count} \subseteq Nat /\ Cardinality(AtLevel(curr_level + 1)) = next_count
  BY <1>8, <1>9 DEF CountInv, Counted
<1>10. BfsType'
  <2>1. <<>> \in Seq(Vertices) OBVIOUS
  <2>2. [Idle EXCEPT !.at = "dequeue"] \in LaneRecord BY <2>1 DEF Idle, LaneRecord, MaybeVertex
  <2>3. lane' \in [Lanes -> LaneRecord] BY <2>2 DEF HostSwap, BfsType
  <2>4. curr_level' \in Nat BY <1>1, <1>7
  <2>5. bfsKernel' \in {"off", "expand", "hub", "host", "done"} BY <1>1
  <2>6. QED BY <1>1, <1>2, <2>3, <2>4, <2>5 DEF BfsType
<1>11. LaneInv'
  <2> SUFFICES ASSUME NEW y \in Lanes PROVE LaneGood(y)' BY DEF LaneInv
  <2>1. CASE next_count > 0 BY <1>1, <1>6, <2>1 DEF LaneGood, HasEdges, Working
  <2>2. CASE ~ (next_count > 0) BY <1>1, <1>6, <2>2 DEF LaneGood, HasEdges, Working, Idle
  <2>3. QED BY <2>1, <2>2
<1>12. LevelInv'
  <2>1. \A y \in Lanes : ToSet(lane'[y].todo) = {} /\ lane'[y].at # "enqueue"
    <3>1. ASSUME NEW y \in Lanes PROVE lane'[y].at # "enqueue" BY <1>6 DEF Idle
    <3>2. QED BY <1>6, <3>1 DEF ToSet
  <2>2. \A v \in Vertices : level[v] \in -1 .. curr_level + 1 + 1 /\ (level[v] = 0 <=> v = source)
    BY <1>7 DEF LevelInv
  <2>3. ToSet(q_in) = {} /\ ToSet(hubs) = {} BY <1>5 DEF ToSet
  <2>4. \A v \in ToSet(q_out) : level[v] = curr_level + 1 BY DEF LevelInv
  <2>5. QED BY <1>1, <1>2, <1>5, <1>6, <2>1, <2>2, <2>3, <2>4 DEF LevelInv
<1>13. WorkInv'
  <2> SUFFICES ASSUME refused = {}
               PROVE  /\ \A z, v \in Vertices : level[z] = curr_level + 1 => Awaits(z, v)'
                      /\ \A v \in Vertices : level[v] # curr_level + 1 + 1
    BY <1>1, <1>2 DEF WorkInv
  <2>1. ASSUME NEW z \in Vertices, NEW v \in Vertices, level[z] = curr_level + 1
        PROVE  Awaits(z, v)'
    <3>1. \A x \in Lanes : lane[x].at # "enqueue" BY <1>3 DEF Idle
    <3>2. z \in ToSet(q_out) BY <1>1, <2>1, <3>1 DEF WorkInv, Working
    <3>3. QED BY <1>1, <3>2 DEF Awaits
  <2>2. \A v \in Vertices : level[v] # curr_level + 1 + 1 BY <1>7 DEF LevelInv
  <2>3. QED BY <2>1, <2>2
<1>14. DistInv'
  <2>1. \A v \in Vertices : level[v] # -1 => v \in Within[level[v]] BY DEF DistInv
  <2>2. \A u, v \in Vertices : ~ Awaits(u, v)
    <3>1. \A x \in Lanes : lane[x].pending = NoVertex /\ ToSet(lane[x].todo) = {}
      BY <1>3 DEF Idle, ToSet
    <3>2. ToSet(q_in) = {} /\ ToSet(hubs) = {} BY <1>5 DEF ToSet
    <3>3. QED BY <1>7, <3>1, <3>2 DEF Awaits
  <2>3. ASSUME refused = {}, NEW n \in 0 .. curr_level + 1, NEW v \in Within[n]
        PROVE  level[v] \in 0 .. n
    <3>1. CASE n = curr_level + 1 BY <1>1, <2>2, <2>3, <3>1, AllFound DEF Working
    <3>2. CASE n # curr_level + 1
      <4>1. n \in 0 .. curr_level BY <1>7, <3>2
      <4>2. QED BY <2>3, <4>1 DEF DistInv
    <3>3. QED BY <3>1, <3>2
  <2>4. QED BY <1>1, <1>2, <2>1, <2>3 DEF DistInv
<1>15. CountInv'
  <2>1. UpTo(curr_level)' = UpTo(curr_level) \cup AtLevel(curr_level + 1)
    BY <1>1, <1>2, <1>7 DEF UpTo, AtLevel
  <2>2. UpTo(curr_level) \cap AtLevel(curr_level + 1) = {} BY <1>7 DEF UpTo, AtLevel
  <2>3. IsFiniteSet(UpTo(curr_level)) /\ IsFiniteSet(AtLevel(curr_level + 1))
    BY <1>7, FS_Subset DEF AtLevel, UpTo
  <2>4. ASSUME BlockIsPowerOfTwo PROVE Cardinality(UpTo(curr_level)') = reached + next_count
    <3>1. Cardinality(UpTo(curr_level)) = reached BY <2>4 DEF CountInv, Counted
    <3>2. UpTo(curr_level) \cap AtLevel(curr_level + 1) = {} BY <2>2
    <3>3. Cardinality(UpTo(curr_level) \cup AtLevel(curr_level + 1)) =
            Cardinality(UpTo(curr_level)) + Cardinality(AtLevel(curr_level + 1))
              - Cardinality(UpTo(curr_level) \cap AtLevel(curr_level + 1))
      BY <2>3, FS_Union
    <3>4. Cardinality(UpTo(curr_level) \cap AtLevel(curr_level + 1)) = 0 BY <3>2, FS_EmptySet
    <3>5. QED BY <1>9, <2>1, <2>4, <3>1, <3>3, <3>4
  <2>5. AtLevel(curr_level + 1)' = {}
    BY <1>1, <1>2, <1>7 DEF AtLevel, LevelInv
  <2>6. Cardinality(AtLevel(curr_level + 1)') = 0 BY <2>5, FS_EmptySet
  <2>7. Tokens' = {}
    <3>1. ASSUME NEW p \in Tokens' PROVE FALSE
      <4>1. PICK x \in Lanes : p \in {x} \X (1 .. Limit(x)') BY DEF Tokens
      <4>2. lane'[x].at # "enqueue" /\ lane'[x].next = 0 BY <1>6 DEF Idle
      <4>3. Limit(x)' = 0 BY <4>2 DEF Limit
      <4>4. QED BY <4>1, <4>3
    <3>2. QED BY <3>1
  <2>8. IsFiniteSet(Tokens') /\ Cardinality(Tokens') = 0 BY <2>7, FS_EmptySet
  <2>9. ASSUME bfsKernel' = "done", BlockIsPowerOfTwo
        PROVE  \A v \in Vertices : level[v] < curr_level + 1
    <3>1. next_count = 0 BY <1>1, <1>9, <2>9
    <3>2. AtLevel(curr_level + 1) = {} BY <1>9, <2>3, <2>9, <3>1, FS_EmptySet
    <3>3. QED BY <1>7, <3>2 DEF AtLevel, LevelInv
  <2>10. ASSUME BlockIsPowerOfTwo PROVE Counted'
    <3>1. reached > curr_level /\ {reached, next_count} \subseteq Nat
      BY <1>1, <1>9, <2>10 DEF CountInv, Counted, Working
    <3>2. {reached', next_count'} \subseteq Nat BY <1>1, <3>1
    <3>3. /\ bfsKernel' \in {"expand", "hub", "host"} => reached' > curr_level'
          /\ reached' >= curr_level'
      BY <1>1, <1>7, <3>1
    <3>4. reached' = Cardinality(UpTo(curr_level)') BY <1>1, <2>4, <2>10
    <3>5. Cardinality(AtLevel(curr_level + 1)') = next_count' + Cardinality(Tokens')
      BY <1>1, <2>6, <2>8
    <3>6. bfsKernel' = "done" => \A v \in Vertices' : level'[v] < curr_level'
      BY <1>1, <1>2, <2>9, <2>10
    <3>7. QED BY <3>2, <3>3, <3>4, <3>5, <3>6 DEF Counted, Working
  <2>11. BlockIsPowerOfTwo' <=> BlockIsPowerOfTwo BY DEF BlockIsPowerOfTwo
  <2>12. QED BY <2>8, <2>10, <2>11 DEF CountInv
<1>16. QED BY <1>10, <1>11, <1>12, <1>13, <1>14, <1>15

\* Within begins with the source, also in the state after a step.
LEMMA WithinBegins ==
  (source \in Vertices)' => (Within[0])' = {source'}
<1>1. source \in Vertices => Within[0] = {source} BY WithinFacts
<1>2. (source \in Vertices => Within[0] = {source})' BY <1>1, PTL
<1>3. QED BY <1>2

LEMMA LaunchStarts ==
  ASSUME BfsInit, NEW g \in AllGraphs, NEW src \in Int, BfsLaunch(g, src)
  PROVE  Running' /\ bfsKernel' # "off"
<1>1. /\ bfsKernel' = "expand" /\ graph' = g
      /\ source' = IF src \in DOMAIN g THEN src ELSE 0
      /\ level' = [v \in DOMAIN g |-> IF v = source' THEN 0 ELSE -1]
      /\ q_in' = <<source'>> /\ reached' = 1
      /\ lane' = [x \in Lanes |-> [Idle EXCEPT !.at = "dequeue"]]
      /\ q_out' = <<>> /\ hubs' = <<>> /\ curr_level' = 0 /\ next_count' = 0 /\ refused' = {}
      /\ blocking' \in BOOLEAN
  BY DEF BfsLaunch, BfsInit
<1>2. Vertices' = DOMAIN g BY <1>1 DEF Vertices
<1>3. /\ IsFiniteSet(DOMAIN g) /\ 0 \in DOMAIN g /\ NoVertex \notin DOMAIN g
      /\ DOMAIN g \subseteq Nat
  <2>1. PICK V \in Nat \ {0} : g \in [0 .. V - 1 -> Seq(0 .. V - 1)] BY DEF AllGraphs
  <2>2. DOMAIN g = 0 .. V - 1 BY <2>1
  <2>3. IsFiniteSet(0 .. V - 1) BY <2>1, FS_Interval
  <2>4. QED BY <2>1, <2>2, <2>3 DEF NoVertex
<1>4. source' \in Vertices' BY <1>1, <1>2, <1>3
<1>5. MaybeVertex' = Vertices' \cup {NoVertex} BY DEF MaybeVertex
<1>6. \A x \in Lanes :
        /\ lane'[x].u = NoVertex /\ lane'[x].pending = NoVertex /\ lane'[x].todo = <<>>
        /\ lane'[x].next = 0 /\ lane'[x].at = "dequeue"
  BY <1>1 DEF Idle
<1>7. ToSet(q_in') = {source'} /\ ToSet(<<>>) = {} BY <1>1 DEF ToSet
<1>8. BfsType'
  <2>1. <<>> \in Seq(Vertices') /\ q_in' \in Seq(Vertices') BY <1>1, <1>4
  <2>2. [Idle EXCEPT !.at = "dequeue"] \in LaneRecord'
    BY <2>1, <1>5 DEF Idle, LaneRecord
  <2>3. lane' \in [Lanes -> LaneRecord'] BY <1>1, <2>2
  <2>4. level' \in [Vertices' -> Int] BY <1>1, <1>2
  <2>5. QED BY <1>1, <1>4, <2>1, <2>3, <2>4 DEF BfsType
<1>9. LaneInv' BY <1>1, <1>6 DEF LaneInv, LaneGood, HasEdges, Working
<1>10. \A v \in Vertices' : level'[v] = IF v = source' THEN 0 ELSE -1 BY <1>1, <1>2
<1>11. LevelInv'
  <2>1. \A x \in Lanes : ToSet(lane'[x].todo) = {} /\ lane'[x].at # "enqueue" BY <1>6, <1>7
  <2>2. ToSet(q_out') = {} /\ ToSet(hubs') = {} BY <1>1, <1>7
  <2>3. \A v \in Vertices' : level'[v] \in -1 .. curr_level' + 1 /\ (level'[v] = 0 <=> v = source')
    BY <1>1, <1>10
  <2>4. \A v \in ToSet(q_in') : level'[v] = curr_level' BY <1>1, <1>4, <1>7, <1>10
  <2>5. QED BY <1>1, <1>6, <2>1, <2>2, <2>3, <2>4 DEF LevelInv
<1>12. WorkInv'
  <2>1. ASSUME NEW u \in Vertices', NEW v, level'[u] = 0 PROVE Awaits(u, v)'
    <3>1. u = source' BY <1>10, <2>1
    <3>2. QED BY <1>7, <3>1 DEF Awaits
  <2>2. \A v \in Vertices' : level'[v] # 0 + 1 BY <1>10
  <2>3. QED BY <1>1, <2>1, <2>2 DEF WorkInv
<1>13. DistInv'
  <2>1. (Within[0])' = {source'} BY <1>4, WithinBegins
  <2>2. Within'[0] = {source'} BY <2>1
  <2>3. QED BY <1>1, <1>4, <1>10, <2>2 DEF DistInv
<1>14. CountInv'
  <2>1. UpTo(curr_level)' = {source'} BY <1>1, <1>4, <1>10 DEF UpTo
  <2>2. AtLevel(curr_level + 1)' = {} BY <1>1, <1>10 DEF AtLevel
  <2>3. Tokens' = {}
    <3>1. ASSUME NEW p \in Tokens' PROVE FALSE
      <4>1. PICK x \in Lanes : p \in {x} \X (1 .. Limit(x)') BY DEF Tokens
      <4>2. Limit(x)' = 0 BY <1>6 DEF Limit
      <4>3. QED BY <4>1, <4>2
    <3>2. QED BY <3>1
  <2>4. Cardinality({source'}) = 1 BY FS_Singleton
  <2>5. Cardinality({}) = 0 /\ IsFiniteSet({}) BY FS_EmptySet
  <2>6. (reached = Cardinality(UpTo(curr_level)))' BY <1>1, <2>1, <2>4
  <2>7. (Cardinality(AtLevel(curr_level + 1)) = next_count + Cardinality(Tokens))'
    <3>1. Cardinality(AtLevel(curr_level + 1)') = 0 /\ Cardinality(Tokens') = 0
      BY <2>2, <2>3, <2>5
    <3>2. QED BY <1>1, <3>1
  <2>8. IsFiniteSet(Tokens') BY <2>3, <2>5
  <2>9. (reached > curr_level)' /\ bfsKernel' # "done" /\ {reached', next_count'} \subseteq Nat
    BY <1>1
  <2>10. Counted' BY <2>6, <2>7, <2>9 DEF Counted
  <2>11. QED BY <2>8, <2>10 DEF CountInv
<1>15. QED BY <1>1, <1>8, <1>9, <1>11, <1>12, <1>13, <1>14 DEF Running

\* A step of the search keeps its invariant, and the search stays launched.
LEMMA StepKeeps ==
  ASSUME Running, bfsKernel # "off", BfsStep
  PROVE  Running' /\ bfsKernel' # "off"
<1>1. ASSUME NEW x \in Lanes, LaneStep(x) PROVE Running' /\ bfsKernel' = bfsKernel
  <2>1. Running'
    BY <1>1, ScanKeeps, PutFoundKeeps, DequeueNoneKeeps, TakeVertexKeeps DEF LaneStep
  <2>2. bfsKernel' = bfsKernel
    BY <1>1 DEF LaneStep, ScanEdge, EnqueueFound, DequeueNone, DequeueVertex
  <2>3. QED BY <2>1, <2>2
<1>2. ASSUME NEW w \in 0 .. NumWaves - 1, WaveStep(w) PROVE Running' /\ bfsKernel' = bfsKernel
  <2>1. Running' BY <1>2, ShareKeeps, VoteKeeps DEF WaveStep
  <2>2. bfsKernel' = bfsKernel BY <1>2 DEF WaveStep, ShareVertex, VoteExit
  <2>3. QED BY <2>1, <2>2
<1>3. ASSUME KernelStep PROVE Running' /\ bfsKernel' # "off"
  <2>1. Running' BY <1>3, KernelsEndKeep, NextHubKeeps, SwapKeeps DEF KernelStep
  <2>2. bfsKernel' # "off" BY <1>3 DEF KernelStep, ExpandEnds, NextHub, HubsEnd, HostSwap
  <2>3. QED BY <2>1, <2>2
<1>4. QED BY <1>1, <1>2, <1>3 DEF BfsStep

\* Before the launch there is nothing but the launch to do.
LEMMA OnlyLaunch ==
  ASSUME BfsInit, BfsStep
  PROVE  FALSE
<1>1. bfsKernel = "off" /\ q_in = <<>> /\ \A x \in Lanes : lane[x].at = "out"
  BY DEF BfsInit, Idle
<1>2. ASSUME NEW x \in Lanes, LaneStep(x) PROVE FALSE
  BY <1>1, <1>2 DEF LaneStep, ScanEdge, EnqueueFound, DequeueNone, DequeueVertex
<1>3. ASSUME NEW w \in 0 .. NumWaves - 1, WaveStep(w) PROVE FALSE
  BY <1>1, <1>3 DEF WaveStep, ShareVertex, VoteExit, WaveMeets
<1>4. ASSUME KernelStep PROVE FALSE
  BY <1>1, <1>4 DEF KernelStep, ExpandEnds, NextHub, HubsEnd, HostSwap
<1>5. QED BY <1>2, <1>3, <1>4 DEF BfsStep

\* The invariant of the search holds for every graph, wherever it begins.
LEMMA BfsInvHolds == BfsSpec => []BfsInv
<1>1. BfsInit => BfsInv BY DEF BfsInv, BfsInit
<1>2. BfsInv /\ [BfsNext]_bfsVars => BfsInv'
  <2> SUFFICES ASSUME BfsInv, [BfsNext]_bfsVars PROVE BfsInv' OBVIOUS
  <2>1. CASE UNCHANGED bfsVars
    <3>1. UNCHANGED <<bfsKernel, blocking, graph, source, level, q_in, q_out, hubs, curr_level, frontier,
                      reached, next_count, lane, refused>>
      BY <2>1 DEF bfsVars
    <3>2. CASE bfsKernel = "off" BY <3>1, <3>2 DEF BfsInv, BfsInit
    <3>3. CASE bfsKernel # "off"
      <4>1. Running BY <3>3 DEF BfsInv
      <4>2. /\ Vertices' = Vertices /\ LaneRecord' = LaneRecord /\ Within' = Within
            /\ \A u, v : Edge(u, v)' <=> Edge(u, v)
        BY <3>1, SameGraph
      <4>3. BfsType' BY <3>1, <4>1, <4>2 DEF Running, BfsType
      <4>4. LaneInv' BY <3>1, <4>1 DEF Running, LaneInv, LaneGood, HasEdges, Working
      <4>5. LevelInv' BY <3>1, <4>1, <4>2 DEF Running, LevelInv
      <4>6. WorkInv' BY <3>1, <4>1, <4>2 DEF Running, WorkInv, Awaits, Working
      <4>7. \A x \in Lanes : Limit(x)' = Limit(x) BY <3>1 DEF Limit
      <4>8. DistInv' /\ CountInv' BY <3>1, <4>1, <4>7, LevelsStay
      <4>9. QED BY <3>1, <3>3, <4>3, <4>4, <4>5, <4>6, <4>8 DEF BfsInv, Running
    <3>4. QED BY <3>2, <3>3
  <2>2. ASSUME NEW g \in AllGraphs, NEW src \in Int, BfsLaunch(g, src) PROVE BfsInv'
    <3>1. BfsInit BY <2>2 DEF BfsInv, BfsLaunch
    <3>2. QED BY <2>2, <3>1, LaunchStarts DEF BfsInv
  <2>3. CASE BfsStep
    <3>1. bfsKernel # "off" BY <2>3, OnlyLaunch DEF BfsInv
    <3>2. QED BY <2>3, <3>1, StepKeeps DEF BfsInv
  <2>4. QED BY <2>1, <2>2, <2>3 DEF BfsNext
<1>3. QED BY <1>1, <1>2, PTL DEF BfsSpec

-----------------------------------------------------------------------------
\* A vertex within m edges is within more.
LEMMA WithinGrows ==
  ASSUME source \in Vertices, NEW m \in Nat, NEW v \in Within[m], NEW n \in Nat, m <= n
  PROVE  v \in Within[n]
<1> DEFINE S == {k \in Nat : v \in Within[m + k]}
<1>1. 0 \in S OBVIOUS
<1>2. ASSUME NEW k \in S PROVE k + 1 \in S
  <2>1. m + (k + 1) = (m + k) + 1 /\ m + k \in Nat OBVIOUS
  <2>2. v \in Within[(m + k) + 1] BY <2>1, WithinFacts
  <2>3. QED BY <2>1, <2>2
<1>3. S \in SUBSET Nat OBVIOUS
<1> HIDE DEF S
<1>4. n - m \in S BY <1>1, <1>2, <1>3, SetInduction
<1>5. QED BY <1>4 DEF S

\* When the search is done, no vertex is within reach that was not found.
LEMMA ReachedAll ==
  ASSUME Running, BlockIsPowerOfTwo, bfsKernel = "done"
  PROVE  /\ reached = Cardinality(Found)
         /\ refused = {} => Found = Within[Cardinality(Vertices)]
<1> DEFINE found == {v \in Vertices : level[v] # -1}
           S == {n \in Nat : Within[curr_level + n] = found}
<1> USE DEF Running
<1>1. /\ curr_level \in Nat /\ source \in Vertices /\ IsFiniteSet(Vertices)
      /\ reached = Cardinality(UpTo(curr_level)) /\ reached >= curr_level /\ reached \in Nat
  BY TheVertices DEF BfsType, CountInv, Counted
<1>2. \A v \in Vertices : level[v] \in -1 .. curr_level - 1
  <2>1. \A v \in Vertices : level[v] \in -1 .. curr_level + 1 /\ level[v] < curr_level
    BY DEF LevelInv, CountInv, Counted
  <2>2. QED BY <1>1, <2>1
<1>3. UpTo(curr_level) = found BY <1>1, <1>2 DEF UpTo
<1>4. Cardinality(Vertices) - curr_level \in Nat /\ Cardinality(Vertices) \in Nat
  <2>1. Cardinality(UpTo(curr_level)) <= Cardinality(Vertices)
    BY <1>1, FS_Subset DEF UpTo
  <2>2. Cardinality(Vertices) \in Nat BY <1>1, FS_CardinalityType
  <2>3. QED BY <1>1, <2>1, <2>2
<1>5. ASSUME refused = {} PROVE found = Within[Cardinality(Vertices)]
  <2>1. \A n \in 0 .. curr_level : \A v \in Within[n] : level[v] \in 0 .. n
    BY <1>5 DEF DistInv
  <2>2. 0 \in S
    <3>1. ASSUME NEW v \in found PROVE v \in Within[curr_level]
      <4>1. v \in Within[level[v]] /\ level[v] \in Nat /\ level[v] <= curr_level
        BY <1>1, <1>2 DEF DistInv
      <4>2. QED BY <1>1, <4>1, WithinGrows
    <3>2. Within[curr_level] \subseteq Vertices BY <1>1, WithinVertices
    <3>3. ASSUME NEW v \in Within[curr_level] PROVE v \in found BY <1>1, <2>1, <3>2
    <3>4. QED BY <1>1, <3>1, <3>3
  \* The neighbours of a vertex that was found were found.
  <2>3. ASSUME NEW u \in found, NEW v \in Vertices, Edge(u, v) PROVE v \in found
    <3> DEFINE m == level[u]
    <3>1. m \in Nat /\ m + 1 \in 0 .. curr_level /\ u \in Within[m]
      BY <1>1, <1>2 DEF DistInv
    <3> HIDE DEF m
    <3>2. Within[m + 1] = Within[m] \cup {z \in Vertices : \E y \in Within[m] : Edge(y, z)}
      BY <1>1, <3>1, WithinFacts
    <3>3. v \in Within[m + 1] BY <2>3, <3>1, <3>2
    <3>4. level[v] \in 0 .. m + 1 BY <2>1, <3>1, <3>3
    <3>5. QED BY <3>1, <3>4
  <2>4. ASSUME NEW n \in S PROVE n + 1 \in S
    <3> DEFINE k == curr_level + n
    <3>1. k \in Nat /\ curr_level + (n + 1) = k + 1 /\ n \in Nat BY <1>1
    <3>2. Within[k] = found OBVIOUS
    <3> HIDE DEF k
    <3>3. Within[k + 1] = Within[k] \cup {z \in Vertices : \E y \in Within[k] : Edge(y, z)}
      BY <1>1, <3>1, WithinFacts
    <3>4. {z \in Vertices : \E y \in found : Edge(y, z)} \subseteq found BY <2>3
    <3> HIDE DEF found
    <3>5. Within[k + 1] = found BY <3>2, <3>3, <3>4
    <3>6. QED BY <3>1, <3>5
  <2>5. S \in SUBSET Nat OBVIOUS
  <2> HIDE DEF S
  <2>6. S = Nat BY <2>2, <2>4, <2>5, SetInduction
  <2>7. Cardinality(Vertices) - curr_level \in S BY <1>4, <2>6
  <2>8. curr_level + (Cardinality(Vertices) - curr_level) = Cardinality(Vertices) BY <1>1, <1>4
  <2>9. QED BY <2>7, <2>8 DEF S
<1>6. QED BY <1>1, <1>3, <1>5 DEF Found

\* As long as no queue was full, a level is the distance from the source at any
\* moment (the compare-and-swap on level and the swap of the queues, in
\* bfs_expand_kernel, bfs_hub_kernel and run_bfs): for every graph and every number
\* of waves and lanes, whether a queue refuses or waits.
THEOREM LevelsRight == BfsSpec => []FoundAtDistance
<1>1. BfsInv => FoundAtDistance
  <2> SUFFICES ASSUME BfsInv, bfsKernel # "off", refused = {}, NEW v \in Found
               PROVE  v \in Within[level[v]] /\ (level[v] > 0 => v \notin Within[level[v] - 1])
    BY DEF FoundAtDistance
  <2>1. Running /\ v \in Vertices /\ level[v] # -1 BY DEF BfsInv, Found
  <2>2. v \in Within[level[v]] BY <2>1 DEF Running, DistInv
  <2>3. curr_level \in Nat /\ level[v] \in 0 .. curr_level + 1
    BY <2>1 DEF Running, LevelInv, BfsType
  <2>4. ASSUME level[v] > 0, v \in Within[level[v] - 1] PROVE FALSE
    <3>1. level[v] - 1 \in 0 .. curr_level BY <2>3, <2>4
    <3>2. level[v] \in 0 .. level[v] - 1 BY <2>1, <2>4, <3>1 DEF Running, DistInv
    <3>3. QED BY <2>3, <3>2
  <2>5. QED BY <2>2, <2>4
<1>2. QED BY <1>1, BfsInvHolds, PTL

\* In a block of a power of two threads the host besides stops only when everything
\* within reach has a level, and whatever the queues refuse it has counted each vertex
\* that has one once: the halving sums of bfs_expand_kernel and bfs_hub_kernel then
\* lose no find.  For every graph and every such number of waves and lanes.
THEOREM LevelsCorrect ==
  ASSUME BlockIsPowerOfTwo
  PROVE  BfsSpec => []LevelsAreDistances
<1>1. BfsInv /\ FoundAtDistance => LevelsAreDistances
  BY ReachedAll DEF BfsInv, BfsInit, LevelsAreDistances
<1>2. QED BY <1>1, BfsInvHolds, LevelsRight, PTL

-----------------------------------------------------------------------------
(***************************************************************************)
(* The baseline: the tree over the cells of a block                        *)
(***************************************************************************)
LEMMA HalfDivides ==
  ASSUME NEW w \in Nat \ {0}, NEW x \in Nat, x % (2 * w) = 0
  PROVE  x % w = 0
<1>1. PICK m \in Nat : x = (2 * w) * m
  <2>1. 2 * w \in Nat \ {0} OBVIOUS
  <2>2. x = (2 * w) * (x \div (2 * w)) + (x % (2 * w)) /\ x \div (2 * w) \in Nat
    BY <2>1, DivMod
  <2>3. PICK m \in Nat : m = x \div (2 * w) BY <2>2
  <2>4. x = (2 * w) * m BY <2>2, <2>3
  <2>5. QED BY <2>4
<1>2. x = w * (2 * m) + 0 BY <1>1
<1>3. 2 * m \in Nat /\ 0 \in 0 .. w - 1 OBVIOUS
<1>4. QED BY <1>2, <1>3, DivModOf

LEMMA PowDivides ==
  ASSUME NEW j \in Nat, NEW k \in 0 .. j, NEW x \in Nat, x % 2 ^ j = 0
  PROVE  x % 2 ^ k = 0
<1> DEFINE S == {m \in Nat : m <= j => x % 2 ^ (j - m) = 0}
<1>1. 0 \in S
  <2>1. j - 0 = j OBVIOUS
  <2>2. QED BY <2>1
<1>2. ASSUME NEW m \in S PROVE m + 1 \in S
  <2> SUFFICES ASSUME m + 1 <= j PROVE x % 2 ^ (j - (m + 1)) = 0
    OBVIOUS
  <2>1. j - m \in Nat \ {0} /\ (j - m) - 1 = j - (m + 1) OBVIOUS
  <2>2. x % 2 ^ (j - m) = 0 OBVIOUS
  <2>3. 2 ^ (j - m) = 2 * 2 ^ (j - (m + 1)) /\ 2 ^ (j - (m + 1)) \in Nat \ {0}
    BY <2>1, PowDown
  <2>4. QED BY <2>2, <2>3, HalfDivides
<1>3. S = Nat BY <1>1, <1>2, SetInduction
<1>4. j - k \in Nat /\ j - k <= j /\ j - (j - k) = k OBVIOUS
<1>5. j - k \in S BY <1>3, <1>4
<1>6. QED BY <1>4, <1>5

\* How high in the tree the cell x - 1 is the last of a subtree.
Rank(x) ==
  CHOOSE j \in 0 .. Levels : x % 2 ^ j = 0 /\ (j = Levels \/ x % 2 ^ (j + 1) # 0)

LEMMA RankHas ==
  ASSUME blockLog \in Nat, NEW x \in Nat
  PROVE  /\ Rank(x) \in 0 .. Levels
         /\ x % 2 ^ Rank(x) = 0
         /\ Rank(x) = Levels \/ x % 2 ^ (Rank(x) + 1) # 0
<1> DEFINE S == {m \in 0 .. Levels : x % 2 ^ (Levels - m) = 0}
<1>0. Levels \in Nat \ {0} BY DEF Levels
<1>1. Levels \in S
  <2>1. Levels - Levels = 0 /\ Levels \in 0 .. Levels BY <1>0
  <2>2. x % 1 = 0 OBVIOUS
  <2>3. x % 2 ^ (Levels - Levels) = 0 BY <2>1, <2>2, PowZero
  <2>4. QED BY <2>1, <2>3
<1>2. PICK m \in S : \A k \in S : m <= k
  <2>1. S # {} BY <1>1
  <2>2. S \in SUBSET Nat
    <3>1. 0 .. Levels \subseteq Nat BY <1>0
    <3>2. S \subseteq 0 .. Levels OBVIOUS
    <3> HIDE DEF S
    <3>3. QED BY <3>1, <3>2
  <2> HIDE DEF S
  <2>3. QED BY <2>1, <2>2, Smallest
<1> DEFINE j == Levels - m
<1>3. j \in 0 .. Levels /\ x % 2 ^ j = 0 BY <1>0, <1>2
<1>4. j = Levels \/ x % 2 ^ (j + 1) # 0
  <2> SUFFICES ASSUME j # Levels, x % 2 ^ (j + 1) = 0 PROVE FALSE
    OBVIOUS
  <2>1. m - 1 \in 0 .. Levels /\ Levels - (m - 1) = j + 1 BY <1>0, <1>3
  <2>2. m - 1 \in S BY <2>1
  <2>3. m <= m - 1 BY <1>2, <2>2
  <2>4. m \in Int BY <1>0, <1>2
  <2> HIDE DEF S, j
  <2>5. QED BY <2>3, <2>4
<1> HIDE DEF j
<1>5. QED BY <1>3, <1>4 DEF Rank

LEMMA RankAtLeast ==
  ASSUME blockLog \in Nat, NEW x \in Nat, NEW k \in 0 .. Levels
  PROVE  Rank(x) >= k <=> x % 2 ^ k = 0
<1>0. Levels \in Nat BY DEF Levels
<1>1. PICK j \in 0 .. Levels :
        j = Rank(x) /\ x % 2 ^ j = 0 /\ (j = Levels \/ x % 2 ^ (j + 1) # 0)
  BY RankHas
<1>2. ASSUME j >= k PROVE x % 2 ^ k = 0
  <2>1. j \in Nat /\ k \in 0 .. j BY <1>0, <1>2
  <2>2. QED BY <1>1, <2>1, PowDivides
<1>3. ASSUME x % 2 ^ k = 0, j < k PROVE FALSE
  <2>1. k \in Nat /\ j + 1 \in 0 .. k BY <1>0, <1>3
  <2>2. x % 2 ^ (j + 1) = 0 BY <1>3, <2>1, PowDivides
  <2>3. j # Levels BY <1>0, <1>3
  <2>4. QED BY <1>1, <2>2, <2>3
<1>4. j >= k \/ j < k BY <1>0
<1>5. QED BY <1>1, <1>2, <1>3, <1>4

LEMMA BlockSize ==
  ASSUME blockLog \in Nat
  PROVE  /\ BLOCK_SIZE \in Nat \ {0} /\ Levels \in Nat \ {0}
         /\ 2 * BLOCK_SIZE = 2 ^ Levels
         /\ BLOCK_SIZE = 2 ^ (Levels - 1)
<1>1. Levels - 1 = blockLog /\ Levels \in Nat \ {0} BY DEF Levels
<1>2. QED BY <1>1, PowSucc, PowType DEF BLOCK_SIZE, Levels

\* At level e of the tree, a subtree has 2 ^ e cells, there are that many of them, and
\* each is of two halves.
LEMMA LevelSizes ==
  ASSUME blockLog \in Nat, NEW e \in 1 .. Levels,
         NEW o, o = 2 ^ (e - 1), NEW d, d = 2 ^ (Levels - e)
  PROVE  /\ o \in Nat \ {0} /\ d \in Nat \ {0}
         /\ 2 ^ e = 2 * o
         /\ (2 * o) * d = 2 * BLOCK_SIZE
         /\ BLOCK_SIZE \div o = d /\ BLOCK_SIZE \div d = o
         /\ d <= BLOCK_SIZE
<1>0. Levels \in Nat \ {0} /\ BLOCK_SIZE \in Nat \ {0} /\ 2 * BLOCK_SIZE = 2 ^ Levels
  BY BlockSize
<1>1. e \in Nat \ {0} /\ Levels - e \in Nat /\ e \in 0 .. Levels BY <1>0
<1>2. 2 ^ e = 2 * o /\ o \in Nat \ {0} BY <1>1, PowDown
<1>3. d \in Nat \ {0} BY <1>1, PowType
<1>4. d * 2 ^ e = 2 ^ Levels BY <1>0, <1>1, PowSum
<1>5. d * (2 * o) = 2 * BLOCK_SIZE BY <1>0, <1>2, <1>4
<1>6. PICK n \in Nat \ {0} : n = BLOCK_SIZE BY <1>0
<1>7. PICK p \in Nat \ {0}, q \in Nat \ {0} : p = o /\ q = d BY <1>2, <1>3
<1>8. q * (2 * p) = 2 * n BY <1>5, <1>6, <1>7
<1>9. n = p * q + 0 /\ n = q * p + 0 BY <1>8
<1>10. 0 \in 0 .. p - 1 /\ 0 \in 0 .. q - 1 OBVIOUS
<1>11. n \div p = q BY <1>9, <1>10, DivModOf
<1>12. n \div q = p BY <1>9, <1>10, DivModOf
<1>13. q <= n BY <1>9
<1>14. (2 * p) * q = 2 * n BY <1>8
<1>15. QED BY <1>2, <1>6, <1>7, <1>11, <1>12, <1>13, <1>14

\* The two cells of thread t at level e.
LEMMA CellsOfThread ==
  ASSUME blockLog \in Nat, NEW e \in 1 .. Levels,
         NEW o, o = 2 ^ (e - 1), NEW d, d = 2 ^ (Levels - e),
         NEW t \in Nat, t < d
  PROVE  LET ai == o * (2 * t + 1)
             bi == o * (2 * t + 2)
         IN /\ ai \in 1 .. 2 * BLOCK_SIZE /\ bi \in 1 .. 2 * BLOCK_SIZE /\ ai = bi - o
            /\ (ai - 1) \div 2 ^ e = t /\ (bi - 1) \div 2 ^ e = t
            /\ Rank(ai) = e - 1 /\ Rank(bi) >= e
<1> DEFINE ai == o * (2 * t + 1)
           bi == o * (2 * t + 2)
<1>0. Levels \in Nat \ {0} /\ BLOCK_SIZE \in Nat \ {0} BY BlockSize
<1>1. /\ o \in Nat \ {0} /\ d \in Nat \ {0} /\ 2 ^ e = 2 * o
      /\ (2 * o) * d = 2 * BLOCK_SIZE
  BY LevelSizes
<1>2. PICK w \in Nat \ {0} : w = 2 * o BY <1>1
<1>3. w * t + w <= w * d
  <2>1. t \in Int /\ d \in Int /\ t < d BY <1>1
  <2>2. QED BY <2>1, MultiplesApart
<1>4. w * t \in Nat BY <1>2
<1>5. ai = w * t + o /\ bi = w * t + 2 * o BY <1>1, <1>2
<1>6. w * d = 2 * BLOCK_SIZE BY <1>1, <1>2
<1>7. ai \in 1 .. 2 * BLOCK_SIZE /\ bi \in 1 .. 2 * BLOCK_SIZE /\ ai = bi - o
  BY <1>0, <1>1, <1>2, <1>3, <1>4, <1>5, <1>6
<1>8. ai - 1 = w * t + (o - 1) /\ bi - 1 = w * t + (w - 1) BY <1>1, <1>2, <1>4, <1>5
<1>9. o - 1 \in 0 .. w - 1 /\ w - 1 \in 0 .. w - 1 /\ o \in 0 .. w - 1 BY <1>1, <1>2
<1>10. ai - 1 \in Nat /\ bi - 1 \in Nat /\ ai \in Nat /\ bi \in Nat BY <1>0, <1>7
<1> HIDE DEF ai, bi
<1>11. (ai - 1) \div w = t BY <1>8, <1>9, <1>10, DivModOf
<1>12. (bi - 1) \div w = t BY <1>8, <1>9, <1>10, DivModOf
<1>13. ai % w = o
  <2>1. PICK p \in 0 .. w - 1 : p = o BY <1>9
  <2>2. ai = w * t + p BY <1>5, <2>1
  <2>3. ai % w = p BY <1>10, <2>2, DivModOf
  <2>4. QED BY <2>1, <2>3
<1>14. bi % w = 0
  <2>1. bi = w * (t + 1) + 0
    <3>1. w * (t + 1) = w * t + w BY <1>2
    <3>2. QED BY <1>2, <1>4, <1>5, <3>1
  <2>2. 0 \in 0 .. w - 1 /\ t + 1 \in Nat OBVIOUS
  <2>3. QED BY <1>10, <2>1, <2>2, DivModOf
<1>15. ai % o = 0
  <2>1. PICK p \in Nat \ {0}, n \in Nat : p = o /\ n = 2 * t + 1 BY <1>1
  <2>2. ai = p * n + 0 BY <2>1 DEF ai
  <2>3. 0 \in 0 .. p - 1 OBVIOUS
  <2>4. ai % p = 0 BY <1>10, <2>2, <2>3, DivModOf
  <2>5. QED BY <2>1, <2>4
<1>16. e \in 0 .. Levels /\ e - 1 \in 0 .. Levels BY <1>0
<1>17. Rank(bi) >= e BY <1>1, <1>2, <1>10, <1>14, <1>16, RankAtLeast
<1>18. Rank(ai) >= e - 1 BY <1>10, <1>15, <1>16, RankAtLeast
<1>19. ~ (Rank(ai) >= e) BY <1>1, <1>2, <1>10, <1>13, <1>16, RankAtLeast
<1>20. Rank(ai) \in 0 .. Levels BY <1>10, RankHas
<1>21. Rank(ai) = e - 1 BY <1>0, <1>18, <1>19, <1>20
<1>22. QED BY <1>1, <1>2, <1>7, <1>11, <1>12, <1>17, <1>21 DEF ai, bi

\* The thread of a cell at level e, and the cells that it names.
LEMMA ThreadOfCell ==
  ASSUME blockLog \in Nat, NEW e \in 1 .. Levels,
         NEW o, o = 2 ^ (e - 1), NEW d, d = 2 ^ (Levels - e),
         NEW x \in 1 .. 2 * BLOCK_SIZE, NEW t, t = (x - 1) \div 2 ^ e
  PROVE  /\ t \in Nat /\ t < d
         /\ Rank(x) >= e => x = o * (2 * t + 2)
         /\ Rank(x) = e - 1 => x = o * (2 * t + 1)
<1>0. Levels \in Nat \ {0} /\ BLOCK_SIZE \in Nat \ {0} BY BlockSize
<1>1. /\ o \in Nat \ {0} /\ d \in Nat \ {0} /\ 2 ^ e = 2 * o
      /\ (2 * o) * d = 2 * BLOCK_SIZE
  BY LevelSizes
<1>2. PICK w \in Nat \ {0} : w = 2 * o BY <1>1
<1>3. x - 1 \in Nat /\ x \in Nat /\ t = (x - 1) \div w BY <1>0, <1>1, <1>2
<1>4. x - 1 = w * t + ((x - 1) % w) /\ t \in Nat /\ (x - 1) % w \in 0 .. w - 1
  BY <1>3, DivMod
<1>5. t < d
  <2> SUFFICES ASSUME d <= t PROVE FALSE
    BY <1>1, <1>4
  <2>1. w * d <= w * t
    <3>1. CASE d = t BY <3>1, <1>1
    <3>2. CASE d < t
      <4>1. w * d + w <= w * t BY <1>1, <1>4, <3>2, MultiplesApart
      <4>2. w * d \in Nat /\ w * t \in Nat BY <1>1, <1>4
      <4>3. QED BY <4>1, <4>2
    <3>3. QED BY <1>1, <1>4, <3>1, <3>2
  <2>2. w * d = 2 * BLOCK_SIZE BY <1>1, <1>2
  <2>3. w * t \in Nat /\ (x - 1) % w \in Nat BY <1>4
  <2>4. QED BY <1>0, <1>4, <2>1, <2>2, <2>3
<1>6. e \in 0 .. Levels /\ e - 1 \in 0 .. Levels BY <1>0
<1>7. x = w * (x \div w) + (x % w) /\ x \div w \in Nat /\ x % w \in 0 .. w - 1
  BY <1>3, DivMod
<1>8. PICK m \in Nat : m = x \div w BY <1>7
<1>9. ASSUME Rank(x) >= e PROVE x = o * (2 * t + 2)
  <2>1. x % w = 0 BY <1>1, <1>2, <1>3, <1>6, <1>9, RankAtLeast
  <2>2. x = w * m BY <1>7, <1>8, <2>1
  <2>3. m # 0 BY <2>2
  <2>4. m - 1 \in Nat BY <2>3
  <2>5. x - 1 = w * (m - 1) + (w - 1)
    <3>1. w * (m - 1) = w * m - w OBVIOUS
    <3>2. w * m \in Nat OBVIOUS
    <3>3. QED BY <2>2, <3>1, <3>2
  <2>6. w - 1 \in 0 .. w - 1 OBVIOUS
  <2>7. PICK n \in Nat, y \in Nat : n = m - 1 /\ y = x - 1 BY <1>3, <2>4
  <2>7a. y = w * n + (w - 1) BY <2>5, <2>7
  <2>7b. y \div w = n BY <2>6, <2>7a, DivModOf
  <2>7c. t = m - 1 BY <1>3, <2>7, <2>7b
  <2>8. m = t + 1 BY <2>7c
  <2>9. x = (2 * o) * (t + 1) BY <1>2, <2>2, <2>8
  <2>10. QED BY <1>1, <1>4, <2>9
<1>10. ASSUME Rank(x) = e - 1 PROVE x = o * (2 * t + 1)
  <2>1. Rank(x) >= e - 1 /\ ~ (Rank(x) >= e) BY <1>6, <1>10
  <2>2. x % o = 0 BY <1>3, <1>6, <2>1, RankAtLeast
  <2>3. x % w # 0 BY <1>1, <1>2, <1>3, <1>6, <2>1, RankAtLeast
  <2>4. x = o * (x \div o) + (x % o) /\ x \div o \in Nat BY <1>1, <1>3, DivMod
  <2>5. PICK n \in Nat : n = x \div o BY <2>4
  <2>6. x = o * n BY <1>1, <2>2, <2>4, <2>5
  <2>7. PICK r \in 0 .. w - 1 : r = x % w BY <1>7
  <2>8. x = w * m + r /\ r # 0 BY <1>7, <1>8, <2>3, <2>7
  <2>9. o * n = o * (2 * m) + r
    <3>1. w * m = o * (2 * m) BY <1>1, <1>2
    <3>2. QED BY <2>6, <2>8, <3>1
  <2>10. ~ (n < 2 * m + 1)
    <3> SUFFICES ASSUME n < 2 * m + 1 PROVE FALSE
      OBVIOUS
    <3>1. n = 2 * m \/ n < 2 * m OBVIOUS
    <3>2. o * n <= o * (2 * m)
      <4>1. CASE n = 2 * m BY <4>1, <1>1
      <4>2. CASE n < 2 * m
        <5>1. o * n + o <= o * (2 * m) BY <1>1, <4>2, MultiplesApart
        <5>2. o * n \in Nat /\ o * (2 * m) \in Nat BY <1>1
        <5>3. QED BY <1>1, <5>1, <5>2
      <4>3. QED BY <3>1, <4>1, <4>2
    <3>3. o * n \in Nat /\ o * (2 * m) \in Nat BY <1>1
    <3>4. QED BY <2>8, <2>9, <3>2, <3>3
  <2>11. ~ (2 * m + 1 < n)
    <3> SUFFICES ASSUME 2 * m + 1 < n PROVE FALSE
      OBVIOUS
    <3>1. o * (2 * m + 1) + o <= o * n BY <1>1, MultiplesApart
    <3>2. o * (2 * m + 1) = o * (2 * m) + o BY <1>1
    <3>3. o * n \in Nat /\ o * (2 * m) \in Nat BY <1>1
    <3>4. QED BY <1>1, <1>2, <2>9, <3>1, <3>2, <3>3
  <2>12. n = 2 * m + 1 BY <2>10, <2>11
  <2>13. x = w * m + o
    <3>1. o * (2 * m + 1) = (2 * o) * m + o BY <1>1
    <3>2. QED BY <1>2, <2>6, <2>12, <3>1
  <2>14. x - 1 = w * m + (o - 1)
    <3>1. w * m \in Nat OBVIOUS
    <3>2. QED BY <1>1, <2>13, <3>1
  <2>15. o - 1 \in 0 .. w - 1 BY <1>1, <1>2
  <2>16. t = m BY <1>3, <2>14, <2>15, DivModOf
  <2>17. QED BY <2>6, <2>12, <2>16
<1>11. QED BY <1>4, <1>5, <1>9, <1>10

-----------------------------------------------------------------------------
(***************************************************************************)
(* The baseline: what the cells of a block hold between two barriers.      *)
(* g[x] is the sum of the inputs of the block before the x-th.             *)
(***************************************************************************)
CellIndex == 1 .. 2 * BLOCK_SIZE          \* of cell x - 1
BlockThreads == 0 .. BLOCK_SIZE - 1

\* After j levels of the up-sweep: the sum over the subtree that ends at the cell.
UpSum(g, j, x) == g[x] - g[x - 2 ^ (IF j <= Rank(x) THEN j ELSE Rank(x))]

\* When k levels of the down-sweep are left: the sum of what precedes the subtree.
DownSum(g, k, x) ==
  IF Rank(x) >= k THEN g[x - 2 ^ k] - g[0] ELSE g[x] - g[x - 2 ^ Rank(x)]

LEMMA IndexRange ==
  ASSUME blockLog \in Nat, NEW x \in CellIndex
  PROVE  /\ x \in Nat \ {0} /\ x \in 0 .. 2 * BLOCK_SIZE
         /\ x - 1 \in 0 .. 2 * BLOCK_SIZE - 1 /\ x - 1 \in Nat
         /\ 0 \in 0 .. 2 * BLOCK_SIZE
<1>1. BLOCK_SIZE \in Nat \ {0} BY BlockSize
<1>2. QED BY <1>1 DEF CellIndex

LEMMA SubtreeFits ==
  ASSUME blockLog \in Nat, NEW x \in CellIndex, NEW k \in 0 .. Levels, k <= Rank(x)
  PROVE  x - 2 ^ k \in 0 .. 2 * BLOCK_SIZE
<1>0. Levels \in Nat /\ BLOCK_SIZE \in Nat /\ x \in Nat \ {0} /\ k \in Nat
  BY BlockSize DEF CellIndex
<1>1. Rank(x) \in 0 .. Levels BY <1>0, RankHas
<1>2. Rank(x) >= k BY <1>0, <1>1
<1>3. x % 2 ^ k = 0 BY <1>0, <1>2, RankAtLeast
<1>4. PICK w \in Nat \ {0} : w = 2 ^ k BY <1>0, PowType
<1>5. x = w * (x \div w) + (x % w) /\ x \div w \in Nat BY <1>0, DivMod
<1>6. PICK m \in Nat : m = x \div w BY <1>5
<1>7. x = w * m BY <1>3, <1>4, <1>5, <1>6
<1>8. m >= 1 BY <1>0, <1>7
<1>9. w <= w * m BY <1>8
<1>10. QED BY <1>0, <1>4, <1>7, <1>9 DEF CellIndex

LEMMA TopCell ==
  ASSUME blockLog \in Nat, NEW x \in CellIndex
  PROVE  Rank(x) >= Levels <=> x = 2 * BLOCK_SIZE
<1>0. Levels \in Nat /\ BLOCK_SIZE \in Nat \ {0} /\ x \in Nat \ {0} /\ 2 ^ Levels = 2 * BLOCK_SIZE
  BY BlockSize DEF CellIndex
<1>1. PICK w \in Nat \ {0} : w = 2 * BLOCK_SIZE BY <1>0
<1>2. Levels \in 0 .. Levels BY <1>0
<1>3. Rank(x) >= Levels <=> x % w = 0 BY <1>0, <1>1, <1>2, RankAtLeast
<1>4. ASSUME x = w PROVE x % w = 0
  <2>1. x = w * 1 + 0 /\ 0 \in 0 .. w - 1 BY <1>4
  <2>2. QED BY <1>0, <2>1, DivModOf
<1>5. ASSUME x # w PROVE x % w # 0
  <2>1. x \in 0 .. w - 1 BY <1>0, <1>1, <1>5 DEF CellIndex
  <2>2. x = w * 0 + x BY <1>0
  <2>3. x % w = x BY <1>0, <2>1, <2>2, DivModOf
  <2>4. QED BY <1>0, <2>3
<1>6. QED BY <1>1, <1>3, <1>4, <1>5

\* A thread that adds at level e of the up-sweep leaves its cells as they are to be.
LEMMA UpStep ==
  ASSUME blockLog \in Nat, NEW e \in 1 .. Levels, NEW t \in BlockThreads,
         NEW g \in [0 .. 2 * BLOCK_SIZE -> Int],
         NEW cells \in [0 .. 2 * BLOCK_SIZE - 1 -> Int],
         \A x \in CellIndex : (x - 1) \div 2 ^ e = t => cells[x - 1] = UpSum(g, e - 1, x)
  PROVE  /\ SweptUp(cells, t, e) \in [0 .. 2 * BLOCK_SIZE - 1 -> Int]
         /\ \A x \in CellIndex :
              SweptUp(cells, t, e)[x - 1] =
                IF (x - 1) \div 2 ^ e = t THEN UpSum(g, e, x) ELSE cells[x - 1]
<1> DEFINE o == 2 ^ (e - 1)
           d == 2 ^ (Levels - e)
           ai == o * (2 * t + 1)
           bi == o * (2 * t + 2)
           N == 2 * BLOCK_SIZE
           new == IF t < d THEN [cells EXCEPT ![bi - 1] = @ + cells[ai - 1]] ELSE cells
<1>0. Levels \in Nat \ {0} /\ BLOCK_SIZE \in Nat \ {0} /\ t \in Nat
  BY BlockSize DEF BlockThreads
<1>1. o \in Nat \ {0} /\ d \in Nat \ {0} /\ 2 ^ e = 2 * o /\ BLOCK_SIZE \div o = d
  BY LevelSizes
<1>2. SweptUp(cells, t, e) = new BY <1>1 DEF SweptUp
<1>3. ASSUME NEW x \in CellIndex, (x - 1) \div 2 ^ e = t
      PROVE  t < d /\ (Rank(x) >= e => x = bi)
  BY <1>3, ThreadOfCell DEF CellIndex
<1>4. ASSUME NEW x \in CellIndex
      PROVE  Rank(x) \in 0 .. Levels /\ (Rank(x) < e => UpSum(g, e, x) = UpSum(g, e - 1, x))
  <2>1. x \in Nat BY <1>0 DEF CellIndex
  <2>2. Rank(x) \in 0 .. Levels BY <2>1, RankHas
  <2>3. ASSUME Rank(x) < e PROVE UpSum(g, e, x) = UpSum(g, e - 1, x)
    <3>1. ~ (e <= Rank(x)) /\ (e - 1 <= Rank(x) => e - 1 = Rank(x)) BY <1>0, <2>2, <2>3
    <3>2. QED BY <3>1 DEF UpSum
  <2>4. QED BY <2>2, <2>3
<1>5. CASE ~ (t < d)
  <2>1. new = cells BY <1>5
  <2>2. QED BY <1>2, <1>3, <1>5, <2>1
<1>6. CASE t < d
  <2>1. /\ ai \in CellIndex /\ bi \in CellIndex /\ ai = bi - o
        /\ (ai - 1) \div 2 ^ e = t /\ (bi - 1) \div 2 ^ e = t
        /\ Rank(ai) = e - 1 /\ Rank(bi) >= e
    BY <1>0, <1>6, CellsOfThread DEF CellIndex
  <2>2. e \in Nat /\ e - 1 \in Nat /\ e \in 0 .. Levels /\ e - 1 \in 0 .. Levels BY <1>0
  <2>3. Rank(bi) \in 0 .. Levels /\ Rank(ai) \in 0 .. Levels BY <1>4, <2>1
  <2>4. cells[ai - 1] = g[ai] - g[ai - o]
    <3>1. e - 1 <= Rank(ai) BY <2>1, <2>2
    <3>2. cells[ai - 1] = UpSum(g, e - 1, ai) BY <2>1
    <3>3. QED BY <3>1, <3>2 DEF UpSum
  <2>5. cells[bi - 1] = g[bi] - g[bi - o]
    <3>1. e - 1 <= Rank(bi) BY <2>1, <2>2, <2>3
    <3>2. cells[bi - 1] = UpSum(g, e - 1, bi) BY <2>1
    <3>3. QED BY <3>1, <3>2 DEF UpSum
  <2>6. UpSum(g, e, bi) = g[bi] - g[bi - 2 * o]
    <3>1. e <= Rank(bi) BY <2>1, <2>2, <2>3
    <3>2. QED BY <1>1, <3>1 DEF UpSum
  <2>7. bi - 2 * o \in 0 .. N
    <3>1. e <= Rank(bi) BY <2>1, <2>2, <2>3
    <3>2. QED BY <1>1, <2>1, <2>2, <3>1, SubtreeFits
  <2> HIDE DEF o, d, ai, bi
  <2>8. ai \in 0 .. N /\ bi \in 0 .. N /\ ai - 1 \in 0 .. N - 1 /\ bi - 1 \in 0 .. N - 1
    BY <2>1, IndexRange
  <2>9. ai - o = bi - 2 * o /\ bi - o = ai BY <1>0, <1>1, <2>1, <2>8
  <2>10. cells[bi - 1] + cells[ai - 1] = UpSum(g, e, bi)
    <3>1. g[ai] \in Int /\ g[bi] \in Int /\ g[bi - 2 * o] \in Int BY <2>7, <2>8
    <3>2. QED BY <2>4, <2>5, <2>6, <2>9, <3>1
  <2>11. new = [cells EXCEPT ![bi - 1] = cells[bi - 1] + cells[ai - 1]] BY <1>6
  <2>12. new \in [0 .. N - 1 -> Int] BY <2>8, <2>11
  <2>13. ASSUME NEW x \in CellIndex
         PROVE  new[x - 1] = IF (x - 1) \div 2 ^ e = t THEN UpSum(g, e, x) ELSE cells[x - 1]
    <3>1. x - 1 \in 0 .. N - 1 /\ x \in Nat BY <1>0 DEF CellIndex
    <3>2. CASE x = bi
      <4>1. new[bi - 1] = cells[bi - 1] + cells[ai - 1] BY <2>8, <2>11
      <4>2. QED BY <2>1, <2>10, <3>2, <4>1
    <3>3. CASE x # bi
      <4>1. new[x - 1] = cells[x - 1] BY <2>8, <2>11, <3>1, <3>3
      <4>2. ASSUME (x - 1) \div 2 ^ e = t PROVE cells[x - 1] = UpSum(g, e, x)
        <5>1. ~ (Rank(x) >= e) BY <1>3, <3>3, <4>2
        <5>2. Rank(x) < e BY <1>0, <1>4, <5>1
        <5>3. QED BY <1>4, <4>2, <5>2
      <4>3. QED BY <4>1, <4>2
    <3>4. QED BY <3>2, <3>3
  <2> HIDE DEF new
  <2>14. QED BY <1>2, <2>12, <2>13
<1>7. QED BY <1>5, <1>6

\* A thread that swaps and adds at a level of the down-sweep does, too.
LEMMA DownStep ==
  ASSUME blockLog \in Nat, NEW e \in 1 .. Levels, NEW t \in BlockThreads,
         NEW g \in [0 .. 2 * BLOCK_SIZE -> Int],
         NEW cells \in [0 .. 2 * BLOCK_SIZE - 1 -> Int],
         \A x \in CellIndex : (x - 1) \div 2 ^ e = t => cells[x - 1] = DownSum(g, e, x)
  PROVE  /\ SweptDown(cells, t, Levels + 1 - e) \in [0 .. 2 * BLOCK_SIZE - 1 -> Int]
         /\ \A x \in CellIndex :
              SweptDown(cells, t, Levels + 1 - e)[x - 1] =
                IF (x - 1) \div 2 ^ e = t THEN DownSum(g, e - 1, x) ELSE cells[x - 1]
<1> DEFINE o == 2 ^ (e - 1)
           d == 2 ^ (Levels - e)
           ai == o * (2 * t + 1)
           bi == o * (2 * t + 2)
           N == 2 * BLOCK_SIZE
           new == IF t < d THEN [cells EXCEPT ![ai - 1] = cells[bi - 1],
                                              ![bi - 1] = @ + cells[ai - 1]] ELSE cells
<1>0. Levels \in Nat \ {0} /\ BLOCK_SIZE \in Nat \ {0} /\ t \in Nat
  BY BlockSize DEF BlockThreads
<1>1. o \in Nat \ {0} /\ d \in Nat \ {0} /\ 2 ^ e = 2 * o /\ BLOCK_SIZE \div d = o
  BY LevelSizes
<1>2. SweptDown(cells, t, Levels + 1 - e) = new
  <2>1. (Levels + 1 - e) - 1 = Levels - e BY <1>0
  <2>2. QED BY <1>1, <2>1 DEF SweptDown
<1>3. ASSUME NEW x \in CellIndex, (x - 1) \div 2 ^ e = t
      PROVE  t < d /\ (Rank(x) >= e => x = bi) /\ (Rank(x) = e - 1 => x = ai)
  BY <1>3, ThreadOfCell DEF CellIndex
<1>4. ASSUME NEW x \in CellIndex PROVE Rank(x) \in 0 .. Levels
  <2>1. x \in Nat BY <1>0 DEF CellIndex
  <2>2. QED BY <2>1, RankHas
<1>5. CASE ~ (t < d)
  <2>1. new = cells BY <1>5
  <2>2. QED BY <1>2, <1>3, <1>5, <2>1
<1>6. CASE t < d
  <2>1. /\ ai \in CellIndex /\ bi \in CellIndex /\ ai = bi - o
        /\ (ai - 1) \div 2 ^ e = t /\ (bi - 1) \div 2 ^ e = t
        /\ Rank(ai) = e - 1 /\ Rank(bi) >= e
    BY <1>0, <1>6, CellsOfThread DEF CellIndex
  <2>2. e \in Nat /\ e - 1 \in Nat /\ e \in 0 .. Levels /\ e - 1 \in 0 .. Levels BY <1>0
  <2>3. Rank(bi) \in 0 .. Levels /\ Rank(ai) \in 0 .. Levels BY <1>4, <2>1
  <2>4. cells[ai - 1] = g[ai] - g[ai - o]
    <3>1. ~ (Rank(ai) >= e) BY <2>1, <2>2
    <3>2. cells[ai - 1] = DownSum(g, e, ai) BY <2>1
    <3>3. QED BY <2>1, <3>1, <3>2 DEF DownSum
  <2>5. cells[bi - 1] = g[bi - 2 * o] - g[0]
    <3>1. cells[bi - 1] = DownSum(g, e, bi) BY <2>1
    <3>2. QED BY <1>1, <2>1, <3>1 DEF DownSum
  <2>6. DownSum(g, e - 1, ai) = g[ai - o] - g[0]
    <3>1. Rank(ai) >= e - 1 BY <2>1, <2>2
    <3>2. QED BY <3>1 DEF DownSum
  <2>7. DownSum(g, e - 1, bi) = g[bi - o] - g[0]
    <3>1. Rank(bi) >= e - 1 BY <2>1, <2>2, <2>3
    <3>2. QED BY <3>1 DEF DownSum
  <2>8. bi - 2 * o \in 0 .. N
    <3>1. e <= Rank(bi) BY <2>1, <2>2, <2>3
    <3>2. QED BY <1>1, <2>1, <2>2, <3>1, SubtreeFits
  <2> HIDE DEF o, d, ai, bi
  <2>9. ai \in 0 .. N /\ bi \in 0 .. N /\ ai - 1 \in 0 .. N - 1 /\ bi - 1 \in 0 .. N - 1
        /\ 0 \in 0 .. N
    BY <2>1, IndexRange
  <2>10. ai - o = bi - 2 * o /\ bi - o = ai /\ ai # bi /\ ai - 1 # bi - 1
    BY <1>0, <1>1, <2>1, <2>9
  <2>11. cells[bi - 1] = DownSum(g, e - 1, ai) BY <2>5, <2>6, <2>10
  <2>12. cells[bi - 1] + cells[ai - 1] = DownSum(g, e - 1, bi)
    <3>1. g[ai] \in Int /\ g[0] \in Int /\ g[bi - 2 * o] \in Int BY <2>8, <2>9
    <3>2. QED BY <2>4, <2>5, <2>7, <2>10, <3>1
  <2>13. new = [cells EXCEPT ![ai - 1] = cells[bi - 1],
                             ![bi - 1] = cells[bi - 1] + cells[ai - 1]]
    BY <1>6, <2>9, <2>10
  <2>14. new \in [0 .. N - 1 -> Int]
    <3>1. PICK a \in Int, c \in Int : a = cells[bi - 1] /\ c = cells[bi - 1] + cells[ai - 1]
      BY <2>9
    <3>2. new = [cells EXCEPT ![ai - 1] = a, ![bi - 1] = c] BY <2>13, <3>1
    <3> HIDE DEF new
    <3>3. QED BY <2>9, <3>1, <3>2
  <2>15. ASSUME NEW x \in CellIndex
         PROVE  new[x - 1] =
                  IF (x - 1) \div 2 ^ e = t THEN DownSum(g, e - 1, x) ELSE cells[x - 1]
    <3>1. x - 1 \in 0 .. N - 1 /\ x \in Nat BY <1>0 DEF CellIndex
    <3>2. CASE x = bi
      <4>1. new[bi - 1] = cells[bi - 1] + cells[ai - 1] BY <2>9, <2>13
      <4>2. QED BY <2>1, <2>12, <3>2, <4>1
    <3>3. CASE x = ai
      <4>1. new[ai - 1] = cells[bi - 1] BY <2>9, <2>10, <2>13
      <4>2. QED BY <2>1, <2>11, <3>3, <4>1
    <3>4. CASE x # bi /\ x # ai
      <4>1. new[x - 1] = cells[x - 1] BY <2>9, <2>13, <3>1, <3>4
      <4>2. ASSUME (x - 1) \div 2 ^ e = t PROVE cells[x - 1] = DownSum(g, e - 1, x)
        <5>1. ~ (Rank(x) >= e) /\ Rank(x) # e - 1 BY <1>3, <3>4, <4>2
        <5>1a. PICK r \in Int : r = Rank(x) BY <1>4
        <5>1b. ~ (r >= e) /\ r # e - 1 BY <5>1, <5>1a
        <5>1c. ~ (r >= e - 1) BY <1>0, <5>1b
        <5>2. ~ (Rank(x) >= e - 1) BY <5>1a, <5>1c
        <5>3. cells[x - 1] = DownSum(g, e, x) BY <4>2
        <5>4. QED BY <5>1, <5>2, <5>3 DEF DownSum
      <4>3. QED BY <4>1, <4>2
    <3>5. QED BY <3>2, <3>3, <3>4
  <2> HIDE DEF new
  <2>16. QED BY <1>2, <2>14, <2>15
<1>7. QED BY <1>5, <1>6

\* The thread that clears the last cell has the sum of the whole block in it before.
LEMMA ClearStep ==
  ASSUME blockLog \in Nat, NEW t \in BlockThreads,
         NEW g \in [0 .. 2 * BLOCK_SIZE -> Int],
         NEW cells \in [0 .. 2 * BLOCK_SIZE - 1 -> Int],
         \A x \in CellIndex :
           (x - 1) \div 2 ^ Levels = t => cells[x - 1] = UpSum(g, Levels - 1, x)
  PROVE  /\ Cleared(SweptUp(cells, t, Levels), t) \in [0 .. 2 * BLOCK_SIZE - 1 -> Int]
         /\ \A x \in CellIndex :
              Cleared(SweptUp(cells, t, Levels), t)[x - 1] =
                IF (x - 1) \div 2 ^ Levels = t THEN DownSum(g, Levels, x) ELSE cells[x - 1]
         /\ t = 0 => SweptUp(cells, t, Levels)[2 * BLOCK_SIZE - 1] = g[2 * BLOCK_SIZE] - g[0]
<1> DEFINE N == 2 * BLOCK_SIZE
           up == SweptUp(cells, t, Levels)
<1>0. /\ Levels \in Nat \ {0} /\ BLOCK_SIZE \in Nat \ {0} /\ t \in Nat
      /\ 2 ^ Levels = N /\ Levels \in 1 .. Levels
  BY BlockSize DEF BlockThreads
<1>1. /\ up \in [0 .. N - 1 -> Int]
      /\ \A x \in CellIndex :
           up[x - 1] = IF (x - 1) \div 2 ^ Levels = t THEN UpSum(g, Levels, x) ELSE cells[x - 1]
  <2>1. PICK e \in 1 .. Levels : e = Levels BY <1>0
  <2>2. \A x \in CellIndex : (x - 1) \div 2 ^ e = t => cells[x - 1] = UpSum(g, e - 1, x)
    BY <2>1
  <2>3. /\ SweptUp(cells, t, e) \in [0 .. N - 1 -> Int]
        /\ \A x \in CellIndex :
             SweptUp(cells, t, e)[x - 1] =
               IF (x - 1) \div 2 ^ e = t THEN UpSum(g, e, x) ELSE cells[x - 1]
    BY <2>2, UpStep
  <2>4. QED BY <2>1, <2>3
<1> HIDE DEF up
<1>2. ASSUME NEW x \in CellIndex PROVE (x - 1) \div 2 ^ Levels = 0
  <2>1. PICK w \in Nat \ {0}, y \in Nat : w = N /\ y = x - 1 /\ y \in 0 .. w - 1
    BY <1>0 DEF CellIndex
  <2>2. y = w * 0 + y BY <2>1
  <2>3. y \div w = 0 BY <2>1, <2>2, DivModOf
  <2>4. QED BY <1>0, <2>1, <2>3
<1>3. ASSUME NEW x \in CellIndex PROVE Rank(x) \in 0 .. Levels
  <2>1. x \in Nat BY <1>0 DEF CellIndex
  <2>2. QED BY <2>1, RankHas
<1>4. ASSUME NEW x \in CellIndex, x # N PROVE UpSum(g, Levels, x) = DownSum(g, Levels, x)
  <2>1. ~ (Rank(x) >= Levels) BY <1>4, TopCell
  <2>2. ~ (Levels <= Rank(x)) BY <1>0, <1>3, <2>1
  <2>3. QED BY <2>1, <2>2 DEF UpSum, DownSum
<1>5. N \in CellIndex /\ Rank(N) >= Levels /\ Levels <= Rank(N)
  <2>1. N \in CellIndex BY <1>0 DEF CellIndex
  <2>2. QED BY <1>0, <1>3, <2>1, TopCell
<1>6. N - 2 ^ Levels = 0 /\ 0 \in 0 .. N /\ N \in 0 .. N BY <1>0
<1>7. UpSum(g, Levels, N) = g[N] - g[0] BY <1>5, <1>6 DEF UpSum
<1>8. DownSum(g, Levels, N) = 0
  <2>1. g[0] - g[0] = 0 BY <1>6
  <2>2. QED BY <1>5, <1>6, <2>1 DEF DownSum
<1>9. CASE t = 0
  <2>1. Cleared(up, t) = [up EXCEPT ![N - 1] = 0] BY <1>9 DEF Cleared
  <2>2. ASSUME NEW x \in CellIndex PROVE Cleared(up, t)[x - 1] = DownSum(g, Levels, x)
    <3>1. x - 1 \in 0 .. N - 1 /\ x \in Nat /\ N - 1 \in 0 .. N - 1 BY <1>0 DEF CellIndex
    <3>2. CASE x = N BY <1>1, <1>8, <2>1, <3>1, <3>2
    <3>3. CASE x # N
      <4>1. Cleared(up, t)[x - 1] = up[x - 1] BY <1>0, <1>1, <2>1, <3>1, <3>3
      <4>2. up[x - 1] = UpSum(g, Levels, x) BY <1>1, <1>2, <1>9
      <4>3. QED BY <1>4, <3>3, <4>1, <4>2
    <3>4. QED BY <3>2, <3>3
  <2>3. up[N - 1] = g[N] - g[0] BY <1>1, <1>2, <1>5, <1>7, <1>9
  <2>4. Cleared(up, t) \in [0 .. N - 1 -> Int] BY <1>0, <1>1, <2>1
  <2>5. QED BY <1>2, <1>9, <2>2, <2>3, <2>4 DEF up
<1>10. CASE t # 0
  <2>1. Cleared(up, t) = up BY <1>10 DEF Cleared
  <2>2. ASSUME NEW x \in CellIndex PROVE up[x - 1] = cells[x - 1]
    BY <1>1, <1>2, <1>10
  <2>3. QED BY <1>1, <1>2, <1>10, <2>1, <2>2 DEF up
<1>11. QED BY <1>9, <1>10 DEF up

-----------------------------------------------------------------------------
(***************************************************************************)
(* The baseline: the rays that are to go on, counted                       *)
(***************************************************************************)
\* Those before i, of the n rays of the pass.
Flagged(n, i) == {j \in 0 .. n - 1 : j < i /\ flags[j] = 1}
Before(n, i) == Cardinality(Flagged(n, i))

FlagsType == flags \in [Pixels -> {0, 1}]

LEMMA FlaggedFinite ==
  ASSUME NEW n \in Nat, NEW i
  PROVE  IsFiniteSet(Flagged(n, i)) /\ Before(n, i) \in Nat
<1>1. IsFiniteSet(0 .. n - 1) BY FS_Interval
<1>2. Flagged(n, i) \in SUBSET (0 .. n - 1) BY DEF Flagged
<1>3. IsFiniteSet(Flagged(n, i)) BY <1>1, <1>2, FS_Subset
<1>4. QED BY <1>3, FS_CardinalityType DEF Before

LEMMA BeforeNone ==
  ASSUME NEW n \in Nat
  PROVE  Before(n, 0) = 0
<1>1. Flagged(n, 0) = {} BY DEF Flagged
<1>2. QED BY <1>1, FS_EmptySet DEF Before

LEMMA BeforeNext ==
  ASSUME FlagsType, NEW n \in Nat, n <= TOTAL_PIXELS, NEW i \in Nat
  PROVE  Before(n, i + 1) = Before(n, i) + IF i < n THEN flags[i] ELSE 0
<1>0. IsFiniteSet(Flagged(n, i)) /\ Before(n, i) \in Nat BY FlaggedFinite
<1>1. CASE i < n /\ flags[i] = 1
  <2>1. Flagged(n, i + 1) = Flagged(n, i) \cup {i} BY <1>1 DEF Flagged
  <2>2. i \notin Flagged(n, i) BY DEF Flagged
  <2>3. Cardinality(Flagged(n, i) \cup {i}) = Cardinality(Flagged(n, i)) + 1
    BY <1>0, <2>2, FS_AddElement
  <2>4. QED BY <1>1, <2>1, <2>3 DEF Before
<1>2. CASE i < n /\ flags[i] # 1
  <2>1. i \in Pixels BY <1>2, PassesAssumption DEF Pixels
  <2>2. flags[i] = 0 BY <1>2, <2>1 DEF FlagsType
  <2>3. Flagged(n, i + 1) = Flagged(n, i) BY <1>2 DEF Flagged
  <2>4. QED BY <1>0, <1>2, <2>2, <2>3 DEF Before
<1>3. CASE ~ (i < n)
  <2>1. Flagged(n, i + 1) = Flagged(n, i) BY <1>3 DEF Flagged
  <2>2. QED BY <1>0, <1>3, <2>1 DEF Before
<1>4. QED BY <1>1, <1>2, <1>3

LEMMA BeforeMonotone ==
  ASSUME NEW n \in Nat, NEW i \in Nat, NEW k \in Nat, i <= k
  PROVE  /\ Before(n, i) <= Before(n, k)
         /\ i < n /\ i < k /\ flags[i] = 1 => Before(n, i) < Before(n, k)
<1>1. Flagged(n, i) \in SUBSET Flagged(n, k) BY DEF Flagged
<1>2. /\ IsFiniteSet(Flagged(n, k)) /\ Before(n, k) \in Nat
      /\ IsFiniteSet(Flagged(n, i)) /\ Before(n, i) \in Nat
  BY FlaggedFinite
<1>3. Before(n, i) <= Before(n, k) BY <1>1, <1>2, FS_Subset DEF Before
<1>4. ASSUME i < n, i < k, flags[i] = 1 PROVE Before(n, i) # Before(n, k)
  <2>1. i \in Flagged(n, k) \ Flagged(n, i) BY <1>4 DEF Flagged
  <2>2. Flagged(n, i) # Flagged(n, k) BY <2>1
  <2>3. QED BY <1>1, <1>2, <2>2, FS_Subset DEF Before
<1>5. QED BY <1>2, <1>3, <1>4

LEMMA BeforeAll ==
  ASSUME NEW n \in Nat, NEW i \in Nat, i >= n
  PROVE  Before(n, i) = Before(n, n)
<1>1. Flagged(n, i) = Flagged(n, n) BY DEF Flagged
<1>2. QED BY <1>1 DEF Before

\* Every place below the number of the rays that go on is the place of one of them.
LEMMA BeforeOnto ==
  ASSUME FlagsType, NEW n \in Nat, n <= TOTAL_PIXELS, NEW v \in Nat, v < Before(n, n)
  PROVE  \E i \in 0 .. n - 1 : flags[i] = 1 /\ Before(n, i) = v
<1> DEFINE S == {i \in Nat : Before(n, i) > v}
<1>1. PICK m \in S : \A i \in S : m <= i
  <2>1. S \in SUBSET Nat OBVIOUS
  <2>2. Before(n, n) > v BY FlaggedFinite
  <2>3. n \in S BY <2>2
  <2>4. S # {} BY <2>3
  <2> HIDE DEF S
  <2>5. QED BY <2>1, <2>4, Smallest
<1>2. m \in Nat /\ Before(n, m) > v BY <1>1
<1>3. m # 0 BY <1>2, BeforeNone
<1>4. PICK i \in Nat : i = m - 1 BY <1>2, <1>3
<1>5. i + 1 = m /\ ~ (m <= i) BY <1>2, <1>4
<1>6. i \notin S BY <1>1, <1>5
<1>7. Before(n, i) \in Nat /\ ~ (Before(n, i) > v) BY <1>6, FlaggedFinite
<1>8. Before(n, i + 1) = Before(n, i) + IF i < n THEN flags[i] ELSE 0 BY BeforeNext
<1>9. i < n BY <1>2, <1>5, <1>7, <1>8
<1>10. i \in Pixels BY <1>9, PassesAssumption DEF Pixels
<1>11. flags[i] \in {0, 1} BY <1>10 DEF FlagsType
<1>12. flags[i] = 1 /\ Before(n, i) = v BY <1>2, <1>5, <1>7, <1>8, <1>9, <1>11
<1>13. QED BY <1>9, <1>12

-----------------------------------------------------------------------------
(***************************************************************************)
(* The baseline: blocks                                                    *)
(***************************************************************************)
BlockStart(b) == b * (2 * BLOCK_SIZE)

\* The blocks cover the items, none of them in vain.
LEMMA BlocksCover ==
  ASSUME blockLog \in Nat, NEW n \in Nat \ {0}
  PROVE  /\ NumBlocks(n) \in 1 .. n
         /\ n <= BlockStart(NumBlocks(n))
         /\ \A b \in 0 .. NumBlocks(n) - 1 : BlockStart(b) < n
         /\ NumBlocks(n) = 1 <=> n <= 2 * BLOCK_SIZE
<1>0. PICK w \in Nat \ {0} : w = 2 * BLOCK_SIZE /\ w = BLOCK_SIZE * 2 BY BlockSize
<1> DEFINE y == n + w - 1
<1>1. PICK k \in Int : k = y \div w /\ k = NumBlocks(n) BY <1>0 DEF NumBlocks
<1>2. y \in Nat OBVIOUS
<1>3. y = w * k + (y % w) /\ k \in Nat /\ y % w \in 0 .. w - 1 BY <1>1, <1>2, DivMod
<1>4. w * k \in Nat /\ w * k <= n + w - 1 /\ n <= w * k
  <2>1. PICK r \in 0 .. w - 1 : r = y % w BY <1>3
  <2>2. w * k \in Nat BY <1>3
  <2>3. QED BY <1>3, <2>1, <2>2
<1>5. k >= 1 BY <1>3, <1>4
<1>6. ASSUME NEW b \in 0 .. k - 1 PROVE b * w < n
  <2>1. w * b + w <= w * k BY <1>3, <1>6, MultiplesApart
  <2>2. w * b \in Nat /\ b * w = w * b BY <1>3
  <2>3. QED BY <1>4, <2>1, <2>2
<1>7. k <= n
  <2>1. k - 1 \in 0 .. k - 1 BY <1>5
  <2>2. (k - 1) * w < n BY <1>6, <2>1
  <2>3. k - 1 <= (k - 1) * w BY <1>5
  <2>4. QED BY <2>2, <2>3
<1>8. k = 1 <=> n <= w
  <2>1. ASSUME k = 1 PROVE n <= w BY <1>4, <2>1
  <2>2. ASSUME k # 1 PROVE w < n
    <3>1. 1 \in 0 .. k - 1 BY <1>5, <2>2
    <3>2. 1 * w < n BY <1>6, <3>1
    <3>3. QED BY <3>2
  <2>3. QED BY <2>1, <2>2
<1>9. n <= k * w
  <2>1. k * w = w * k BY <1>3
  <2>2. QED BY <1>4, <2>1
<1>10. k \in 1 .. n BY <1>3, <1>5, <1>7
<1> HIDE DEF y
<1>11. NumBlocks(n) \in 1 .. n /\ n <= BlockStart(NumBlocks(n))
  BY <1>0, <1>1, <1>9, <1>10 DEF BlockStart
<1>12. \A b \in 0 .. NumBlocks(n) - 1 : BlockStart(b) < n
  BY <1>0, <1>1, <1>6 DEF BlockStart
<1>13. NumBlocks(n) = 1 <=> n <= 2 * BLOCK_SIZE
  <2>1. NumBlocks(n) = k /\ 2 * BLOCK_SIZE = w BY <1>0, <1>1
  <2>2. QED BY <1>8, <2>1
<1>14. QED BY <1>11, <1>12, <1>13

\* The start of a block, as the code has it, and of the next.
LEMMA BlockStarts ==
  ASSUME blockLog \in Nat, NEW b \in Nat
  PROVE  /\ BlockStart(b) \in Nat
         /\ BlockStart(b) = b * BLOCK_SIZE * 2
         /\ BlockStart(b + 1) = BlockStart(b) + 2 * BLOCK_SIZE
         /\ BlockStart(0) = 0
         /\ b <= BlockStart(b)
<1>1. PICK w \in Nat \ {0} : w = BLOCK_SIZE BY BlockSize
<1>2. /\ b * (2 * w) \in Nat /\ b * (2 * w) = b * w * 2
      /\ (b + 1) * (2 * w) = b * (2 * w) + 2 * w /\ 0 * (2 * w) = 0
  OBVIOUS
<1>3. b <= b * (2 * w)
  <2>1. b * w \in Nat /\ b * (2 * w) = b * w + b * w OBVIOUS
  <2>2. b <= b * w
    <3>1. CASE b = 0 BY <3>1, <2>1
    <3>2. CASE b # 0 BY <3>2
    <3>3. QED BY <3>1, <3>2
  <2>3. QED BY <2>1, <2>2
<1>4. QED BY <1>1, <1>2, <1>3 DEF BlockStart

\* An item is in one block, at one place of it.
LEMMA OneBlock ==
  ASSUME blockLog \in Nat, NEW a \in Nat, NEW b \in Nat,
         NEW c \in 0 .. 2 * BLOCK_SIZE - 1, NEW e \in 0 .. 2 * BLOCK_SIZE - 1,
         BlockStart(a) + c = BlockStart(b) + e
  PROVE  a = b /\ c = e
<1>1. PICK w \in Nat \ {0} : w = 2 * BLOCK_SIZE BY BlockSize
<1>2. a * w = w * a /\ b * w = w * b OBVIOUS
<1>3. w * a + c = w * b + e BY <1>1, <1>2 DEF BlockStart
<1>4. a \in Int /\ b \in Int /\ c \in 0 .. w - 1 /\ e \in 0 .. w - 1 BY <1>1
<1>5. QED BY <1>3, <1>4, DivModUnique

LEMMA ItemsBlock ==
  ASSUME blockLog \in Nat, NEW i \in Nat
  PROVE  \E b \in Nat : \E c \in 0 .. 2 * BLOCK_SIZE - 1 : i = BlockStart(b) + c
<1>1. PICK w \in Nat \ {0} : w = 2 * BLOCK_SIZE BY BlockSize
<1>2. i = w * (i \div w) + (i % w) /\ i \div w \in Nat /\ i % w \in 0 .. w - 1 BY DivMod
<1>3. PICK b \in Nat, c \in 0 .. w - 1 : b = i \div w /\ c = i % w BY <1>2
<1>4. i = b * w + c
  <2>1. b * w = w * b OBVIOUS
  <2>2. QED BY <1>2, <1>3, <2>1
<1>5. QED BY <1>1, <1>3, <1>4 DEF BlockStart

-----------------------------------------------------------------------------
(***************************************************************************)
(* The baseline: the scan of a block, phase by phase                       *)
(***************************************************************************)
\* The sum of the items before i, of the scan that runs.
ScanOf(i) == Before(numActive, IF stage = "scan" THEN i ELSE BlockStart(i))
SumOf(b) == [c \in 0 .. 2 * BLOCK_SIZE |-> ScanOf(BlockStart(b) + c)]

SumRight(b) ==
  blockSums[b] = Before(numActive, BlockStart(b + 1)) - Before(numActive, BlockStart(b))

ScanReady ==
  /\ blockLog \in Nat /\ FlagsType /\ numActive \in 1 .. TOTAL_PIXELS
  /\ \/ stage = "scan"
     \/ stage = "scan_sums" /\ \A b \in 0 .. NumBlocks(numActive) - 1 : SumRight(b)

LEMMA ScanInput ==
  ASSUME ScanReady, NEW i \in Nat
  PROVE  /\ ScanOf(i) \in Nat /\ ScanOf(0) = 0
         /\ ScanOf(i + 1) = ScanOf(i) + Input(i)
<1> DEFINE n == numActive
<1>0. n \in Nat \ {0} /\ n <= TOTAL_PIXELS /\ blockLog \in Nat /\ FlagsType
  BY PassesAssumption DEF ScanReady
<1>1. CASE stage = "scan"
  <2>1. Before(n, i) \in Nat /\ Before(n, 0) = 0 BY <1>0, FlaggedFinite, BeforeNone
  <2>2. Before(n, i + 1) = Before(n, i) + IF i < n THEN flags[i] ELSE 0
    BY <1>0, BeforeNext
  <2>3. Input(i) = IF i < n THEN flags[i] ELSE 0 BY <1>0, <1>1 DEF Input, Count
  <2>4. QED BY <1>1, <2>1, <2>2, <2>3 DEF ScanOf
<1>2. CASE stage # "scan"
  <2>1. \A b \in 0 .. NumBlocks(n) - 1 : SumRight(b) BY <1>2 DEF ScanReady
  <2>2. BlockStart(i) \in Nat /\ BlockStart(i + 1) \in Nat /\ BlockStart(0) = 0
    BY <1>0, BlockStarts
  <2>3. /\ Before(n, BlockStart(i)) \in Nat /\ Before(n, BlockStart(i + 1)) \in Nat
        /\ Before(n, 0) = 0
    BY <1>0, <2>2, FlaggedFinite, BeforeNone
  <2>4. NumBlocks(n) \in 1 .. n /\ n <= BlockStart(NumBlocks(n)) BY <1>0, BlocksCover
  <2>5. Count = NumBlocks(n) BY <1>2 DEF Count
  <2>6. Before(n, BlockStart(i + 1)) = Before(n, BlockStart(i)) + Input(i)
    <3>1. CASE i < NumBlocks(n)
      <4>1. i \in 0 .. NumBlocks(n) - 1 BY <2>4, <3>1
      <4>2. blockSums[i] = Before(n, BlockStart(i + 1)) - Before(n, BlockStart(i))
        BY <2>1, <4>1 DEF SumRight
      <4>3. Input(i) = blockSums[i] BY <1>2, <2>4, <2>5, <3>1 DEF Input
      <4>4. QED BY <2>3, <4>2, <4>3
    <3>2. CASE ~ (i < NumBlocks(n))
      <4>1. BlockStart(NumBlocks(n)) <= BlockStart(i)
        <5>1. PICK k \in Nat, w \in Nat : k = NumBlocks(n) /\ w = 2 * BLOCK_SIZE
          BY <1>0, <2>4, BlockSize
        <5>2. k <= i BY <2>4, <3>2, <5>1
        <5>3. k * w <= i * w
          <6>1. PICK m \in Nat : i = k + m
            <7>1. i - k \in Nat /\ i = k + (i - k) BY <5>2
            <7>2. QED BY <7>1
          <6>2. i * w = k * w + m * w /\ m * w \in Nat /\ k * w \in Nat BY <6>1
          <6>3. QED BY <6>2
        <5>4. QED BY <5>1, <5>3 DEF BlockStart
      <4>2. BlockStart(i) >= n
        <5>1. NumBlocks(n) \in Nat BY <1>0, <2>4
        <5>2. BlockStart(NumBlocks(n)) \in Nat BY <1>0, <5>1, BlockStarts
        <5>3. QED BY <1>0, <2>2, <2>4, <4>1, <5>2
      <4>3. BlockStart(i + 1) >= n
        <5>1. BlockStart(i + 1) = BlockStart(i) + 2 * BLOCK_SIZE BY <1>0, BlockStarts
        <5>2. BLOCK_SIZE \in Nat BY <1>0, BlockSize
        <5>3. QED BY <1>0, <2>2, <4>2, <5>1, <5>2
      <4>4. Before(n, BlockStart(i)) = Before(n, n) /\ Before(n, BlockStart(i + 1)) = Before(n, n)
        BY <1>0, <2>2, <4>2, <4>3, BeforeAll
      <4>5. Input(i) = 0
        <5>1. i >= NumBlocks(n) BY <2>4, <3>2
        <5>2. QED BY <2>5, <5>1 DEF Input
      <4>6. QED BY <2>3, <4>4, <4>5
    <3>3. QED BY <3>1, <3>2
  <2>7. QED BY <1>2, <2>2, <2>3, <2>6 DEF ScanOf
<1>3. QED BY <1>1, <1>2

LEMMA SumOfType ==
  ASSUME ScanReady, NEW b \in Nat
  PROVE  SumOf(b) \in [0 .. 2 * BLOCK_SIZE -> Int]
<1>1. ASSUME NEW c \in 0 .. 2 * BLOCK_SIZE PROVE ScanOf(BlockStart(b) + c) \in Int
  <2>1. blockLog \in Nat BY DEF ScanReady
  <2>2. BlockStart(b) \in Nat /\ BLOCK_SIZE \in Nat BY <2>1, BlockStarts, BlockSize
  <2>3. BlockStart(b) + c \in Nat BY <2>2
  <2>4. QED BY <2>3, ScanInput
<1>2. QED BY <1>1 DEF SumOf

\* What a cell of the block holds when q phases are over, and who sees to that in the
\* next one.
Val(g, q, x) ==
  IF q = 0 THEN 0
  ELSE IF q <= Levels THEN UpSum(g, q - 1, x)
  ELSE DownSum(g, IF q > 2 * Levels THEN 0 ELSE 2 * Levels + 1 - q, x)

Own(q, x) ==
  IF q = 0 THEN IF x <= BLOCK_SIZE THEN x - 1 ELSE x - 1 - BLOCK_SIZE
  ELSE IF q <= Levels THEN (x - 1) \div 2 ^ q
  ELSE IF q <= 2 * Levels THEN (x - 1) \div 2 ^ (2 * Levels + 1 - q)
  ELSE 0

LEMMA OwnType ==
  ASSUME blockLog \in Nat, NEW q \in 0 .. LastPhase, NEW x \in CellIndex
  PROVE  Own(q, x) \in BlockThreads
<1>0. Levels \in Nat \ {0} /\ BLOCK_SIZE \in Nat \ {0} BY BlockSize
<1>1. ASSUME NEW e \in 1 .. Levels PROVE (x - 1) \div 2 ^ e \in BlockThreads
  <2> DEFINE d == 2 ^ (Levels - e)
             o == 2 ^ (e - 1)
             t == (x - 1) \div 2 ^ e
  <2>1. t \in Nat /\ t < d BY ThreadOfCell DEF CellIndex
  <2>2. d \in Nat /\ d <= BLOCK_SIZE BY LevelSizes
  <2>3. QED BY <1>0, <2>1, <2>2 DEF BlockThreads
<1>2. CASE q = 0
  <2>1. Own(q, x) = IF x <= BLOCK_SIZE THEN x - 1 ELSE x - 1 - BLOCK_SIZE BY <1>2 DEF Own
  <2>2. QED BY <1>0, <2>1 DEF CellIndex, BlockThreads
<1>3. CASE q # 0 /\ q <= Levels
  <2>1. q \in 1 .. Levels BY <1>0, <1>3 DEF LastPhase
  <2>2. QED BY <1>1, <1>3, <2>1 DEF Own
<1>4. CASE q # 0 /\ ~ (q <= Levels) /\ q <= 2 * Levels
  <2>1. 2 * Levels + 1 - q \in 1 .. Levels BY <1>0, <1>4 DEF LastPhase
  <2>2. QED BY <1>1, <1>4, <2>1 DEF Own
<1>5. CASE q # 0 /\ ~ (q <= Levels) /\ ~ (q <= 2 * Levels)
  <2>1. Own(q, x) = 0 BY <1>5 DEF Own
  <2>2. QED BY <1>0, <2>1 DEF BlockThreads
<1>6. QED BY <1>2, <1>3, <1>4, <1>5

\* The cells of a block when all of its threads are in phase q or just beyond it.
CellsIn(cells, ph, b, q) ==
  \A x \in CellIndex :
    cells[x - 1] = Val(SumOf(b), IF ph[Own(q, x)] = q + 1 THEN q + 1 ELSE q, x)

PhaseInv(b) ==
  /\ phase[b] \in [BlockThreads -> 0 .. LastPhase + 1]
  /\ \A t, u \in BlockThreads : phase[b][t] <= phase[b][u] + 1

CellsInv(b) ==
  /\ temp[b] \in [0 .. 2 * BLOCK_SIZE - 1 -> Int]
  /\ \A q \in 0 .. LastPhase :
       (\A u \in BlockThreads : phase[b][u] \in {q, q + 1}) => CellsIn(temp[b], phase[b], b, q)

\* A thread between two barriers does what its phase asks of its cells and leaves the
\* others alone.
LEMMA LoadPhase ==
  ASSUME ScanReady, NEW b \in Nat, NEW t \in BlockThreads,
         NEW cells \in [0 .. 2 * BLOCK_SIZE - 1 -> Int]
  PROVE  /\ Loaded(cells, b, t) \in [0 .. 2 * BLOCK_SIZE - 1 -> Int]
         /\ \A x \in CellIndex :
              Loaded(cells, b, t)[x - 1] =
                IF Own(0, x) = t THEN Val(SumOf(b), 1, x) ELSE cells[x - 1]
<1> DEFINE B == BLOCK_SIZE
           s == BlockStart(b)
           new == [cells EXCEPT ![t] = Input(s + t), ![t + B] = Input(s + t + B)]
<1>0. blockLog \in Nat BY DEF ScanReady
<1>1. B \in Nat \ {0} /\ t \in 0 .. B - 1 /\ Levels \in Nat \ {0}
  BY <1>0, BlockSize DEF BlockThreads
<1>2. s \in Nat /\ s = b * BLOCK_SIZE * 2 BY <1>0, BlockStarts
<1>3. Loaded(cells, b, t) = new BY <1>2 DEF Loaded
<1>4. ASSUME NEW c \in 0 .. 2 * B - 1
      PROVE  Input(s + c) = Val(SumOf(b), 1, c + 1) /\ Input(s + c) \in Int
  <2>1. s + c \in Nat /\ (s + c) + 1 = s + (c + 1) /\ s + (c + 1) \in Nat BY <1>1, <1>2
  <2>2. ScanOf(s + (c + 1)) = ScanOf(s + c) + Input(s + c) BY <2>1, ScanInput
  <2>3. ScanOf(s + (c + 1)) \in Nat /\ ScanOf(s + c) \in Nat BY <2>1, ScanInput
  <2>4. c \in 0 .. 2 * B /\ c + 1 \in 0 .. 2 * B /\ c + 1 \in Nat BY <1>1
  <2>5. SumOf(b)[c + 1] = ScanOf(s + (c + 1)) /\ SumOf(b)[c] = ScanOf(s + c)
    BY <2>4 DEF SumOf
  <2>6. Rank(c + 1) \in 0 .. Levels BY <1>0, <2>4, RankHas
  <2>7. 0 <= Rank(c + 1) BY <1>1, <2>6
  <2>8. Val(SumOf(b), 1, c + 1) = UpSum(SumOf(b), 0, c + 1)
    <3>1. 1 <= Levels /\ 1 - 1 = 0 /\ 1 # 0 BY <1>1
    <3>2. QED BY <3>1 DEF Val
  <2>9. UpSum(SumOf(b), 0, c + 1) = SumOf(b)[c + 1] - SumOf(b)[(c + 1) - 1]
    BY <2>7, PowZero DEF UpSum
  <2>10. (c + 1) - 1 = c BY <2>4
  <2>11. Input(s + c) \in Int
    <3>1. CASE stage = "scan"
      <4>1. s + c \in Pixels => flags[s + c] \in {0, 1} BY DEF ScanReady, FlagsType
      <4>2. numActive <= TOTAL_PIXELS /\ numActive \in Int /\ TOTAL_PIXELS \in Nat
        BY PassesAssumption DEF ScanReady
      <4>3. QED BY <2>1, <3>1, <4>1, <4>2 DEF Input, Count, Pixels
    <3>2. CASE stage # "scan"
      <4> DEFINE n == numActive
      <4>1. n \in Nat \ {0} BY PassesAssumption DEF ScanReady
      <4>2. NumBlocks(n) \in 1 .. n BY <1>0, <4>1, BlocksCover
      <4>3. CASE s + c < NumBlocks(n)
        <5>1. s + c \in 0 .. NumBlocks(n) - 1 BY <2>1, <4>2, <4>3
        <5>2. blockSums[s + c] = Before(n, BlockStart(s + c + 1)) - Before(n, BlockStart(s + c))
          BY <3>2, <5>1 DEF ScanReady, SumRight
        <5>3. Before(n, BlockStart(s + c + 1)) \in Nat /\ Before(n, BlockStart(s + c)) \in Nat
          BY <4>1, FlaggedFinite
        <5>4. Input(s + c) = blockSums[s + c]
          BY <2>1, <3>2, <4>2, <4>3 DEF Input, Count
        <5>5. QED BY <5>2, <5>3, <5>4
      <4>4. CASE ~ (s + c < NumBlocks(n))
        <5>1. s + c >= NumBlocks(n) BY <2>1, <4>2, <4>4
        <5>2. Input(s + c) = 0 BY <3>2, <5>1 DEF Input, Count
        <5>3. QED BY <5>2
      <4>5. QED BY <4>3, <4>4
    <3>3. QED BY <3>1, <3>2
  <2>12. QED BY <2>2, <2>3, <2>5, <2>8, <2>9, <2>10, <2>11
<1>5. t \in 0 .. 2 * B - 1 /\ t + B \in 0 .. 2 * B - 1 /\ t # t + B BY <1>1
<1>6. s + (t + B) = s + t + B BY <1>1, <1>2
<1>7. new \in [0 .. 2 * B - 1 -> Int]
  <2>1. Input(s + t) \in Int /\ Input(s + t + B) \in Int BY <1>4, <1>5, <1>6
  <2>2. QED BY <1>5, <2>1
<1>8. ASSUME NEW x \in CellIndex
      PROVE  new[x - 1] = IF Own(0, x) = t THEN Val(SumOf(b), 1, x) ELSE cells[x - 1]
  <2>1. x \in 1 .. 2 * B /\ x - 1 \in 0 .. 2 * B - 1 /\ x \in Nat /\ (x - 1) + 1 = x
    BY <1>1 DEF CellIndex
  <2>2. Own(0, x) = IF x <= B THEN x - 1 ELSE x - 1 - B BY DEF Own
  <2>3. Own(0, x) = t <=> x - 1 \in {t, t + B} BY <1>1, <2>1, <2>2
  <2>4. CASE x - 1 = t
    <3>1. new[x - 1] = Input(s + t) BY <1>5, <2>1, <2>4
    <3>2. Input(s + (x - 1)) = Val(SumOf(b), 1, (x - 1) + 1) BY <1>4, <2>1
    <3>3. QED BY <2>1, <2>3, <2>4, <3>1, <3>2
  <2>5. CASE x - 1 = t + B
    <3>1. new[x - 1] = Input(s + t + B) BY <1>5, <2>1, <2>5
    <3>2. Input(s + (x - 1)) = Val(SumOf(b), 1, (x - 1) + 1) BY <1>4, <2>1
    <3>3. QED BY <1>6, <2>1, <2>3, <2>5, <3>1, <3>2
  <2>6. CASE x - 1 \notin {t, t + B}
    <3>1. new[x - 1] = cells[x - 1] BY <1>5, <2>1, <2>6
    <3>2. QED BY <2>3, <2>6, <3>1
  <2>7. QED BY <2>4, <2>5, <2>6
<1> HIDE DEF new, s, B
<1>9. QED BY <1>3, <1>7, <1>8 DEF B

LEMMA ThreadPhase ==
  ASSUME ScanReady, NEW b \in Nat, PhaseInv(b), CellsInv(b),
         NEW t \in BlockThreads, NEW q \in 0 .. LastPhase, q = phase[b][t], Synced(b, t)
  PROVE  /\ \A u \in BlockThreads : phase[b][u] \in {q, q + 1}
         /\ CellsAfter(b, t) \in [0 .. 2 * BLOCK_SIZE - 1 -> Int]
         /\ \A x \in CellIndex :
              CellsAfter(b, t)[x - 1] =
                IF Own(q, x) = t THEN Val(SumOf(b), q + 1, x) ELSE temp[b][x - 1]
         /\ q = ClearPhase /\ t = 0 =>
              SweptUp(temp[b], t, q)[2 * BLOCK_SIZE - 1] = SumOf(b)[2 * BLOCK_SIZE] - SumOf(b)[0]
         /\ q = LastPhase =>
              \A c \in 0 .. 2 * BLOCK_SIZE - 1 : temp[b][c] = SumOf(b)[c] - SumOf(b)[0]
<1> DEFINE g == SumOf(b)
           N == 2 * BLOCK_SIZE
           cells == temp[b]
           Done(new) == /\ new \in [0 .. N - 1 -> Int]
                        /\ \A x \in CellIndex :
                             new[x - 1] = IF Own(q, x) = t THEN Val(g, q + 1, x) ELSE cells[x - 1]
<1>0. blockLog \in Nat BY DEF ScanReady
<1>1. /\ BLOCK_SIZE \in Nat \ {0} /\ Levels \in Nat \ {0} /\ ClearPhase = Levels
      /\ LastPhase = 2 * Levels + 1 /\ q \in Nat
  BY <1>0, BlockSize DEF ClearPhase, LastPhase
<1>2. g \in [0 .. N -> Int] BY SumOfType
<1>3. \A u \in BlockThreads : phase[b][u] \in {q, q + 1}
  <2> TAKE u \in BlockThreads
  <2>1. DOMAIN phase[b] = BlockThreads BY DEF PhaseInv
  <2>2. phase[b][u] >= q BY <2>1 DEF Synced
  <2>3. phase[b][u] <= q + 1 BY DEF PhaseInv
  <2>4. phase[b][u] \in 0 .. LastPhase + 1 BY DEF PhaseInv
  <2>5. QED BY <1>1, <2>2, <2>3, <2>4
<1>4. cells \in [0 .. N - 1 -> Int] /\ CellsIn(cells, phase[b], b, q)
  BY <1>3 DEF CellsInv
<1>5. ASSUME NEW x \in CellIndex, Own(q, x) = t PROVE cells[x - 1] = Val(g, q, x)
  <2>1. phase[b][Own(q, x)] # q + 1 BY <1>1, <1>5
  <2>2. QED BY <1>4, <2>1 DEF CellsIn
<1> HIDE DEF g, cells
<1>6. CASE q = 0
  <2>1. CellsAfter(b, t) = Loaded(cells, b, t)
    <3>1. q # ClearPhase /\ q # LastPhase /\ ~ (q \in 1 .. ClearPhase - 1)
          /\ ~ (q \in ClearPhase + 1 .. LastPhase - 1)
      BY <1>1, <1>6
    <3>2. QED BY <1>6, <3>1 DEF CellsAfter, cells
  <2>2. Done(Loaded(cells, b, t))
    <3>1. /\ Loaded(cells, b, t) \in [0 .. N - 1 -> Int]
          /\ \A x \in CellIndex :
               Loaded(cells, b, t)[x - 1] = IF Own(0, x) = t THEN Val(g, 1, x) ELSE cells[x - 1]
      BY <1>4, LoadPhase DEF g
    <3>2. q + 1 = 1 BY <1>6
    <3>3. QED BY <1>6, <3>1, <3>2
  <2>3. q # ClearPhase /\ q # LastPhase BY <1>1, <1>6
  <2>4. QED BY <1>3, <2>1, <2>2, <2>3 DEF g, cells
<1>7. CASE q \in 1 .. Levels
  <2>1. \A x \in CellIndex : Own(q, x) = (x - 1) \div 2 ^ q
    <3>1. q # 0 /\ q <= Levels BY <1>1, <1>7
    <3>2. QED BY <3>1 DEF Own
  <2>2. \A x \in CellIndex : (x - 1) \div 2 ^ q = t => cells[x - 1] = UpSum(g, q - 1, x)
    <3> TAKE x \in CellIndex
    <3> HAVE (x - 1) \div 2 ^ q = t
    <3>1. cells[x - 1] = Val(g, q, x) BY <1>5, <2>1
    <3>2. q # 0 /\ q <= Levels BY <1>1, <1>7
    <3>3. QED BY <3>1, <3>2 DEF Val
  <2>3. CASE q # Levels
    <3>1. CellsAfter(b, t) = SweptUp(cells, t, q)
      <4>1. q \in 1 .. ClearPhase - 1 /\ q # 0 /\ q # ClearPhase /\ q # LastPhase
            /\ ~ (q \in ClearPhase + 1 .. LastPhase - 1)
        BY <1>1, <1>7, <2>3
      <4>2. QED BY <4>1 DEF CellsAfter, cells
    <3>2. /\ SweptUp(cells, t, q) \in [0 .. N - 1 -> Int]
          /\ \A x \in CellIndex :
               SweptUp(cells, t, q)[x - 1] =
                 IF (x - 1) \div 2 ^ q = t THEN UpSum(g, q, x) ELSE cells[x - 1]
      BY <1>0, <1>2, <1>4, <1>7, <2>2, UpStep, ZenonT(60)
    <3>3. \A x \in CellIndex : Val(g, q + 1, x) = UpSum(g, q, x)
      <4>1. q + 1 # 0 /\ q + 1 <= Levels /\ (q + 1) - 1 = q BY <1>1, <1>7, <2>3
      <4>2. QED BY <4>1 DEF Val
    <3>4. Done(SweptUp(cells, t, q)) BY <2>1, <3>2, <3>3
    <3>5. q # ClearPhase /\ q # LastPhase BY <1>1, <1>7, <2>3
    <3>6. QED BY <1>3, <3>1, <3>4, <3>5 DEF g, cells
  <2>4. CASE q = Levels
    <3> DEFINE up == SweptUp(cells, t, Levels)
    <3>1. CellsAfter(b, t) = Cleared(up, t)
      <4>1. q = ClearPhase /\ q # 0 /\ q # LastPhase /\ ~ (q \in 1 .. ClearPhase - 1)
            /\ ~ (q \in ClearPhase + 1 .. LastPhase - 1)
        BY <1>1, <1>7, <2>4
      <4>2. QED BY <2>4, <4>1 DEF CellsAfter, cells
    <3>2. \A x \in CellIndex :
            (x - 1) \div 2 ^ Levels = t => cells[x - 1] = UpSum(g, Levels - 1, x)
      BY <2>2, <2>4
    <3>3. /\ Cleared(up, t) \in [0 .. N - 1 -> Int]
          /\ \A x \in CellIndex :
               Cleared(up, t)[x - 1] =
                 IF (x - 1) \div 2 ^ Levels = t THEN DownSum(g, Levels, x) ELSE cells[x - 1]
          /\ t = 0 => up[N - 1] = g[N] - g[0]
      BY <1>0, <1>2, <1>4, <3>2, ClearStep
    <3>4. \A x \in CellIndex : Val(g, q + 1, x) = DownSum(g, Levels, x)
      <4>1. /\ q + 1 # 0 /\ ~ (q + 1 <= Levels) /\ ~ (q + 1 > 2 * Levels)
            /\ 2 * Levels + 1 - (q + 1) = Levels
        BY <1>1, <2>4
      <4>2. QED BY <4>1 DEF Val
    <3> HIDE DEF up
    <3>5. Done(Cleared(up, t)) BY <2>1, <2>4, <3>3, <3>4
    <3>6. q # LastPhase BY <1>1, <2>4
    <3>7. t = 0 => SweptUp(cells, t, q)[N - 1] = g[N] - g[0] BY <2>4, <3>3 DEF up
    <3>8. QED BY <1>3, <3>1, <3>5, <3>6, <3>7 DEF g, cells
  <2>5. QED BY <2>3, <2>4
<1>8. CASE q \in Levels + 1 .. 2 * Levels
  <2>1. PICK e \in 1 .. Levels, lv \in Int :
          e = 2 * Levels + 1 - q /\ lv = Levels + 1 - e /\ lv = q - ClearPhase
    <3>1. 2 * Levels + 1 - q \in 1 .. Levels BY <1>1, <1>8
    <3>2. Levels + 1 - (2 * Levels + 1 - q) = q - ClearPhase BY <1>1
    <3>3. QED BY <1>1, <3>1, <3>2
  <2>2. q # 0 /\ ~ (q <= Levels) /\ q <= 2 * Levels /\ ~ (q > 2 * Levels) BY <1>1, <1>8
  <2>3. \A x \in CellIndex : Own(q, x) = (x - 1) \div 2 ^ e BY <2>1, <2>2 DEF Own
  <2>4. \A x \in CellIndex : (x - 1) \div 2 ^ e = t => cells[x - 1] = DownSum(g, e, x)
    <3> TAKE x \in CellIndex
    <3> HAVE (x - 1) \div 2 ^ e = t
    <3>1. cells[x - 1] = Val(g, q, x) BY <1>5, <2>3
    <3>2. QED BY <2>1, <2>2, <3>1 DEF Val
  <2>5. CellsAfter(b, t) = SweptDown(cells, t, lv)
    <3>1. q \in ClearPhase + 1 .. LastPhase - 1 /\ q # 0 /\ q # ClearPhase /\ q # LastPhase
          /\ ~ (q \in 1 .. ClearPhase - 1)
      BY <1>1, <1>8
    <3>2. QED BY <2>1, <3>1 DEF CellsAfter, cells
  <2>6. /\ SweptDown(cells, t, lv) \in [0 .. N - 1 -> Int]
        /\ \A x \in CellIndex :
             SweptDown(cells, t, lv)[x - 1] =
               IF (x - 1) \div 2 ^ e = t THEN DownSum(g, e - 1, x) ELSE cells[x - 1]
    <3>1. /\ SweptDown(cells, t, Levels + 1 - e) \in [0 .. N - 1 -> Int]
          /\ \A x \in CellIndex :
               SweptDown(cells, t, Levels + 1 - e)[x - 1] =
                 IF (x - 1) \div 2 ^ e = t THEN DownSum(g, e - 1, x) ELSE cells[x - 1]
      BY <1>0, <1>2, <1>4, <2>4, DownStep
    <3>2. QED BY <2>1, <3>1
  <2>7. \A x \in CellIndex : Val(g, q + 1, x) = DownSum(g, e - 1, x)
    <3>1. /\ q + 1 # 0 /\ ~ (q + 1 <= Levels)
          /\ (IF q + 1 > 2 * Levels THEN 0 ELSE 2 * Levels + 1 - (q + 1)) = e - 1
      <4>1. q \in Nat /\ Levels \in Nat /\ e \in Int /\ Levels + 1 <= q /\ q <= 2 * Levels
            /\ e = 2 * Levels + 1 - q
        BY <1>1, <1>8, <2>1
      <4>2. q + 1 # 0 /\ ~ (q + 1 <= Levels) BY <4>1
      <4>3. CASE q + 1 > 2 * Levels
        <5>1. e = 1 BY <4>1, <4>3
        <5>2. QED BY <4>2, <4>3, <5>1
      <4>4. CASE ~ (q + 1 > 2 * Levels)
        <5>1. 2 * Levels + 1 - (q + 1) = e - 1 BY <4>1
        <5>2. QED BY <4>2, <4>4, <5>1
      <4>5. QED BY <4>3, <4>4
    <3>2. ASSUME NEW x \in CellIndex PROVE Val(g, q + 1, x) = DownSum(g, e - 1, x)
      <4>1. Val(g, q + 1, x) =
              DownSum(g, IF q + 1 > 2 * Levels THEN 0 ELSE 2 * Levels + 1 - (q + 1), x)
        BY <3>1, Zenon DEF Val
      <4>2. QED BY <3>1, <4>1, Zenon
    <3>3. QED BY <3>2, Zenon
  <2>8. Done(SweptDown(cells, t, lv)) BY <2>3, <2>6, <2>7
  <2>9. q # ClearPhase /\ q # LastPhase BY <1>1, <1>8
  <2>10. QED BY <1>3, <2>5, <2>8, <2>9 DEF g, cells
<1>9. CASE q = LastPhase
  <2>1. q # 0 /\ ~ (q <= Levels) /\ ~ (q <= 2 * Levels) /\ q > 2 * Levels
        /\ q + 1 # 0 /\ ~ (q + 1 <= Levels) /\ q + 1 > 2 * Levels
    BY <1>1, <1>9
  <2>2. CellsAfter(b, t) = cells
    <3>1. ~ (q \in ClearPhase + 1 .. LastPhase - 1) /\ q # 0 /\ q # ClearPhase
          /\ ~ (q \in 1 .. ClearPhase - 1)
      BY <1>1, <1>9
    <3>2. QED BY <1>9, <3>1 DEF CellsAfter, cells
  <2>3. ASSUME NEW x \in CellIndex
        PROVE  Val(g, q, x) = g[x - 1] - g[0] /\ Val(g, q + 1, x) = g[x - 1] - g[0]
    <3>1. x \in Nat BY <1>0, IndexRange
    <3>2. Rank(x) >= 0 BY <1>0, <1>1, <3>1, RankHas
    <3>3. DownSum(g, 0, x) = g[x - 1] - g[0] BY <3>2, PowZero DEF DownSum
    <3>4. QED BY <2>1, <3>3 DEF Val
  <2>4. ASSUME NEW x \in CellIndex PROVE cells[x - 1] = g[x - 1] - g[0]
    <3>1. cells[x - 1] = Val(g, IF phase[b][Own(q, x)] = q + 1 THEN q + 1 ELSE q, x)
      BY <1>4 DEF CellsIn, g
    <3>2. QED BY <2>3, <3>1
  <2>5. Done(cells)
    <3>1. cells \in [0 .. N - 1 -> Int] BY <1>4
    <3>2. \A x \in CellIndex :
            cells[x - 1] = IF Own(q, x) = t THEN Val(g, q + 1, x) ELSE cells[x - 1]
      BY <2>3, <2>4
    <3>3. QED BY <3>1, <3>2
  <2>6. ASSUME NEW c \in 0 .. N - 1 PROVE cells[c] = g[c] - g[0]
    <3>1. c + 1 \in CellIndex /\ (c + 1) - 1 = c BY <1>1 DEF CellIndex
    <3>2. QED BY <2>4, <3>1
  <2>7. q # ClearPhase BY <1>1, <1>9
  <2>8. QED BY <1>3, <2>2, <2>5, <2>6, <2>7 DEF g, cells
<1>10. q = 0 \/ q \in 1 .. Levels \/ q \in Levels + 1 .. 2 * Levels \/ q = LastPhase
  BY <1>1
<1>11. QED BY <1>6, <1>7, <1>8, <1>9, <1>10

-----------------------------------------------------------------------------
(***************************************************************************)
(* The baseline: the inductive invariant, in parts                         *)
(***************************************************************************)
RpSpec == RpInit /\ [][RpLaunch \/ RpStep]_passVars

PassType ==
  /\ stage \in {"trace", "scan", "scan_sums", "add", "count", "scatter", "done"}
  /\ blockLog \in Nat
  /\ raysBuf \in [0 .. 1 -> [Pixels -> [pixel : Int, depth : Int]]]
  /\ FlagsType
  /\ prefix \in [Pixels -> Int]
  /\ blockSums \in [Pixels -> Int] /\ blockSumsScanned \in [Pixels -> Int]
  /\ stage # "done" => numActive \in 1 .. TOTAL_PIXELS /\ prevCount \in 1 .. TOTAL_PIXELS

\* The rays of the pass, and those of them that are known to go on.
PassRays == IF stage = "scatter" THEN prevCount ELSE numActive
Chosen == {i \in 0 .. PassRays - 1 : flags[i] = 1 /\ (stage = "trace" => i \in ended)}

\* No two rays are of one pixel, in either buffer.
RaysInv ==
  stage # "done" =>
    /\ goOn = {raysBuf[1][i] : i \in Chosen}
    /\ \A i, j \in Chosen : i # j => raysBuf[1][i].pixel # raysBuf[1][j].pixel
    /\ stage = "trace" =>
         /\ ended \subseteq 0 .. numActive - 1
         /\ \A i, j \in 0 .. numActive - 1 : i # j => raysBuf[0][i].pixel # raysBuf[0][j].pixel
         /\ \A i \in Chosen : raysBuf[1][i].pixel = raysBuf[0][i].pixel

\* What a scan has stored: sums within the block.
ScanBlocks == IF stage = "scan" THEN 0 .. NumBlocks(numActive) - 1 ELSE {0}
Output == IF stage = "scan" THEN prefix ELSE blockSumsScanned

StoredInv(b) ==
  \A t \in BlockThreads : phase[b][t] > LastPhase =>
    \A c \in {t, t + BLOCK_SIZE} : BlockStart(b) + c < Count =>
      Output[BlockStart(b) + c] = ScanOf(BlockStart(b) + c) - ScanOf(BlockStart(b))

ScanInv ==
  stage \in {"scan", "scan_sums"} =>
    /\ ended = {} /\ ScanReady
    /\ stage = "scan_sums" => NumBlocks(numActive) <= 2 * BLOCK_SIZE
    /\ temp \in [ScanBlocks -> [0 .. 2 * BLOCK_SIZE - 1 -> Int]]
    /\ phase \in [ScanBlocks -> [BlockThreads -> 0 .. LastPhase + 1]]
    /\ \A b \in ScanBlocks : PhaseInv(b) /\ CellsInv(b) /\ StoredInv(b)
    /\ stage = "scan" /\ NumBlocks(numActive) > 1 =>
         \A b \in ScanBlocks : phase[b][0] > ClearPhase => SumRight(b)

\* The addition: a thread that has ended has made the sums of its block sums of all.
LocalInv ==
  stage = "scan_sums" =>
    \A b \in 0 .. NumBlocks(numActive) - 1 : \A c \in 0 .. 2 * BLOCK_SIZE - 1 :
      BlockStart(b) + c < numActive =>
        prefix[BlockStart(b) + c] =
          Before(numActive, BlockStart(b) + c) - Before(numActive, BlockStart(b))

AddInv ==
  stage = "add" =>
    \A b \in 0 .. NumBlocks(numActive) - 1 :
      /\ blockSumsScanned[b] = Before(numActive, BlockStart(b))
      /\ \A t \in BlockThreads : \A c \in {t, t + BLOCK_SIZE} :
           BlockStart(b) + c < numActive =>
             prefix[BlockStart(b) + c] =
               Before(numActive, BlockStart(b) + c) -
                 IF BlockStart(b) + t \in ended THEN 0 ELSE Before(numActive, BlockStart(b))

\* The scatter: a ray that goes on has the place that the sum names.
ScatterInv ==
  /\ stage \in {"count", "scatter"} =>
       \A i \in 0 .. PassRays - 1 : prefix[i] = Before(PassRays, i)
  /\ stage = "count" => ended = {}
  /\ stage = "scatter" =>
       /\ numActive = Before(prevCount, prevCount) /\ ended \subseteq 0 .. prevCount - 1
       /\ \A i \in ended : flags[i] = 1 => raysBuf[0][prefix[i]] = raysBuf[1][i]

PassRunning == PassType /\ RaysInv /\ ScanInv /\ LocalInv /\ AddInv /\ ScatterInv

PassInv == IF stage = "off" THEN RpInit ELSE PassRunning

-----------------------------------------------------------------------------
(***************************************************************************)
(* The baseline: the passes over the rays                                  *)
(***************************************************************************)
\* Where no scan runs, nothing is asked of what it leaves behind.
NoScan == stage \in {"trace", "done"} => ScanInv /\ LocalInv /\ AddInv /\ ScatterInv

LEMMA NoScanHolds == NoScan
BY DEF NoScan, ScanInv, LocalInv, AddInv, ScatterInv

LEMMA LaunchStep ==
  ASSUME RpInit, RpLaunch
  PROVE  PassRunning'
<1>1. stage' = "trace" /\ blockLog' \in Nat /\ ended' = {} /\ goOn' = {}
      /\ numActive' = TOTAL_PIXELS /\ prevCount' = TOTAL_PIXELS
      /\ flags' = [i \in Pixels |-> 0]
      /\ prefix' = prefix /\ blockSums' = blockSums /\ blockSumsScanned' = blockSumsScanned
  BY PassesAssumption DEF RpInit, RpLaunch
<1>2. raysBuf' \in [0 .. 1 -> [Pixels -> [pixel : Int, depth : Int]]]
      /\ \A i \in Pixels : raysBuf'[0][i].pixel = i
  <2>1. raysBuf \in [0 .. 1 -> [Pixels -> [pixel : Int, depth : Int]]]
    BY DEF RpInit, Stale
  <2>2. [i \in Pixels |-> [pixel |-> i, depth |-> 0]] \in [Pixels -> [pixel : Int, depth : Int]]
    BY PassesAssumption DEF Pixels
  <2>3. raysBuf' = [raysBuf EXCEPT ![0] = [i \in Pixels |-> [pixel |-> i, depth |-> 0]]]
    BY DEF RpLaunch
  <2>4. QED BY <2>1, <2>2, <2>3
<1>3. PassType'
  <2>1. FlagsType' BY <1>1 DEF FlagsType, Pixels
  <2>2. /\ prefix \in [Pixels -> Int] /\ blockSums \in [Pixels -> Int]
        /\ blockSumsScanned \in [Pixels -> Int]
    BY DEF RpInit
  <2>3. TOTAL_PIXELS \in 1 .. TOTAL_PIXELS BY PassesAssumption
  <2>4. QED BY <1>1, <1>2, <2>1, <2>2, <2>3 DEF PassType, Pixels
<1>4. RaysInv'
  <2>1. Chosen' = {} BY <1>1 DEF Chosen
  <2>2. \A i, j \in 0 .. numActive' - 1 : i # j => raysBuf'[0][i].pixel # raysBuf'[0][j].pixel
    BY <1>1, <1>2 DEF Pixels
  <2>3. QED BY <1>1, <2>1, <2>2 DEF RaysInv
<1>5. NoScan' BY NoScanHolds, PTL
<1>6. QED BY <1>1, <1>3, <1>4, <1>5 DEF PassRunning, NoScan

LEMMA TraceRayStep ==
  ASSUME PassRunning, NEW i \in Pixels, TraceRay(i)
  PROVE  PassRunning'
<1> DEFINE r == raysBuf[0][i]
           q == [r EXCEPT !.depth = @ + 1]
<1>1. /\ stage = "trace" /\ i < numActive /\ i \notin ended /\ stage' = "trace"
      /\ ended' = ended \cup {i} /\ numActive' = numActive /\ prevCount' = prevCount
      /\ blockLog' = blockLog /\ prefix' = prefix
      /\ blockSums' = blockSums /\ blockSumsScanned' = blockSumsScanned
  BY DEF TraceRay, host
<1>2. PassType /\ RaysInv BY DEF PassRunning
<1>3. r \in [pixel : Int, depth : Int] BY <1>2 DEF PassType
<1>4. q \in [pixel : Int, depth : Int] /\ q.pixel = r.pixel BY <1>3
<1>5. numActive \in 1 .. TOTAL_PIXELS /\ PassRays = numActive /\ PassRays' = numActive
  BY <1>1, <1>2 DEF PassType, PassRays
<1>6. i \in 0 .. numActive - 1 BY <1>1, <1>5, PassesAssumption DEF Pixels
<1>7. \A k \in Chosen : k \in 0 .. numActive - 1 /\ flags[k] = 1 /\ k \in ended /\ k # i
                        /\ k \in Pixels
  BY <1>1, <1>5, PassesAssumption DEF Chosen, Pixels
<1>8. /\ goOn = {raysBuf[1][k] : k \in Chosen}
      /\ \A k, j \in Chosen : k # j => raysBuf[1][k].pixel # raysBuf[1][j].pixel
      /\ ended \subseteq 0 .. numActive - 1
      /\ \A k, j \in 0 .. numActive - 1 : k # j => raysBuf[0][k].pixel # raysBuf[0][j].pixel
      /\ \A k \in Chosen : raysBuf[1][k].pixel = raysBuf[0][k].pixel
  BY <1>1, <1>2 DEF RaysInv
<1>9. PICK reflected \in BOOLEAN :
       /\ flags' = [flags EXCEPT ![i] = IF reflected THEN 1 ELSE 0]
       /\ raysBuf' = IF reflected THEN [raysBuf EXCEPT ![1][i] = q] ELSE raysBuf
       /\ goOn' = IF reflected THEN goOn \cup {q} ELSE goOn
  BY DEF TraceRay
<1>10. FlagsType'
  <2>1. flags \in [Pixels -> {0, 1}] BY <1>2 DEF PassType, FlagsType
  <2>2. flags' \in [Pixels -> {0, 1}] BY <1>9, <2>1
  <2>3. QED BY <2>2 DEF FlagsType, Pixels
<1>11. Chosen' = {k \in 0 .. numActive - 1 : flags'[k] = 1 /\ k \in ended \cup {i}}
  BY <1>1, <1>5 DEF Chosen
<1>12. Chosen = {k \in 0 .. numActive - 1 : flags[k] = 1 /\ k \in ended}
  BY <1>1, <1>5 DEF Chosen
<1>13. \A k \in ended : flags'[k] = flags[k] /\ k \in Pixels
  <2>1. flags \in [Pixels -> {0, 1}] BY <1>2 DEF PassType, FlagsType
  <2>2. ended \subseteq Pixels BY <1>5, <1>8, PassesAssumption DEF Pixels
  <2>3. QED BY <1>1, <1>9, <2>1, <2>2
<1>14. flags'[i] = IF reflected THEN 1 ELSE 0
  <2>1. flags \in [Pixels -> {0, 1}] BY <1>2 DEF PassType, FlagsType
  <2>2. QED BY <1>9, <2>1
<1>15. raysBuf \in [0 .. 1 -> [Pixels -> [pixel : Int, depth : Int]]] BY <1>2 DEF PassType
<1> HIDE DEF q, r
<1>16. CASE ~ reflected
  <2>1. Chosen' = Chosen BY <1>1, <1>6, <1>11, <1>12, <1>13, <1>14, <1>16
  <2>2. raysBuf' = raysBuf /\ goOn' = goOn BY <1>9, <1>16
  <2>3. RaysInv' BY <1>1, <1>6, <1>8, <2>1, <2>2 DEF RaysInv
  <2>4. PassType' BY <1>1, <1>2, <1>10, <2>2 DEF PassType, Pixels
  <2>5. NoScan' BY NoScanHolds, PTL
  <2>6. QED BY <1>1, <2>3, <2>4, <2>5 DEF PassRunning, NoScan
<1>17. CASE reflected
  <2>1. Chosen' = Chosen \cup {i} BY <1>1, <1>6, <1>11, <1>12, <1>13, <1>14, <1>17
  <2>2. raysBuf' = [raysBuf EXCEPT ![1][i] = q] /\ goOn' = goOn \cup {q} BY <1>9, <1>17
  <2>3. raysBuf' \in [0 .. 1 -> [Pixels -> [pixel : Int, depth : Int]]]
    BY <1>4, <1>15, <2>2
  <2>4. raysBuf'[0] = raysBuf[0] /\ raysBuf'[1][i] = q
        /\ \A k \in Pixels : k # i => raysBuf'[1][k] = raysBuf[1][k]
    BY <1>15, <2>2
  <2>5. \A k \in Chosen : raysBuf'[1][k] = raysBuf[1][k] BY <1>7, <2>4
  <2>6. goOn' = {raysBuf'[1][k] : k \in Chosen'}
    <3>1. {raysBuf'[1][k] : k \in Chosen'} = {raysBuf'[1][k] : k \in Chosen} \cup {raysBuf'[1][i]}
      BY <2>1
    <3>2. {raysBuf'[1][k] : k \in Chosen} = {raysBuf[1][k] : k \in Chosen} BY <2>5
    <3>3. QED BY <1>8, <2>2, <2>4, <3>1, <3>2
  <2>7. \A k \in Chosen' : k \in 0 .. numActive - 1 /\ raysBuf'[1][k].pixel = raysBuf'[0][k].pixel
    <3> TAKE k \in Chosen'
    <3>1. CASE k = i BY <1>4, <1>6, <2>4, <3>1 DEF r
    <3>2. CASE k \in Chosen BY <1>7, <1>8, <2>4, <2>5, <3>2
    <3>3. QED BY <2>1, <3>1, <3>2
  <2>8. \A k, j \in Chosen' : k # j => raysBuf'[1][k].pixel # raysBuf'[1][j].pixel
    BY <1>8, <2>4, <2>7
  <2>9. RaysInv' BY <1>1, <1>6, <1>8, <2>4, <2>6, <2>7, <2>8 DEF RaysInv
  <2>10. PassType' BY <1>1, <1>2, <1>10, <2>3 DEF PassType, Pixels
  <2>11. NoScan' BY NoScanHolds, PTL
  <2>12. QED BY <1>1, <2>9, <2>10, <2>11 DEF PassRunning, NoScan
<1>18. QED BY <1>16, <1>17

\* A scan that starts has its cells and threads as the invariant wants them.
Fresh ==
  /\ blockLog \in Nat
  /\ phase = [b \in ScanBlocks |-> [t \in BlockThreads |-> 0]]
  /\ temp = [b \in ScanBlocks |-> [c \in 0 .. 2 * BLOCK_SIZE - 1 |-> 0]]

ScanStarted ==
  /\ temp \in [ScanBlocks -> [0 .. 2 * BLOCK_SIZE - 1 -> Int]]
  /\ phase \in [ScanBlocks -> [BlockThreads -> 0 .. LastPhase + 1]]
  /\ \A b \in ScanBlocks : PhaseInv(b) /\ CellsInv(b) /\ StoredInv(b)
                           /\ ~ (phase[b][0] > ClearPhase)

LEMMA FreshScan == Fresh => ScanStarted
<1> SUFFICES ASSUME Fresh PROVE ScanStarted
  OBVIOUS
<1>0. /\ BLOCK_SIZE \in Nat \ {0} /\ Levels \in Nat \ {0} /\ ClearPhase = Levels
      /\ LastPhase = 2 * Levels + 1 /\ blockLog \in Nat
  BY BlockSize DEF ClearPhase, LastPhase, Fresh
<1>1. 0 \in 0 .. LastPhase + 1 /\ ~ (0 > LastPhase) /\ ~ (0 > ClearPhase)
      /\ 0 \in BlockThreads
  BY <1>0 DEF BlockThreads
<1>2. ASSUME NEW b \in ScanBlocks
      PROVE  PhaseInv(b) /\ CellsInv(b) /\ StoredInv(b) /\ ~ (phase[b][0] > ClearPhase)
  <2>1. phase[b] = [t \in BlockThreads |-> 0] BY DEF Fresh
  <2>2. temp[b] = [c \in 0 .. 2 * BLOCK_SIZE - 1 |-> 0] BY DEF Fresh
  <2>3. PhaseInv(b) BY <1>1, <2>1 DEF PhaseInv
  <2>4. StoredInv(b) BY <1>1, <2>1 DEF StoredInv
  <2>5. ~ (phase[b][0] > ClearPhase) BY <1>1, <2>1
  <2>6. CellsInv(b)
    <3>1. temp[b] \in [0 .. 2 * BLOCK_SIZE - 1 -> Int] BY <2>2
    <3>2. ASSUME NEW q \in 0 .. LastPhase, \A u \in BlockThreads : phase[b][u] \in {q, q + 1}
          PROVE  CellsIn(temp[b], phase[b], b, q)
      <4>1. q = 0
        <5>1. phase[b][0] = 0 BY <1>1, <2>1
        <5>2. 0 \in {q, q + 1} BY <1>1, <3>2, <5>1
        <5>3. QED BY <1>0, <5>2
      <4>2. ASSUME NEW x \in CellIndex
            PROVE  temp[b][x - 1] =
                     Val(SumOf(b), IF phase[b][Own(q, x)] = q + 1 THEN q + 1 ELSE q, x)
        <5>1. x - 1 \in 0 .. 2 * BLOCK_SIZE - 1 BY <1>0, IndexRange
        <5>2. Own(q, x) \in BlockThreads BY <1>0, OwnType
        <5>3. phase[b][Own(q, x)] = 0 BY <2>1, <5>2
        <5>4. phase[b][Own(q, x)] # q + 1 BY <4>1, <5>3
        <5>5. Val(SumOf(b), q, x) = 0 BY <4>1 DEF Val
        <5>6. QED BY <2>2, <5>1, <5>4, <5>5
      <4>3. QED BY <4>2 DEF CellsIn
    <3>3. QED BY <3>1, <3>2 DEF CellsInv
  <2>7. QED BY <2>3, <2>4, <2>5, <2>6
<1>3. temp \in [ScanBlocks -> [0 .. 2 * BLOCK_SIZE - 1 -> Int]] BY DEF Fresh
<1>4. phase \in [ScanBlocks -> [BlockThreads -> 0 .. LastPhase + 1]] BY <1>1 DEF Fresh
<1>5. QED BY <1>2, <1>3, <1>4 DEF ScanStarted

LEMMA EndTraceStep ==
  ASSUME PassRunning, EndTrace
  PROVE  PassRunning'
<1>1. /\ stage = "trace" /\ ended = 0 .. numActive - 1 /\ ended' = {}
      /\ blockLog' = blockLog /\ numActive' = numActive /\ prevCount' = prevCount
      /\ raysBuf' = raysBuf /\ flags' = flags /\ prefix' = prefix /\ blockSums' = blockSums
      /\ blockSumsScanned' = blockSumsScanned /\ goOn' = goOn
  BY DEF EndTrace, host
<1>2. PassType /\ RaysInv BY DEF PassRunning
<1>3. FlagsType' BY <1>1, <1>2 DEF PassType, FlagsType, Pixels
<1>4. CASE stage' = "done"
  <2>1. PassType' BY <1>1, <1>2, <1>3, <1>4 DEF PassType, Pixels
  <2>2. RaysInv' BY <1>4 DEF RaysInv
  <2>3. NoScan' BY NoScanHolds, PTL
  <2>4. QED BY <1>4, <2>1, <2>2, <2>3 DEF PassRunning, NoScan
<1>5. CASE stage' = "scan"
  <2>1. ScanStart(numActive, NumBlocks(numActive)) BY <1>5 DEF EndTrace
  <2>2. PassType' BY <1>1, <1>2, <1>3, <1>5 DEF PassType, Pixels
  <2>3. RaysInv'
    <3>1. Chosen' = Chosen BY <1>1, <1>5 DEF Chosen, PassRays
    <3>2. /\ goOn = {raysBuf[1][k] : k \in Chosen}
          /\ \A k, j \in Chosen : k # j => raysBuf[1][k].pixel # raysBuf[1][j].pixel
      BY <1>1, <1>2 DEF RaysInv
    <3>3. QED BY <1>1, <1>5, <3>1, <3>2 DEF RaysInv
  <2>4. ScanReady' BY <1>1, <1>2, <1>3, <1>5 DEF PassType, ScanReady
  <2>5. Fresh'
    <3>1. ScanBlocks' = 0 .. NumBlocks(numActive) - 1
      BY <1>1, <1>5 DEF ScanBlocks, NumBlocks, BLOCK_SIZE
    <3>2. BlockThreads' = 0 .. BLOCK_SIZE - 1 /\ BLOCK_SIZE' = BLOCK_SIZE
      BY <1>1 DEF BlockThreads, BLOCK_SIZE
    <3>3. blockLog' \in Nat BY <1>1, <1>2 DEF PassType
    <3>4. QED BY <2>1, <3>1, <3>2, <3>3 DEF Fresh, ScanStart
  <2>6. ScanStarted' BY <2>5, FreshScan, PTL
  <2>7. ScanInv' BY <1>1, <1>5, <2>4, <2>6 DEF ScanInv, ScanStarted
  <2>8. LocalInv' /\ AddInv' /\ ScatterInv' BY <1>5 DEF LocalInv, AddInv, ScatterInv
  <2>9. QED BY <1>5, <2>2, <2>3, <2>7, <2>8 DEF PassRunning
<1>6. QED BY <1>4, <1>5 DEF EndTrace

\* The cells and phases of a block after a step of one of its threads.
LEMMA BlockAfter ==
  ASSUME ScanReady, NEW b \in Nat, PhaseInv(b), CellsInv(b),
         NEW t \in BlockThreads, NEW q \in 0 .. LastPhase, q = phase[b][t], Synced(b, t),
         UNCHANGED <<stage, blockLog, flags, numActive>>,
         phase'[b] = [phase[b] EXCEPT ![t] = q + 1],
         temp'[b] = CellsAfter(b, t)
  PROVE  PhaseInv(b)' /\ CellsInv(b)'
<1>0. blockLog \in Nat BY DEF ScanReady
<1>1. /\ BLOCK_SIZE \in Nat \ {0} /\ Levels \in Nat \ {0} /\ ClearPhase = Levels
      /\ LastPhase = 2 * Levels + 1 /\ q \in Nat
  BY <1>0, BlockSize DEF ClearPhase, LastPhase
<1>2. /\ \A u \in BlockThreads : phase[b][u] \in {q, q + 1}
      /\ CellsAfter(b, t) \in [0 .. 2 * BLOCK_SIZE - 1 -> Int]
      /\ \A x \in CellIndex :
           CellsAfter(b, t)[x - 1] =
             IF Own(q, x) = t THEN Val(SumOf(b), q + 1, x) ELSE temp[b][x - 1]
  BY ThreadPhase
<1>3. phase[b] \in [BlockThreads -> 0 .. LastPhase + 1] BY DEF PhaseInv
<1>4. BLOCK_SIZE' = BLOCK_SIZE /\ BlockThreads' = BlockThreads /\ Levels' = Levels
      /\ LastPhase' = LastPhase /\ CellIndex' = CellIndex
  BY DEF BLOCK_SIZE, BlockThreads, Levels, LastPhase, CellIndex
<1>5. SumOf(b)' = SumOf(b)
  BY <1>4 DEF SumOf, ScanOf, Before, Flagged, BlockStart
<1>6. \A x : Rank(x)' = Rank(x) BY <1>4 DEF Rank
<1>7. \A k, x : Val(SumOf(b), k, x)' = Val(SumOf(b), k, x)
  BY <1>4, <1>5, <1>6 DEF Val, UpSum, DownSum
<1>8. \A k, x : Own(k, x)' = Own(k, x) BY <1>4 DEF Own
<1>9. \A u \in BlockThreads : phase'[b][u] = IF u = t THEN q + 1 ELSE phase[b][u]
  BY <1>3
<1>10. PhaseInv(b)'
  <2>1. q + 1 \in 0 .. LastPhase + 1 BY <1>1
  <2>2. phase'[b] \in [BlockThreads -> 0 .. LastPhase + 1] BY <1>3, <2>1
  <2>3. \A u \in BlockThreads : phase'[b][u] \in {q, q + 1} BY <1>2, <1>9
  <2>4. \A u, v \in BlockThreads : phase'[b][u] <= phase'[b][v] + 1 BY <1>1, <2>3
  <2>5. QED BY <1>4, <2>2, <2>4 DEF PhaseInv
<1>11. CellsIn(temp[b], phase[b], b, q) BY <1>2 DEF CellsInv
<1>12. ASSUME NEW x \in CellIndex
       PROVE  temp'[b][x - 1] =
                Val(SumOf(b), IF phase'[b][Own(q, x)] = q + 1 THEN q + 1 ELSE q, x)
  <2>1. Own(q, x) \in BlockThreads BY <1>0, OwnType
  <2>2. CASE Own(q, x) = t BY <1>2, <1>9, <2>1, <2>2
  <2>3. CASE Own(q, x) # t
    <3>1. temp'[b][x - 1] = temp[b][x - 1] BY <1>2, <2>3
    <3>2. phase'[b][Own(q, x)] = phase[b][Own(q, x)] BY <1>9, <2>1, <2>3
    <3>3. QED BY <1>11, <3>1, <3>2 DEF CellsIn
  <2>4. QED BY <2>2, <2>3
<1>13. ASSUME NEW k \in 0 .. LastPhase, \A u \in BlockThreads : phase'[b][u] \in {k, k + 1}
       PROVE  \A x \in CellIndex :
                temp'[b][x - 1] =
                  Val(SumOf(b), IF phase'[b][Own(k, x)] = k + 1 THEN k + 1 ELSE k, x)
  <2>1. q + 1 \in {k, k + 1} BY <1>9, <1>13
  <2>2. CASE q = k BY <1>12, <2>2
  <2>3. CASE q + 1 = k
    <3>1. \A u \in BlockThreads : phase'[b][u] = q + 1
      <4>1. \A u \in BlockThreads : phase'[b][u] \in {q, q + 1} BY <1>2, <1>9
      <4>2. QED BY <1>1, <1>13, <2>3, <4>1
    <3>2. ASSUME NEW x \in CellIndex
          PROVE  temp'[b][x - 1] =
                   Val(SumOf(b), IF phase'[b][Own(k, x)] = k + 1 THEN k + 1 ELSE k, x)
      <4>1. Own(q, x) \in BlockThreads /\ Own(k, x) \in BlockThreads BY <1>0, OwnType
      <4>2. temp'[b][x - 1] = Val(SumOf(b), k, x) BY <1>12, <2>3, <3>1, <4>1
      <4>3. phase'[b][Own(k, x)] # k + 1 BY <1>1, <2>3, <3>1, <4>1
      <4>4. QED BY <4>2, <4>3
    <3>3. QED BY <3>2
  <2>4. QED BY <1>1, <2>1, <2>2, <2>3
<1>14. temp'[b] \in [0 .. 2 * BLOCK_SIZE - 1 -> Int] BY <1>2
<1>15. CellsInv(b)'
  <2>1. ASSUME NEW k \in 0 .. LastPhase, \A u \in BlockThreads : phase'[b][u] \in {k, k + 1}
        PROVE  CellsIn(temp[b], phase[b], b, k)'
    <3>1. \A x \in CellIndex :
            temp'[b][x - 1] =
              Val(SumOf(b), IF phase'[b][Own(k, x)] = k + 1 THEN k + 1 ELSE k, x)
      BY <1>13, <2>1
    <3>2. QED BY <1>4, <1>7, <1>8, <3>1 DEF CellsIn
  <2>2. QED BY <1>4, <1>14, <2>1 DEF CellsInv
<1>16. QED BY <1>10, <1>15

LEMMA ScanFacts ==
  ASSUME PassType, ScanInv, stage \in {"scan", "scan_sums"}
  PROVE  /\ ScanReady /\ blockLog \in Nat
         /\ numActive \in Nat \ {0} /\ numActive <= TOTAL_PIXELS
         /\ NumBlocks(numActive) \in 1 .. numActive
         /\ ScanBlocks \subseteq Nat /\ ScanBlocks \subseteq 0 .. NumBlocks(numActive) - 1
         /\ Count \in Nat /\ Count <= TOTAL_PIXELS
         /\ Output \in [Pixels -> Int]
         /\ BLOCK_SIZE \in Nat \ {0}
<1>1. ScanReady /\ blockLog \in Nat /\ stage # "done" BY DEF ScanInv, ScanReady
<1>2. numActive \in Nat \ {0} /\ numActive <= TOTAL_PIXELS
  BY <1>1, PassesAssumption DEF PassType
<1>3. NumBlocks(numActive) \in 1 .. numActive BY <1>1, <1>2, BlocksCover
<1>4. ScanBlocks \subseteq 0 .. NumBlocks(numActive) - 1 /\ ScanBlocks \subseteq Nat
  BY <1>3 DEF ScanBlocks
<1>5. Count \in Nat /\ Count <= TOTAL_PIXELS
  BY <1>2, <1>3, PassesAssumption DEF Count
<1>6. Output \in [Pixels -> Int] BY DEF Output, PassType
<1>7. QED BY <1>1, <1>2, <1>3, <1>4, <1>5, <1>6, BlockSize

LEMMA StoredAfter ==
  ASSUME PassType, ScanInv, NEW b \in ScanBlocks, NEW t \in BlockThreads, ScanThread(b, t),
         NEW a \in ScanBlocks
  PROVE  StoredInv(a)'
<1> DEFINE q == phase[b][t]
           start == BlockStart(b)
           B == BLOCK_SIZE
<1>0. /\ stage \in {"scan", "scan_sums"} /\ q <= LastPhase /\ Synced(b, t)
      /\ stage' = stage /\ blockLog' = blockLog /\ numActive' = numActive /\ flags' = flags
      /\ phase' = [phase EXCEPT ![b][t] = q + 1]
  BY DEF ScanThread, host
<1>1. /\ ScanReady /\ blockLog \in Nat /\ ScanBlocks \subseteq Nat
      /\ Count \in Nat /\ Count <= TOTAL_PIXELS /\ Output \in [Pixels -> Int]
      /\ BLOCK_SIZE \in Nat \ {0}
  BY <1>0, ScanFacts
<1>2. /\ phase \in [ScanBlocks -> [BlockThreads -> 0 .. LastPhase + 1]]
      /\ PhaseInv(b) /\ CellsInv(b) /\ StoredInv(a)
  BY <1>0 DEF ScanInv
<1>3. /\ BLOCK_SIZE' = BLOCK_SIZE /\ BlockThreads' = BlockThreads /\ LastPhase' = LastPhase
      /\ Count' = Count
  BY <1>0 DEF BLOCK_SIZE, BlockThreads, LastPhase, Levels, Count, NumBlocks
<1>4. \A i : ScanOf(i)' = ScanOf(i) /\ BlockStart(i)' = BlockStart(i)
  BY <1>0, <1>3 DEF ScanOf, Before, Flagged, BlockStart
<1>5. start \in Nat /\ start = b * BLOCK_SIZE * 2 BY <1>1, BlockStarts
<1>6. Output' = IF q = LastPhase THEN Stored(Output, b, t) ELSE Output
  <2>1. CASE stage = "scan" BY <1>0, <2>1 DEF Output, ScanThread
  <2>2. CASE stage = "scan_sums" BY <1>0, <2>2 DEF Output, ScanThread
  <2>3. QED BY <1>0, <2>1, <2>2
<1>7. \A i \in Pixels :
        Stored(Output, b, t)[i] =
          IF i < Count /\ i \in {start + t, start + t + B} THEN temp[b][i - start] ELSE Output[i]
  BY <1>1, <1>5 DEF Stored
<1>8. LastPhase \in Nat /\ q \in 0 .. LastPhase
  <2>1. Levels \in Nat BY <1>1, BlockSize
  <2>2. LastPhase \in Nat BY <2>1 DEF LastPhase
  <2>3. q \in 0 .. LastPhase + 1 BY <1>2
  <2>4. QED BY <1>0, <2>2, <2>3
<1>9. q = LastPhase =>
        \A c \in 0 .. 2 * B - 1 : temp[b][c] = ScanOf(start + c) - ScanOf(start)
  <2> SUFFICES ASSUME q = LastPhase, NEW c \in 0 .. 2 * B - 1
               PROVE  temp[b][c] = ScanOf(start + c) - ScanOf(start)
    OBVIOUS
  <2>1. temp[b][c] = SumOf(b)[c] - SumOf(b)[0]
    BY <1>0, <1>1, <1>2, <1>8, ThreadPhase
  <2>2. c \in 0 .. 2 * B /\ 0 \in 0 .. 2 * B /\ start + 0 = start BY <1>1, <1>5
  <2>3. SumOf(b)[c] = ScanOf(start + c) /\ SumOf(b)[0] = ScanOf(start) BY <2>2 DEF SumOf
  <2>4. QED BY <2>1, <2>3
<1> HIDE DEF q, start, B
<1>10. ASSUME NEW u \in BlockThreads, phase'[a][u] > LastPhase,
              NEW c \in {u, u + BLOCK_SIZE}, BlockStart(a) + c < Count
       PROVE  Output'[BlockStart(a) + c] = ScanOf(BlockStart(a) + c) - ScanOf(BlockStart(a))
  <2> DEFINE i == BlockStart(a) + c
  <2>1. u \in 0 .. BLOCK_SIZE - 1 /\ t \in 0 .. BLOCK_SIZE - 1 BY DEF BlockThreads
  <2>2. c \in 0 .. 2 * BLOCK_SIZE - 1 /\ t \in 0 .. 2 * BLOCK_SIZE - 1
        /\ t + BLOCK_SIZE \in 0 .. 2 * BLOCK_SIZE - 1
    BY <1>1, <2>1
  <2>3. BlockStart(a) \in Nat BY <1>1, BlockStarts
  <2>4. i \in Pixels BY <1>1, <1>10, <2>2, <2>3, PassesAssumption DEF Pixels
  <2>5. CASE a = b /\ u = t
    <3>1. phase'[a][u] = q + 1 BY <1>0, <1>2, <2>5
    <3>2. q = LastPhase BY <1>8, <1>10, <3>1
    <3>3. i \in {start + t, start + t + B} /\ i - start = c
      BY <1>1, <1>5, <2>1, <2>2, <2>5 DEF start, B
    <3>4. Output'[i] = temp[b][c] BY <1>6, <1>7, <1>10, <2>4, <3>2, <3>3
    <3>5. temp[b][c] = ScanOf(i) - ScanOf(BlockStart(a))
      BY <1>9, <2>2, <2>5, <3>2 DEF start, B
    <3>6. QED BY <3>4, <3>5
  <2>6. CASE ~ (a = b /\ u = t)
    <3>1. phase'[a][u] = phase[a][u] BY <1>0, <1>2, <2>6
    <3>2. Output[i] = ScanOf(i) - ScanOf(BlockStart(a))
      BY <1>2, <1>10, <3>1 DEF StoredInv
    <3>3. i # start + t
      <4> SUFFICES ASSUME BlockStart(a) + c = BlockStart(b) + t PROVE FALSE
        BY DEF start
      <4>1. a = b /\ c = t BY <1>1, <2>2, OneBlock
      <4>2. QED BY <1>1, <1>10, <2>1, <2>6, <4>1
    <3>4. i # start + t + B
      <4> SUFFICES ASSUME BlockStart(a) + c = BlockStart(b) + (t + BLOCK_SIZE) PROVE FALSE
        <5>1. start + t + B = BlockStart(b) + (t + BLOCK_SIZE) BY <1>1, <1>5, <2>1 DEF start, B
        <5>2. QED BY <5>1
      <4>1. a = b /\ c = t + BLOCK_SIZE BY <1>1, <2>2, OneBlock
      <4>2. QED BY <1>1, <1>10, <2>1, <2>6, <4>1
    <3>5. Output'[i] = Output[i] BY <1>6, <1>7, <2>4, <3>3, <3>4
    <3>6. QED BY <3>2, <3>5
  <2>7. QED BY <2>5, <2>6
<1>11. QED BY <1>3, <1>4, <1>10 DEF StoredInv

LEMMA SumAfter ==
  ASSUME PassType, ScanInv, NEW b \in ScanBlocks, NEW t \in BlockThreads, ScanThread(b, t),
         stage = "scan", NumBlocks(numActive) > 1,
         NEW a \in ScanBlocks, phase'[a][0] > ClearPhase
  PROVE  SumRight(a)'
<1> DEFINE q == phase[b][t]
           n == numActive
<1>0. /\ q <= LastPhase /\ Synced(b, t) /\ stage' = stage
      /\ blockLog' = blockLog /\ numActive' = numActive /\ flags' = flags
      /\ phase' = [phase EXCEPT ![b][t] = q + 1]
      /\ blockSums' = IF q = ClearPhase /\ t = 0
                      THEN [blockSums EXCEPT
                              ![b] = SweptUp(temp[b], t, q)[2 * BLOCK_SIZE - 1]]
                      ELSE blockSums
  BY DEF ScanThread, host
<1>1. /\ ScanReady /\ blockLog \in Nat /\ ScanBlocks \subseteq Nat /\ n \in Nat \ {0}
      /\ n <= TOTAL_PIXELS /\ BLOCK_SIZE \in Nat \ {0}
      /\ NumBlocks(n) \in 1 .. n /\ ScanBlocks \subseteq 0 .. NumBlocks(n) - 1
  BY ScanFacts
<1>2. /\ phase \in [ScanBlocks -> [BlockThreads -> 0 .. LastPhase + 1]]
      /\ PhaseInv(b) /\ CellsInv(b)
      /\ \A d \in ScanBlocks : phase[d][0] > ClearPhase => SumRight(d)
  BY DEF ScanInv
<1>3. blockSums \in [Pixels -> Int] BY DEF PassType
<1>4. 0 \in BlockThreads BY <1>1 DEF BlockThreads
<1>5. Levels \in Nat /\ LastPhase = 2 * Levels + 1 /\ ClearPhase = Levels
  BY <1>1, BlockSize DEF LastPhase, ClearPhase
<1>6. q \in 0 .. LastPhase
  <2>1. q \in 0 .. LastPhase + 1 BY <1>2
  <2>2. QED BY <1>0, <1>5, <2>1
<1>7. a \in Pixels /\ a \in Nat BY <1>1, PassesAssumption DEF Pixels
<1>8. SUFFICES blockSums'[a] = Before(n, BlockStart(a + 1)) - Before(n, BlockStart(a))
  BY <1>0 DEF SumRight, Before, Flagged, BlockStart, BLOCK_SIZE
<1> HIDE DEF q
<1>9. CASE a = b /\ t = 0 /\ q = ClearPhase
  <2>1. blockSums'[a] = SweptUp(temp[b], t, q)[2 * BLOCK_SIZE - 1]
    BY <1>0, <1>3, <1>7, <1>9
  <2>2. SweptUp(temp[b], t, q)[2 * BLOCK_SIZE - 1] = SumOf(b)[2 * BLOCK_SIZE] - SumOf(b)[0]
    <3>1. q = phase[b][t] BY DEF q
    <3>2. QED BY <1>0, <1>1, <1>2, <1>6, <1>9, <3>1, ThreadPhase
  <2>3. 2 * BLOCK_SIZE \in 0 .. 2 * BLOCK_SIZE /\ 0 \in 0 .. 2 * BLOCK_SIZE BY <1>1
  <2>4. BlockStart(b) \in Nat /\ BlockStart(b + 1) = BlockStart(b) + 2 * BLOCK_SIZE
    BY <1>1, BlockStarts
  <2>5. BlockStart(b) + 0 = BlockStart(b) BY <2>4
  <2>6. SumOf(b)[2 * BLOCK_SIZE] = Before(n, BlockStart(b + 1))
        /\ SumOf(b)[0] = Before(n, BlockStart(b))
    BY <2>3, <2>4, <2>5 DEF SumOf, ScanOf
  <2>7. QED BY <1>9, <2>1, <2>2, <2>6
<1>10. CASE ~ (a = b /\ t = 0 /\ q = ClearPhase)
  <2>1. blockSums'[a] = blockSums[a] BY <1>0, <1>3, <1>7, <1>10
  <2>2. phase[a][0] > ClearPhase
    <3>1. CASE a = b /\ t = 0
      <4>1. phase'[a][0] = q + 1 BY <1>0, <1>2, <1>4, <3>1
      <4>2. q > ClearPhase BY <1>5, <1>6, <1>10, <3>1, <4>1
      <4>3. QED BY <3>1, <4>2 DEF q
    <3>2. CASE ~ (a = b /\ t = 0)
      <4>1. phase'[a][0] = phase[a][0] BY <1>0, <1>2, <1>4, <3>2
      <4>2. QED BY <4>1
    <3>3. QED BY <3>1, <3>2
  <2>3. SumRight(a) BY <1>2, <2>2
  <2>4. QED BY <2>1, <2>3 DEF SumRight
<1>11. QED BY <1>9, <1>10

LEMMA ScanThreadStep ==
  ASSUME PassRunning, NEW b \in DOMAIN phase, NEW t \in DOMAIN phase[b], ScanThread(b, t)
  PROVE  PassRunning'
<1> DEFINE q == phase[b][t]
<1>0. /\ stage \in {"scan", "scan_sums"} /\ q <= LastPhase /\ Synced(b, t)
      /\ stage' = stage /\ blockLog' = blockLog /\ numActive' = numActive /\ flags' = flags
      /\ prevCount' = prevCount /\ raysBuf' = raysBuf /\ ended' = ended /\ goOn' = goOn
      /\ phase' = [phase EXCEPT ![b][t] = q + 1]
      /\ temp' = [temp EXCEPT ![b] = CellsAfter(b, t)]
      /\ stage = "scan_sums" => prefix' = prefix /\ blockSums' = blockSums
      /\ stage = "scan" => blockSumsScanned' = blockSumsScanned
  BY DEF ScanThread, host
<1>1. PassType /\ RaysInv /\ ScanInv /\ LocalInv BY DEF PassRunning
<1>2. /\ temp \in [ScanBlocks -> [0 .. 2 * BLOCK_SIZE - 1 -> Int]]
      /\ phase \in [ScanBlocks -> [BlockThreads -> 0 .. LastPhase + 1]]
      /\ \A a \in ScanBlocks : PhaseInv(a) /\ CellsInv(a) /\ StoredInv(a)
      /\ ended = {}
      /\ stage = "scan_sums" => NumBlocks(numActive) <= 2 * BLOCK_SIZE
  BY <1>0, <1>1 DEF ScanInv
<1>3. b \in ScanBlocks /\ t \in BlockThreads BY <1>2
<1>4. /\ ScanReady /\ blockLog \in Nat /\ ScanBlocks \subseteq Nat
      /\ numActive \in Nat \ {0} /\ numActive <= TOTAL_PIXELS
      /\ NumBlocks(numActive) \in 1 .. numActive
      /\ ScanBlocks \subseteq 0 .. NumBlocks(numActive) - 1
      /\ Output \in [Pixels -> Int] /\ BLOCK_SIZE \in Nat \ {0}
  BY <1>0, <1>1, ScanFacts
<1>5. /\ BLOCK_SIZE' = BLOCK_SIZE /\ BlockThreads' = BlockThreads /\ LastPhase' = LastPhase
      /\ ClearPhase' = ClearPhase /\ ScanBlocks' = ScanBlocks /\ CellIndex' = CellIndex
  BY <1>0 DEF BLOCK_SIZE, BlockThreads, LastPhase, Levels, NumBlocks, ScanBlocks, ClearPhase,
              CellIndex
<1>6. Levels \in Nat /\ LastPhase = 2 * Levels + 1 /\ ClearPhase = Levels
  BY <1>4, BlockSize DEF LastPhase, ClearPhase
<1>7. q \in 0 .. LastPhase
  <2>1. q \in 0 .. LastPhase + 1 BY <1>2, <1>3
  <2>2. QED BY <1>0, <1>6, <2>1
<1>8. PhaseInv(b)' /\ CellsInv(b)'
  <2>1. phase'[b] = [phase[b] EXCEPT ![t] = q + 1] BY <1>0, <1>2, <1>3
  <2>2. temp'[b] = CellsAfter(b, t) BY <1>0, <1>2, <1>3
  <2>3. b \in Nat /\ PhaseInv(b) /\ CellsInv(b) BY <1>2, <1>3, <1>4
  <2>4. UNCHANGED <<stage, blockLog, flags, numActive>> BY <1>0
  <2>5. QED BY <1>0, <1>3, <1>4, <1>7, <2>1, <2>2, <2>3, <2>4, BlockAfter
<1>9. ASSUME NEW a \in ScanBlocks, a # b PROVE PhaseInv(a)' /\ CellsInv(a)'
  <2>1. phase'[a] = phase[a] /\ temp'[a] = temp[a] BY <1>0, <1>2, <1>9
  <2>2. PhaseInv(a)' BY <1>2, <1>5, <2>1 DEF PhaseInv
  <2>3. SumOf(a)' = SumOf(a)
    BY <1>0, <1>5 DEF SumOf, ScanOf, Before, Flagged, BlockStart
  <2>4. Levels' = Levels BY <1>0 DEF Levels
  <2>5. \A x : Rank(x)' = Rank(x) BY <2>4 DEF Rank
  <2>6. \A k, x : Val(SumOf(a), k, x)' = Val(SumOf(a), k, x)
    BY <2>3, <2>4, <2>5 DEF Val, UpSum, DownSum
  <2>7. \A k, x : Own(k, x)' = Own(k, x) BY <1>5, <2>4 DEF Own
  <2>8. CellsInv(a) BY <1>2
  <2>9. CellsInv(a)' BY <1>5, <2>1, <2>6, <2>7, <2>8 DEF CellsInv, CellsIn
  <2>10. QED BY <2>2, <2>9
<1>10. \A a \in ScanBlocks : StoredInv(a)' BY <1>0, <1>1, <1>3, StoredAfter
<1>11. FlagsType' BY <1>0, <1>1 DEF PassType, FlagsType, Pixels
<1>12. prefix' \in [Pixels -> Int] /\ blockSumsScanned' \in [Pixels -> Int]
       /\ blockSums' \in [Pixels -> Int]
  <2>1. \A out \in [Pixels -> Int] : q = LastPhase => Stored(out, b, t) \in [Pixels -> Int]
    <3> SUFFICES ASSUME NEW out \in [Pixels -> Int], q = LastPhase
                 PROVE  Stored(out, b, t) \in [Pixels -> Int]
      OBVIOUS
    <3>1. ASSUME NEW i \in Pixels,
                 i \in {b * BLOCK_SIZE * 2 + t, b * BLOCK_SIZE * 2 + t + BLOCK_SIZE}
          PROVE  temp[b][i - b * BLOCK_SIZE * 2] \in Int
      <4>1. PICK s \in Nat : s = b * BLOCK_SIZE * 2 BY <1>3, <1>4
      <4>2. t \in 0 .. BLOCK_SIZE - 1 BY <1>3 DEF BlockThreads
      <4>3. i - s \in 0 .. 2 * BLOCK_SIZE - 1 BY <1>4, <3>1, <4>1, <4>2
      <4>4. QED BY <1>2, <1>3, <4>1, <4>3
    <3>2. QED BY <3>1 DEF Stored
  <2>2. SweptUp(temp[b], t, q)[2 * BLOCK_SIZE - 1] \in Int \/ ~ (q = ClearPhase /\ t = 0)
    <3> SUFFICES ASSUME q = ClearPhase, t = 0
                 PROVE  SweptUp(temp[b], t, q)[2 * BLOCK_SIZE - 1] \in Int
      OBVIOUS
    <3>1. b \in Nat /\ PhaseInv(b) /\ CellsInv(b) BY <1>2, <1>3, <1>4
    <3>2. SweptUp(temp[b], t, q)[2 * BLOCK_SIZE - 1] = SumOf(b)[2 * BLOCK_SIZE] - SumOf(b)[0]
      BY <1>0, <1>3, <1>4, <1>7, <3>1, ThreadPhase
    <3>3. SumOf(b) \in [0 .. 2 * BLOCK_SIZE -> Int] BY <1>4, <3>1, SumOfType
    <3>4. 2 * BLOCK_SIZE \in 0 .. 2 * BLOCK_SIZE /\ 0 \in 0 .. 2 * BLOCK_SIZE BY <1>4
    <3>5. QED BY <3>2, <3>3, <3>4
  <2>3. /\ prefix \in [Pixels -> Int] /\ blockSumsScanned \in [Pixels -> Int]
        /\ blockSums \in [Pixels -> Int]
    BY <1>1 DEF PassType
  <2>4. prefix' = prefix \/ (q = LastPhase /\ prefix' = Stored(prefix, b, t))
    BY DEF ScanThread
  <2>5. blockSumsScanned' = blockSumsScanned
        \/ (q = LastPhase /\ blockSumsScanned' = Stored(blockSumsScanned, b, t))
    BY DEF ScanThread
  <2>6. blockSums' = blockSums
        \/ (q = ClearPhase /\ t = 0 /\ blockSums' =
              [blockSums EXCEPT ![b] = SweptUp(temp[b], t, q)[2 * BLOCK_SIZE - 1]])
    BY DEF ScanThread
  <2> HIDE DEF q
  <2>7. prefix' \in [Pixels -> Int] BY <2>1, <2>3, <2>4
  <2>8. blockSumsScanned' \in [Pixels -> Int] BY <2>1, <2>3, <2>5
  <2>9. blockSums' \in [Pixels -> Int] BY <2>2, <2>3, <2>6
  <2>10. QED BY <2>7, <2>8, <2>9
<1>13. PassType' BY <1>0, <1>1, <1>11, <1>12 DEF PassType, Pixels
<1>14. RaysInv'
  <2>1. Chosen' = Chosen BY <1>0 DEF Chosen, PassRays
  <2>2. QED BY <1>0, <1>1, <2>1 DEF RaysInv
<1>15. ScanReady'
  <2>1. CASE stage = "scan" BY <1>0, <1>4, <1>11, <2>1 DEF ScanReady
  <2>2. CASE stage = "scan_sums"
    <3>1. \A a \in 0 .. NumBlocks(numActive) - 1 : SumRight(a) BY <1>4, <2>2 DEF ScanReady
    <3>2. NumBlocks(numActive)' = NumBlocks(numActive) BY <1>0, <1>5 DEF NumBlocks
    <3>3. \A a : SumRight(a)' <=> SumRight(a)
      BY <1>0, <1>5, <2>2 DEF SumRight, Before, Flagged, BlockStart
    <3>4. \A a \in (0 .. NumBlocks(numActive) - 1)' : SumRight(a)' BY <3>1, <3>2, <3>3
    <3>5. QED BY <1>0, <1>4, <1>11, <2>2, <3>4 DEF ScanReady
  <2>3. QED BY <1>0, <2>1, <2>2
<1>16. stage = "scan" /\ NumBlocks(numActive) > 1 =>
         \A a \in ScanBlocks : phase'[a][0] > ClearPhase => SumRight(a)'
  BY <1>0, <1>1, <1>3, SumAfter
<1>17. temp' \in [ScanBlocks -> [0 .. 2 * BLOCK_SIZE - 1 -> Int]]
  <2>1. temp'[b] \in [0 .. 2 * BLOCK_SIZE - 1 -> Int] BY <1>5, <1>8 DEF CellsInv
  <2>2. temp'[b] = CellsAfter(b, t) BY <1>0, <1>2, <1>3
  <2>3. QED BY <1>0, <1>2, <1>3, <2>1, <2>2
<1>18. phase' \in [ScanBlocks -> [BlockThreads -> 0 .. LastPhase + 1]]
  <2>1. q + 1 \in 0 .. LastPhase + 1 BY <1>6, <1>7
  <2> HIDE DEF q
  <2>2. [phase[b] EXCEPT ![t] = q + 1] \in [BlockThreads -> 0 .. LastPhase + 1]
    BY <1>2, <1>3, <2>1
  <2>3. phase' = [phase EXCEPT ![b] = [phase[b] EXCEPT ![t] = q + 1]] BY <1>0
  <2>4. QED BY <1>2, <2>2, <2>3
<1> HIDE DEF q
<1>19. ScanInv'
  <2>1. \A a \in ScanBlocks : PhaseInv(a)' /\ CellsInv(a)' /\ StoredInv(a)'
    BY <1>8, <1>9, <1>10
  <2>2. NumBlocks(numActive)' = NumBlocks(numActive) BY <1>0, <1>5 DEF NumBlocks
  <2>3. QED BY <1>0, <1>2, <1>5, <1>15, <1>16, <1>17, <1>18, <2>1, <2>2 DEF ScanInv
<1>20. LocalInv'
  <2>1. NumBlocks(numActive)' = NumBlocks(numActive) BY <1>0, <1>5 DEF NumBlocks
  <2>2. \A i : BlockStart(i)' = BlockStart(i) BY <1>5 DEF BlockStart
  <2>3. \A n, i : Before(n, i)' = Before(n, i) BY <1>0 DEF Before, Flagged
  <2>4. QED BY <1>0, <1>1, <1>5, <2>1, <2>2, <2>3 DEF LocalInv
<1>21. AddInv' /\ ScatterInv' BY <1>0 DEF AddInv, ScatterInv
<1>22. QED BY <1>0, <1>13, <1>14, <1>19, <1>20, <1>21 DEF PassRunning

-----------------------------------------------------------------------------
(***************************************************************************)
(* The baseline: from the sums of the blocks to the sums of all            *)
(***************************************************************************)
\* The host's loop computes the sums before the blocks.
LEMMA HostSums ==
  ASSUME blockLog \in Nat, FlagsType, numActive \in Nat \ {0},
         \A b \in 0 .. NumBlocks(numActive) - 1 : SumRight(b),
         NEW c \in 0 .. NumBlocks(numActive)
  PROVE  SumsBelow[c] = Before(numActive, BlockStart(c))
<1> DEFINE K == 0 .. NumBlocks(numActive)
           n == numActive
           Rec(h) == [b \in K |-> IF b = 0 THEN 0 ELSE h[b - 1] + blockSums[b - 1]]
           f == [b \in K |-> Before(n, BlockStart(b))]
<1>0. NumBlocks(n) \in Nat BY BlocksCover
<1>1. ASSUME NEW b \in K PROVE BlockStart(b) \in Nat /\ Before(n, BlockStart(b)) \in Nat
  <2>1. b \in Nat BY <1>0
  <2>2. QED BY <2>1, BlockStarts, FlaggedFinite
<1>2. \A b \in K : b # 0 =>
        /\ b - 1 \in K
        /\ Before(n, BlockStart(b)) = Before(n, BlockStart(b - 1)) + blockSums[b - 1]
  <2> SUFFICES ASSUME NEW b \in K, b # 0
               PROVE  /\ b - 1 \in K
                      /\ Before(n, BlockStart(b)) = Before(n, BlockStart(b - 1)) + blockSums[b - 1]
    OBVIOUS
  <2>1. b - 1 \in 0 .. NumBlocks(n) - 1 /\ b - 1 \in K /\ (b - 1) + 1 = b BY <1>0
  <2>2. blockSums[b - 1] = Before(n, BlockStart((b - 1) + 1)) - Before(n, BlockStart(b - 1))
    BY <2>1 DEF SumRight
  <2>3. Before(n, BlockStart(b)) \in Nat /\ Before(n, BlockStart(b - 1)) \in Nat BY <1>1, <2>1
  <2>4. QED BY <2>1, <2>2, <2>3
<1>3. Before(n, BlockStart(0)) = 0
  <2>1. BlockStart(0) = 0 BY BlockStarts
  <2>2. QED BY <2>1, BeforeNone
<1>4. f = Rec(f)
  <2>1. ASSUME NEW b \in K PROVE f[b] = Rec(f)[b]
    <3>1. CASE b = 0 BY <1>3, <3>1
    <3>2. CASE b # 0
      <4>1. b - 1 \in K /\ f[b] = f[b - 1] + blockSums[b - 1] BY <1>2, <3>2
      <4>2. Rec(f)[b] = f[b - 1] + blockSums[b - 1] BY <3>2
      <4>3. QED BY <4>1, <4>2
    <3>3. QED BY <3>1, <3>2
  <2>2. f = [b \in K |-> f[b]] OBVIOUS
  <2>3. Rec(f) = [b \in K |-> Rec(f)[b]] OBVIOUS
  <2> HIDE DEF f, Rec
  <2>4. QED BY <2>1, <2>2, <2>3
<1>5. \E h : h = Rec(h)
  <2> HIDE DEF f
  <2>1. QED BY <1>4
<1>6. SumsBelow = CHOOSE h : h = Rec(h) BY DEF SumsBelow
<1> HIDE DEF Rec
<1>7. SumsBelow = Rec(SumsBelow) BY <1>5, <1>6
<1>8. \A b \in K : SumsBelow[b] = IF b = 0 THEN 0 ELSE SumsBelow[b - 1] + blockSums[b - 1]
  <2>1. \A b \in K : Rec(SumsBelow)[b] = IF b = 0 THEN 0 ELSE SumsBelow[b - 1] + blockSums[b - 1]
    BY DEF Rec
  <2>2. QED BY <1>7, <2>1
<1> DEFINE S == {b \in Nat : b \in K => SumsBelow[b] = Before(n, BlockStart(b))}
<1>9. 0 \in S BY <1>3, <1>8
<1>10. ASSUME NEW b \in S PROVE b + 1 \in S
  <2> SUFFICES ASSUME b + 1 \in K PROVE SumsBelow[b + 1] = Before(n, BlockStart(b + 1))
    OBVIOUS
  <2>1. b \in K /\ (b + 1) - 1 = b /\ b + 1 # 0 BY <1>0
  <2>2. SumsBelow[b] = Before(n, BlockStart(b)) BY <2>1
  <2>3. SumsBelow[b + 1] = SumsBelow[b] + blockSums[b] BY <1>8, <2>1
  <2>4. Before(n, BlockStart(b + 1)) = Before(n, BlockStart(b)) + blockSums[b] BY <1>2, <2>1
  <2>5. QED BY <2>2, <2>3, <2>4
<1>11. S = Nat BY <1>9, <1>10, SetInduction
<1>12. c \in Nat BY <1>0
<1>13. c \in S BY <1>11, <1>12
<1>14. QED BY <1>13

\* A scan that is over has stored the sums of all items, block by block.
LEMMA ScanOver ==
  ASSUME PassType, ScanInv, stage \in {"scan", "scan_sums"}, ScanDone,
         NEW b \in ScanBlocks, NEW c \in 0 .. 2 * BLOCK_SIZE - 1, BlockStart(b) + c < Count
  PROVE  Output[BlockStart(b) + c] = ScanOf(BlockStart(b) + c) - ScanOf(BlockStart(b))
<1>1. BLOCK_SIZE \in Nat \ {0} BY ScanFacts
<1>2. StoredInv(b) /\ phase \in [ScanBlocks -> [BlockThreads -> 0 .. LastPhase + 1]]
  BY DEF ScanInv
<1>3. \A t \in BlockThreads : phase[b][t] > LastPhase BY <1>2 DEF ScanDone
<1>4. PICK t \in BlockThreads : c \in {t, t + BLOCK_SIZE}
  <2>1. CASE c < BLOCK_SIZE
    <3>1. c \in BlockThreads BY <1>1, <2>1 DEF BlockThreads
    <3>2. QED BY <3>1
  <2>2. CASE ~ (c < BLOCK_SIZE)
    <3>1. c - BLOCK_SIZE \in BlockThreads /\ c = (c - BLOCK_SIZE) + BLOCK_SIZE
      BY <1>1, <2>2 DEF BlockThreads
    <3>2. QED BY <3>1
  <2>3. QED BY <2>1, <2>2
<1>5. QED BY <1>2, <1>3, <1>4 DEF StoredInv

LEMMA SumsAllRight ==
  ASSUME PassType, ScanInv, stage = "scan", ScanDone, NumBlocks(numActive) > 1
  PROVE  \A b \in 0 .. NumBlocks(numActive) - 1 : SumRight(b)
<1> TAKE b \in 0 .. NumBlocks(numActive) - 1
<1>1. blockLog \in Nat /\ BLOCK_SIZE \in Nat \ {0} BY ScanFacts
<1>2. b \in ScanBlocks BY DEF ScanBlocks
<1>3. /\ phase \in [ScanBlocks -> [BlockThreads -> 0 .. LastPhase + 1]]
      /\ phase[b][0] > ClearPhase => SumRight(b)
  BY <1>2 DEF ScanInv
<1>4. 0 \in BlockThreads BY <1>1 DEF BlockThreads
<1>5. phase[b][0] > LastPhase /\ phase[b][0] \in 0 .. LastPhase + 1
  BY <1>2, <1>3, <1>4 DEF ScanDone
<1>6. Levels \in Nat /\ LastPhase = 2 * Levels + 1 /\ ClearPhase = Levels
  BY <1>1, BlockSize DEF LastPhase, ClearPhase
<1>7. phase[b][0] > ClearPhase BY <1>5, <1>6
<1>8. QED BY <1>3, <1>7

\* Sums within the blocks, after the scan of the flags.
LEMMA LocalSums ==
  ASSUME PassType, ScanInv, stage = "scan", ScanDone,
         NEW b \in 0 .. NumBlocks(numActive) - 1, NEW c \in 0 .. 2 * BLOCK_SIZE - 1,
         BlockStart(b) + c < numActive
  PROVE  prefix[BlockStart(b) + c] =
           Before(numActive, BlockStart(b) + c) - Before(numActive, BlockStart(b))
<1>1. b \in ScanBlocks /\ Count = numActive /\ Output = prefix
  BY DEF ScanBlocks, Count, Output
<1>2. prefix[BlockStart(b) + c] = ScanOf(BlockStart(b) + c) - ScanOf(BlockStart(b))
  BY <1>1, ScanOver
<1>3. QED BY <1>2 DEF ScanOf

\* The place of an item in its block, and the thread that looks after it.
LEMMA ItemsPlace ==
  ASSUME blockLog \in Nat, NEW n \in Nat \ {0}, NEW i \in 0 .. n - 1
  PROVE  \E b \in 0 .. NumBlocks(n) - 1 : \E t \in BlockThreads :
           \E c \in {t, t + BLOCK_SIZE} :
             i = BlockStart(b) + c /\ c \in 0 .. 2 * BLOCK_SIZE - 1
<1>1. PICK b \in Nat : \E c \in 0 .. 2 * BLOCK_SIZE - 1 : i = BlockStart(b) + c
  BY ItemsBlock
<1>2. PICK c \in 0 .. 2 * BLOCK_SIZE - 1 : i = BlockStart(b) + c BY <1>1
<1>3. BLOCK_SIZE \in Nat \ {0} BY BlockSize
<1>4. NumBlocks(n) \in Nat /\ n <= BlockStart(NumBlocks(n)) BY BlocksCover
<1>5. b < NumBlocks(n)
  <2> SUFFICES ASSUME NumBlocks(n) <= b PROVE FALSE
    BY <1>4
  <2>1. PICK k \in Nat, w \in Nat, m \in Nat :
          k = NumBlocks(n) /\ w = 2 * BLOCK_SIZE /\ b = k + m
    <3>1. b - NumBlocks(n) \in Nat /\ b = NumBlocks(n) + (b - NumBlocks(n)) BY <1>4
    <3>2. QED BY <1>3, <1>4, <3>1
  <2>2. b * w = k * w + m * w /\ k * w \in Nat /\ m * w \in Nat BY <2>1
  <2>3. BlockStart(b) = b * w /\ BlockStart(NumBlocks(n)) = k * w BY <2>1 DEF BlockStart
  <2>4. BlockStart(b) >= n BY <1>4, <2>2, <2>3
  <2>5. BlockStart(b) \in Nat BY BlockStarts
  <2>6. QED BY <1>2, <1>3, <2>4, <2>5
<1>6. b \in 0 .. NumBlocks(n) - 1 BY <1>4, <1>5
<1>7. PICK t \in BlockThreads : c \in {t, t + BLOCK_SIZE}
  <2>1. CASE c < BLOCK_SIZE
    <3>1. c \in BlockThreads BY <1>3, <2>1 DEF BlockThreads
    <3>2. QED BY <3>1
  <2>2. CASE ~ (c < BLOCK_SIZE)
    <3>1. c - BLOCK_SIZE \in BlockThreads /\ c = (c - BLOCK_SIZE) + BLOCK_SIZE
      BY <1>3, <2>2 DEF BlockThreads
    <3>2. QED BY <3>1
  <2>3. QED BY <2>1, <2>2
<1>8. QED BY <1>2, <1>6, <1>7

\* What all steps after the trace leave as it is.
SameRays ==
  UNCHANGED <<blockLog, raysBuf, flags, blockSums, goOn, numActive, prevCount>>

LEMMA SameRaysKept ==
  ASSUME PassType, RaysInv, SameRays, stage \notin {"trace", "scatter", "done"},
         stage' \in {"scan", "scan_sums", "add", "count"},
         prefix' \in [Pixels -> Int], blockSumsScanned' \in [Pixels -> Int]
  PROVE  /\ PassType' /\ RaysInv'
         /\ BLOCK_SIZE' = BLOCK_SIZE /\ BlockThreads' = BlockThreads
         /\ NumBlocks(numActive)' = NumBlocks(numActive)
         /\ \A i : BlockStart(i)' = BlockStart(i)
         /\ \A n, i : Before(n, i)' = Before(n, i)
         /\ \A i : SumRight(i)' <=> SumRight(i)
<1>1. /\ blockLog' = blockLog /\ raysBuf' = raysBuf /\ flags' = flags /\ blockSums' = blockSums
      /\ goOn' = goOn /\ numActive' = numActive /\ prevCount' = prevCount
  BY DEF SameRays
<1>2. FlagsType' BY <1>1 DEF PassType, FlagsType, Pixels
<1>3. PassType' BY <1>1, <1>2 DEF PassType, Pixels
<1>4. BLOCK_SIZE' = BLOCK_SIZE BY <1>1 DEF BLOCK_SIZE
<1>5. \A i : BlockStart(i)' = BlockStart(i) BY <1>4 DEF BlockStart
<1>6. \A n, i : Before(n, i)' = Before(n, i) BY <1>1 DEF Before, Flagged
<1>7. \A i : SumRight(i)' <=> SumRight(i) BY <1>1, <1>5, <1>6 DEF SumRight
<1>8. Chosen' = Chosen BY <1>1 DEF Chosen, PassRays
<1>9. RaysInv' BY <1>1, <1>8 DEF RaysInv
<1>10. NumBlocks(numActive)' = NumBlocks(numActive) BY <1>1, <1>4 DEF NumBlocks
<1>11. QED BY <1>3, <1>4, <1>5, <1>6, <1>7, <1>9, <1>10 DEF BlockThreads

LEMMA EndScanStep ==
  ASSUME PassRunning, EndScan
  PROVE  PassRunning'
<1> DEFINE n == numActive
           blocks == NumBlocks(numActive)
<1>1. /\ stage = "scan" /\ ScanDone /\ SameRays /\ prefix' = prefix /\ ended' = ended
      /\ blockLog' = blockLog /\ flags' = flags /\ numActive' = numActive
  BY DEF EndScan, SameRays, host
<1>2. PassType /\ RaysInv /\ ScanInv BY DEF PassRunning
<1>3. /\ blockLog \in Nat /\ n \in Nat \ {0} /\ n <= TOTAL_PIXELS
      /\ blocks \in 1 .. n /\ BLOCK_SIZE \in Nat \ {0} /\ FlagsType /\ ended = {}
  BY <1>1, <1>2, ScanFacts DEF ScanInv, ScanReady
<1>4. ASSUME NEW b \in 0 .. blocks - 1, NEW c \in 0 .. 2 * BLOCK_SIZE - 1, BlockStart(b) + c < n
      PROVE  prefix[BlockStart(b) + c] = Before(n, BlockStart(b) + c) - Before(n, BlockStart(b))
  BY <1>1, <1>2, <1>4, LocalSums
<1>5. prefix \in [Pixels -> Int] /\ blockSumsScanned \in [Pixels -> Int] BY <1>2 DEF PassType
<1>6. CASE blocks = 1 /\ stage' = "count" /\ UNCHANGED <<phase, temp, blockSumsScanned>>
  <2>1. /\ PassType' /\ RaysInv' /\ \A m, i : Before(m, i)' = Before(m, i)
    BY <1>1, <1>2, <1>5, <1>6, SameRaysKept
  <2>2. \A i \in 0 .. n - 1 : prefix[i] = Before(n, i)
    <3> TAKE i \in 0 .. n - 1
    <3>1. n <= 2 * BLOCK_SIZE BY <1>3, <1>6, BlocksCover
    <3>2. BlockStart(0) = 0 BY <1>3, BlockStarts
    <3>3. i \in 0 .. 2 * BLOCK_SIZE - 1 /\ 0 + i = i /\ i < n /\ 0 \in 0 .. blocks - 1
      BY <1>3, <1>6, <3>1
    <3>4. prefix[i] = Before(n, i) - Before(n, 0) BY <1>4, <3>2, <3>3
    <3>5. Before(n, 0) = 0 /\ Before(n, i) \in Nat BY <1>3, BeforeNone, FlaggedFinite
    <3>6. QED BY <3>4, <3>5
  <2>3. ScatterInv' BY <1>1, <1>3, <1>6, <2>1, <2>2 DEF ScatterInv, PassRays
  <2>4. ScanInv' /\ LocalInv' /\ AddInv' BY <1>6 DEF ScanInv, LocalInv, AddInv
  <2>5. QED BY <1>6, <2>1, <2>3, <2>4 DEF PassRunning
<1>7. CASE /\ blocks \in 2 .. 2 * BLOCK_SIZE
           /\ stage' = "scan_sums" /\ ScanStart(blocks, 1)
           /\ UNCHANGED blockSumsScanned
  <2>1. /\ PassType' /\ RaysInv' /\ \A m, i : Before(m, i)' = Before(m, i)
        /\ BLOCK_SIZE' = BLOCK_SIZE /\ BlockThreads' = BlockThreads
        /\ NumBlocks(numActive)' = blocks /\ \A i : BlockStart(i)' = BlockStart(i)
        /\ \A i : SumRight(i)' <=> SumRight(i)
    BY <1>1, <1>2, <1>5, <1>7, SameRaysKept
  <2>2. \A b \in 0 .. blocks - 1 : SumRight(b) BY <1>1, <1>2, <1>3, <1>7, SumsAllRight
  <2>3. ScanReady'
    <3>1. \A b \in (0 .. NumBlocks(numActive) - 1)' : SumRight(b)' BY <2>1, <2>2
    <3>2. FlagsType' BY <2>1 DEF PassType
    <3>3. QED BY <1>1, <1>3, <1>7, <3>1, <3>2 DEF ScanReady
  <2>4. Fresh'
    <3>1. ScanBlocks' = {0} BY <1>7 DEF ScanBlocks
    <3>2. 0 .. 1 - 1 = {0} OBVIOUS
    <3>3. phase' = [b \in {0} |-> [t \in BlockThreads |-> 0]]
          /\ temp' = [b \in {0} |-> [c \in 0 .. 2 * BLOCK_SIZE - 1 |-> 0]]
      BY <1>7, <3>2 DEF ScanStart, BlockThreads
    <3>4. QED BY <1>1, <1>3, <2>1, <3>1, <3>3 DEF Fresh
  <2>5. ScanStarted' BY <2>4, FreshScan, PTL
  <2>6. NumBlocks(numActive)' <= 2 * BLOCK_SIZE' BY <1>3, <1>7, <2>1
  <2>7. ScanInv' BY <1>1, <1>3, <1>7, <2>3, <2>5, <2>6 DEF ScanInv, ScanStarted
  <2>8. LocalInv' BY <1>1, <1>4, <2>1 DEF LocalInv
  <2>9. AddInv' /\ ScatterInv' BY <1>7 DEF AddInv, ScatterInv
  <2>10. QED BY <1>7, <2>1, <2>7, <2>8, <2>9 DEF PassRunning
<1>8. CASE /\ blocks > 2 * BLOCK_SIZE /\ stage' = "add"
           /\ blockSumsScanned' = [b \in DOMAIN blockSumsScanned |->
                IF b < blocks THEN SumsBelow[b] ELSE blockSumsScanned[b]]
  <2>1. blocks > 1 BY <1>3, <1>8
  <2>2. \A b \in 0 .. blocks - 1 : SumRight(b) BY <1>1, <1>2, <2>1, SumsAllRight
  <2>3. \A b \in 0 .. blocks - 1 : SumsBelow[b] = Before(n, BlockStart(b))
    <3> TAKE b \in 0 .. blocks - 1
    <3>1. b \in 0 .. blocks BY <1>3
    <3>2. QED BY <1>3, <2>2, <3>1, HostSums
  <2>4. blockSumsScanned' \in [Pixels -> Int]
    <3>1. ASSUME NEW b \in Pixels, b < blocks PROVE SumsBelow[b] \in Int
      <4>1. b \in 0 .. blocks - 1 BY <1>3, <3>1, PassesAssumption DEF Pixels
      <4>2. Before(n, BlockStart(b)) \in Nat BY <1>3, FlaggedFinite
      <4>3. QED BY <2>3, <4>1, <4>2
    <3>2. QED BY <1>5, <1>8, <3>1
  <2>5. \A b \in 0 .. blocks - 1 : blockSumsScanned'[b] = Before(n, BlockStart(b))
    <3> TAKE b \in 0 .. blocks - 1
    <3>1. b \in Pixels /\ b < blocks BY <1>3, PassesAssumption DEF Pixels
    <3>2. QED BY <1>5, <1>8, <2>3, <3>1
  <2>6. /\ PassType' /\ RaysInv' /\ \A m, i : Before(m, i)' = Before(m, i)
        /\ BLOCK_SIZE' = BLOCK_SIZE /\ BlockThreads' = BlockThreads
        /\ NumBlocks(numActive)' = blocks /\ \A i : BlockStart(i)' = BlockStart(i)
    BY <1>1, <1>2, <1>5, <1>8, <2>4, SameRaysKept
  <2>7. \A b \in 0 .. blocks - 1 : \A t \in BlockThreads : \A c \in {t, t + BLOCK_SIZE} :
          BlockStart(b) + c < n =>
            prefix[BlockStart(b) + c] = Before(n, BlockStart(b) + c) - Before(n, BlockStart(b))
    <3> TAKE b \in 0 .. blocks - 1
    <3> TAKE t \in BlockThreads
    <3> TAKE c \in {t, t + BLOCK_SIZE}
    <3>1. c \in 0 .. 2 * BLOCK_SIZE - 1 BY <1>3 DEF BlockThreads
    <3>2. QED BY <1>4, <3>1
  <2> HIDE DEF n, blocks
  <2>8. AddInv' BY <1>1, <1>3, <2>5, <2>6, <2>7 DEF AddInv, n, blocks
  <2>9. ScanInv' /\ LocalInv' /\ ScatterInv' BY <1>8 DEF ScanInv, LocalInv, ScatterInv
  <2>10. QED BY <1>8, <2>6, <2>8, <2>9 DEF PassRunning
<1>9. QED BY <1>6, <1>7, <1>8 DEF EndScan

LEMMA EndScanSumsStep ==
  ASSUME PassRunning, EndScanSums
  PROVE  PassRunning'
<1> DEFINE n == numActive
           blocks == NumBlocks(numActive)
<1>1. /\ stage = "scan_sums" /\ ScanDone /\ SameRays /\ prefix' = prefix /\ ended' = ended
      /\ blockSumsScanned' = blockSumsScanned /\ stage' = "add" /\ numActive' = numActive
  BY DEF EndScanSums, SameRays, host, memory
<1>2. PassType /\ RaysInv /\ ScanInv /\ LocalInv BY DEF PassRunning
<1>3. /\ blockLog \in Nat /\ n \in Nat \ {0} /\ n <= TOTAL_PIXELS
      /\ blocks \in 1 .. n /\ BLOCK_SIZE \in Nat \ {0} /\ ended = {}
      /\ blocks <= 2 * BLOCK_SIZE
  BY <1>1, <1>2, ScanFacts DEF ScanInv
<1>4. prefix \in [Pixels -> Int] /\ blockSumsScanned \in [Pixels -> Int] BY <1>2 DEF PassType
<1>5. \A b \in 0 .. blocks - 1 : blockSumsScanned[b] = Before(n, BlockStart(b))
  <2> TAKE b \in 0 .. blocks - 1
  <2>1. 0 \in ScanBlocks /\ Output = blockSumsScanned /\ Count = blocks
    BY <1>1 DEF ScanBlocks, Output, Count
  <2>2. BlockStart(0) = 0 BY <1>3, BlockStarts
  <2>3. b \in 0 .. 2 * BLOCK_SIZE - 1 /\ 0 + b = b /\ b < blocks /\ b \in Nat BY <1>3
  <2>4. BlockStart(0) + b = b BY <2>2, <2>3
  <2>5. Output[BlockStart(0) + b] = ScanOf(BlockStart(0) + b) - ScanOf(BlockStart(0))
    BY <1>1, <1>2, <2>1, <2>3, <2>4, ScanOver
  <2>6. ScanReady BY <1>1, <1>2 DEF ScanInv
  <2>7. ScanOf(b) \in Nat /\ ScanOf(0) = 0 BY <2>3, <2>6, ScanInput
  <2>8. blockSumsScanned[b] = ScanOf(b) BY <2>1, <2>2, <2>4, <2>5, <2>7
  <2>9. QED BY <1>1, <2>8 DEF ScanOf
<1>6. /\ PassType' /\ RaysInv' /\ \A m, i : Before(m, i)' = Before(m, i)
      /\ BLOCK_SIZE' = BLOCK_SIZE /\ BlockThreads' = BlockThreads
      /\ NumBlocks(numActive)' = blocks /\ \A i : BlockStart(i)' = BlockStart(i)
  BY <1>1, <1>2, <1>4, SameRaysKept
<1>7. \A b \in 0 .. blocks - 1 : \A t \in BlockThreads : \A c \in {t, t + BLOCK_SIZE} :
        BlockStart(b) + c < n =>
          prefix[BlockStart(b) + c] = Before(n, BlockStart(b) + c) - Before(n, BlockStart(b))
  <2> TAKE b \in 0 .. blocks - 1
  <2> TAKE t \in BlockThreads
  <2> TAKE c \in {t, t + BLOCK_SIZE}
  <2>1. c \in 0 .. 2 * BLOCK_SIZE - 1 BY <1>3 DEF BlockThreads
  <2>2. QED BY <1>1, <1>2, <2>1 DEF LocalInv
<1> HIDE DEF n, blocks
<1>8. AddInv' BY <1>1, <1>3, <1>5, <1>6, <1>7 DEF AddInv, n, blocks
<1>9. ScanInv' /\ LocalInv' /\ ScatterInv' BY <1>1 DEF ScanInv, LocalInv, ScatterInv
<1>10. QED BY <1>1, <1>6, <1>8, <1>9 DEF PassRunning

LEMMA AddStep ==
  ASSUME PassRunning, NEW b \in Pixels, NEW t \in Pixels, AddBlockSums(b, t)
  PROVE  PassRunning'
<1> DEFINE n == numActive
           B == BLOCK_SIZE
           gid == b * BLOCK_SIZE * 2 + t
<1>1. /\ stage = "add" /\ b < NumBlocks(numActive) /\ t < BLOCK_SIZE /\ gid \notin ended
      /\ SameRays /\ stage' = "add" /\ ended' = ended \cup {gid}
      /\ blockSumsScanned' = blockSumsScanned /\ numActive' = numActive
      /\ prefix' = [i \in DOMAIN prefix |->
                      IF b > 0 /\ i < numActive /\ i \in {gid, gid + B}
                      THEN prefix[i] + blockSumsScanned[b] ELSE prefix[i]]
  BY DEF AddBlockSums, SameRays, host
<1>2. PassType /\ RaysInv /\ AddInv BY DEF PassRunning
<1>3. /\ blockLog \in Nat /\ n \in Nat \ {0} /\ n <= TOTAL_PIXELS /\ BLOCK_SIZE \in Nat \ {0}
      /\ b \in Nat /\ t \in Nat /\ prefix \in [Pixels -> Int]
      /\ blockSumsScanned \in [Pixels -> Int]
  <2>1. blockLog \in Nat /\ n \in 1 .. TOTAL_PIXELS BY <1>1, <1>2 DEF PassType
  <2>2. prefix \in [Pixels -> Int] /\ blockSumsScanned \in [Pixels -> Int]
    BY <1>2 DEF PassType
  <2>3. b \in Nat /\ t \in Nat BY PassesAssumption DEF Pixels
  <2>4. BLOCK_SIZE \in Nat \ {0} BY <2>1, BlockSize
  <2>5. QED BY <2>1, <2>2, <2>3, <2>4, PassesAssumption
<1>4. NumBlocks(n) \in 1 .. n BY <1>3, BlocksCover
<1>5. b \in 0 .. NumBlocks(n) - 1 /\ t \in BlockThreads /\ t \in 0 .. B - 1
  BY <1>1, <1>3, <1>4 DEF BlockThreads
<1>6. BlockStart(b) \in Nat /\ gid = BlockStart(b) + t /\ gid + B = BlockStart(b) + (t + B)
  <2>1. BlockStart(b) \in Nat /\ BlockStart(b) = b * BLOCK_SIZE * 2 BY <1>3, BlockStarts
  <2>2. QED BY <1>3, <2>1
<1>7. prefix' \in [Pixels -> Int] BY <1>1, <1>3
<1>8. /\ PassType' /\ RaysInv' /\ \A m, i : Before(m, i)' = Before(m, i)
      /\ BLOCK_SIZE' = BLOCK_SIZE /\ BlockThreads' = BlockThreads
      /\ NumBlocks(numActive)' = NumBlocks(numActive) /\ \A i : BlockStart(i)' = BlockStart(i)
  BY <1>1, <1>2, <1>3, <1>7, SameRaysKept
<1>9. \A a \in 0 .. NumBlocks(n) - 1 :
        /\ blockSumsScanned[a] = Before(n, BlockStart(a))
        /\ \A u \in BlockThreads : \A c \in {u, u + BLOCK_SIZE} :
             BlockStart(a) + c < n =>
               prefix[BlockStart(a) + c] =
                 Before(n, BlockStart(a) + c) -
                   IF BlockStart(a) + u \in ended THEN 0 ELSE Before(n, BlockStart(a))
  BY <1>1, <1>2 DEF AddInv
<1> HIDE DEF gid, n, B
<1>10. ASSUME NEW a \in 0 .. NumBlocks(n) - 1, NEW u \in BlockThreads,
              NEW c \in {u, u + BLOCK_SIZE}, BlockStart(a) + c < n
       PROVE  prefix'[BlockStart(a) + c] =
                Before(n, BlockStart(a) + c) -
                  IF BlockStart(a) + u \in ended' THEN 0 ELSE Before(n, BlockStart(a))
  <2> DEFINE i == BlockStart(a) + c
  <2>1. a \in Nat /\ BlockStart(a) \in Nat BY <1>3, <1>4, BlockStarts
  <2>2. u \in 0 .. BLOCK_SIZE - 1 /\ u \in 0 .. 2 * BLOCK_SIZE - 1 /\ c \in 0 .. 2 * BLOCK_SIZE - 1
        /\ t \in 0 .. 2 * BLOCK_SIZE - 1 /\ t + BLOCK_SIZE \in 0 .. 2 * BLOCK_SIZE - 1
    BY <1>3, <1>5, <1>10 DEF BlockThreads, B
  <2>3. i \in Pixels /\ i < numActive
    <3>1. i < n BY <1>10
    <3>2. c \in Nat BY <1>3, <2>2
    <3>3. i \in Nat BY <2>1, <3>2
    <3>4. i \in 0 .. TOTAL_PIXELS - 1 BY <1>3, <3>1, <3>3, PassesAssumption
    <3>5. QED BY <3>1, <3>4 DEF Pixels, n
  <2>4. prefix[i] = Before(n, i) -
          IF BlockStart(a) + u \in ended THEN 0 ELSE Before(n, BlockStart(a))
    BY <1>9, <1>10
  <2>5. Before(n, i) \in Nat /\ Before(n, BlockStart(a)) \in Nat BY <1>3, FlaggedFinite
  <2>6. CASE a = b /\ u = t
    <3>1. i \in {gid, gid + B} BY <1>6, <1>10, <2>6 DEF B
    <3>2. BlockStart(a) + u = gid BY <1>6, <2>6
    <3>3. prefix[i] = Before(n, i) - Before(n, BlockStart(a)) BY <1>1, <2>4, <3>2 DEF gid
    <3>4. BlockStart(a) + u \in ended' BY <1>1, <3>2 DEF gid
    <3>5. CASE b > 0
      <4>1. prefix'[i] = prefix[i] + blockSumsScanned[b]
        BY <1>1, <1>3, <2>3, <3>1, <3>5 DEF gid, B
      <4>2. blockSumsScanned[b] = Before(n, BlockStart(a)) BY <1>9, <2>6
      <4>3. prefix'[i] = Before(n, i) BY <2>5, <3>3, <4>1, <4>2
      <4>4. QED BY <2>5, <3>4, <4>3
    <3>6. CASE ~ (b > 0)
      <4>1. prefix'[i] = prefix[i] BY <1>1, <1>3, <2>3, <3>6
      <4>2. a = 0 BY <1>3, <2>6, <3>6
      <4>3. BlockStart(a) = 0 BY <1>3, <4>2, BlockStarts
      <4>4. Before(n, BlockStart(a)) = 0 BY <1>3, <4>3, BeforeNone
      <4>5. QED BY <2>5, <3>3, <3>4, <4>1, <4>4
    <3>7. QED BY <3>5, <3>6
  <2>7. CASE ~ (a = b /\ u = t)
    <3>1. i # gid
      <4> SUFFICES ASSUME BlockStart(a) + c = BlockStart(b) + t PROVE FALSE
        BY <1>6
      <4>1. a = b /\ c = t BY <1>3, <2>1, <2>2, OneBlock
      <4>2. QED BY <1>3, <1>5, <1>10, <2>2, <2>7, <4>1 DEF B
    <3>2. i # gid + B
      <4> SUFFICES ASSUME BlockStart(a) + c = BlockStart(b) + (t + BLOCK_SIZE) PROVE FALSE
        BY <1>6 DEF B
      <4>1. a = b /\ c = t + BLOCK_SIZE BY <1>3, <2>1, <2>2, OneBlock
      <4>2. QED BY <1>3, <1>5, <1>10, <2>2, <2>7, <4>1 DEF B
    <3>3. BlockStart(a) + u # gid
      <4> SUFFICES ASSUME BlockStart(a) + u = BlockStart(b) + t PROVE FALSE
        BY <1>6
      <4>1. a = b /\ u = t BY <1>3, <2>1, <2>2, OneBlock
      <4>2. QED BY <2>7, <4>1
    <3>4. prefix'[i] = prefix[i]
      <4>1. ~ (i \in {gid, gid + B}) BY <3>1, <3>2
      <4>2. QED BY <1>1, <1>3, <2>3, <4>1 DEF gid, B
    <3>5. BlockStart(a) + u \in ended' <=> BlockStart(a) + u \in ended
      BY <1>1, <3>3 DEF gid
    <3>6. QED BY <2>4, <3>4, <3>5
  <2>8. QED BY <2>6, <2>7
<1>11. AddInv' BY <1>1, <1>8, <1>9, <1>10 DEF AddInv, n
<1>12. ScanInv' /\ LocalInv' /\ ScatterInv' BY <1>1 DEF ScanInv, LocalInv, ScatterInv
<1>13. QED BY <1>8, <1>11, <1>12 DEF PassRunning

LEMMA EndAddStep ==
  ASSUME PassRunning, EndAdd
  PROVE  PassRunning'
<1> DEFINE n == numActive
<1>1. /\ stage = "add" /\ SameRays /\ stage' = "count" /\ ended' = {}
      /\ prefix' = prefix /\ blockSumsScanned' = blockSumsScanned /\ numActive' = numActive
      /\ \A b \in 0 .. NumBlocks(numActive) - 1, t \in 0 .. BLOCK_SIZE - 1 :
           b * BLOCK_SIZE * 2 + t \in ended
  BY DEF EndAdd, SameRays, host, memory
<1>2. PassType /\ RaysInv /\ AddInv BY DEF PassRunning
<1>3. /\ blockLog \in Nat /\ n \in Nat \ {0} /\ n <= TOTAL_PIXELS
      /\ prefix \in [Pixels -> Int] /\ blockSumsScanned \in [Pixels -> Int]
  BY <1>1, <1>2, PassesAssumption DEF PassType
<1>4. /\ PassType' /\ RaysInv' /\ \A m, i : Before(m, i)' = Before(m, i)
  BY <1>1, <1>2, <1>3, SameRaysKept
<1>5. \A i \in 0 .. n - 1 : prefix[i] = Before(n, i)
  <2> TAKE i \in 0 .. n - 1
  <2>1. PICK b \in 0 .. NumBlocks(n) - 1, t \in BlockThreads :
          \E c \in {t, t + BLOCK_SIZE} : i = BlockStart(b) + c
    BY <1>3, ItemsPlace
  <2>2. PICK c \in {t, t + BLOCK_SIZE} : i = BlockStart(b) + c BY <2>1
  <2>3. NumBlocks(n) \in 1 .. n BY <1>3, BlocksCover
  <2>4. b \in Nat BY <2>3
  <2>5. BlockStart(b) = b * BLOCK_SIZE * 2 BY <1>3, <2>4, BlockStarts
  <2>6. BlockStart(b) + t \in ended BY <1>1, <2>5 DEF BlockThreads
  <2>7. i < n BY <1>3
  <2>8. prefix[i] = Before(n, i) - IF BlockStart(b) + t \in ended THEN 0 ELSE Before(n, BlockStart(b))
    BY <1>1, <1>2, <2>1, <2>2, <2>7 DEF AddInv
  <2>9. Before(n, i) \in Nat BY <1>3, FlaggedFinite
  <2>10. QED BY <2>6, <2>8, <2>9
<1>6. ScatterInv' BY <1>1, <1>4, <1>5 DEF ScatterInv, PassRays
<1>7. ScanInv' /\ LocalInv' /\ AddInv' BY <1>1 DEF ScanInv, LocalInv, AddInv
<1>8. QED BY <1>4, <1>6, <1>7 DEF PassRunning

LEMMA GetCountStep ==
  ASSUME PassRunning, GetCount
  PROVE  PassRunning'
<1> DEFINE n == numActive
           count == prefix[numActive - 1] + flags[numActive - 1]
<1>1. /\ stage = "count" /\ numActive' = count /\ prevCount' = numActive
      /\ blockLog' = blockLog /\ raysBuf' = raysBuf /\ flags' = flags /\ prefix' = prefix
      /\ blockSums' = blockSums /\ blockSumsScanned' = blockSumsScanned
      /\ ended' = ended /\ goOn' = goOn
      /\ (count > 0 /\ stage' = "scatter") \/ (~ (count > 0) /\ stage' = "done")
  BY DEF GetCount, memory
<1>2. PassType /\ RaysInv /\ ScatterInv BY DEF PassRunning
<1>3. /\ n \in Nat \ {0} /\ n <= TOTAL_PIXELS /\ FlagsType /\ n \in 1 .. TOTAL_PIXELS
  BY <1>1, <1>2, PassesAssumption DEF PassType
<1>4. count = Before(n, n)
  <2>1. PICK i \in Nat : i = n - 1 /\ i \in 0 .. n - 1 /\ i + 1 = n /\ i < n BY <1>3
  <2>2. prefix[i] = Before(n, i) BY <1>1, <1>2, <2>1 DEF ScatterInv, PassRays
  <2>3. Before(n, i + 1) = Before(n, i) + flags[i] BY <1>3, <2>1, BeforeNext
  <2>4. QED BY <2>1, <2>2, <2>3
<1>5. count \in 0 .. n
  <2>1. IsFiniteSet(0 .. n - 1) /\ Cardinality(0 .. n - 1) = n
    <3>1. 0 \in Int /\ n - 1 \in Int /\ (IF 0 > n - 1 THEN 0 ELSE n - 1 - 0 + 1) = n BY <1>3
    <3>2. QED BY <3>1, FS_Interval
  <2>2. Flagged(n, n) \in SUBSET (0 .. n - 1) BY DEF Flagged
  <2>3. Cardinality(Flagged(n, n)) <= Cardinality(0 .. n - 1) BY <2>1, <2>2, FS_Subset
  <2>4. Before(n, n) \in Nat BY <1>3, FlaggedFinite
  <2>5. QED BY <1>3, <1>4, <2>1, <2>3, <2>4 DEF Before
<1>6. FlagsType' BY <1>1, <1>3 DEF FlagsType, Pixels
<1> HIDE DEF count
<1>7. CASE ~ (count > 0) /\ stage' = "done"
  <2>1. PassType' BY <1>1, <1>2, <1>6, <1>7 DEF PassType, Pixels
  <2>2. RaysInv' BY <1>7 DEF RaysInv
  <2>3. NoScan' BY NoScanHolds, PTL
  <2>4. QED BY <1>7, <2>1, <2>2, <2>3 DEF PassRunning, NoScan
<1>8. CASE count > 0 /\ stage' = "scatter"
  <2>1. count \in 1 .. TOTAL_PIXELS BY <1>3, <1>5, <1>8, PassesAssumption
  <2>2. PassType' BY <1>1, <1>2, <1>3, <1>6, <1>8, <2>1 DEF PassType, Pixels
  <2>3. PassRays = n /\ PassRays' = n BY <1>1, <1>8 DEF PassRays
  <2>4. Chosen' = Chosen BY <1>1, <1>8, <2>3 DEF Chosen
  <2>5. RaysInv' BY <1>1, <1>2, <1>8, <2>4 DEF RaysInv
  <2>6. \A m, i : Before(m, i)' = Before(m, i) BY <1>1 DEF Before, Flagged
  <2>7. ScatterInv'
    <3>1. \A i \in 0 .. n - 1 : prefix[i] = Before(n, i) BY <1>1, <1>2, <2>3 DEF ScatterInv
    <3>2. ended = {} BY <1>1, <1>2 DEF ScatterInv
    <3>3. PICK N \in Nat : N = n BY <1>3
    <3>4. \A i \in 0 .. N - 1 : prefix'[i] = Before(N, i)' BY <1>1, <2>6, <3>1, <3>3
    <3>5. numActive' = Before(N, N)' BY <1>1, <1>4, <2>6, <3>3 DEF count
    <3>6. prevCount' = N /\ PassRays' = N BY <1>1, <2>3, <3>3
    <3>7. (\A i \in 0 .. PassRays - 1 : prefix[i] = Before(PassRays, i))' BY <3>4, <3>6
    <3>8. (numActive = Before(prevCount, prevCount))' BY <3>5, <3>6
    <3>9. ended' = {} BY <1>1, <3>2
    <3>10. QED BY <1>8, <3>7, <3>8, <3>9 DEF ScatterInv
  <2>8. ScanInv' /\ LocalInv' /\ AddInv' BY <1>8 DEF ScanInv, LocalInv, AddInv
  <2>9. QED BY <1>8, <2>2, <2>5, <2>7, <2>8 DEF PassRunning
<1>9. QED BY <1>1, <1>7, <1>8

LEMMA ScatterStep ==
  ASSUME PassRunning, NEW i \in Pixels, ScatterRay(i)
  PROVE  PassRunning'
<1> DEFINE place == prefix[i]
<1>1. /\ stage = "scatter" /\ i < prevCount /\ i \notin ended /\ stage' = "scatter"
      /\ raysBuf' = IF flags[i] = 1
                    THEN [raysBuf EXCEPT ![0][place] = raysBuf[1][i]] ELSE raysBuf
      /\ ended' = ended \cup {i} /\ blockLog' = blockLog /\ numActive' = numActive
      /\ prevCount' = prevCount /\ flags' = flags /\ prefix' = prefix
      /\ blockSums' = blockSums /\ blockSumsScanned' = blockSumsScanned /\ goOn' = goOn
  BY DEF ScatterRay, host
<1>2. PassType /\ RaysInv /\ ScatterInv BY DEF PassRunning
<1>3. PICK n \in 1 .. TOTAL_PIXELS : n = prevCount BY <1>1, <1>2 DEF PassType
<1>4. n \in Nat /\ n <= TOTAL_PIXELS /\ i \in 0 .. n - 1 /\ i \in Nat
  BY <1>1, <1>3, PassesAssumption DEF Pixels
<1>5. PassRays = n /\ PassRays' = n BY <1>1, <1>3 DEF PassRays
<1>6. \A k \in 0 .. n - 1 : prefix[k] = Before(n, k) BY <1>1, <1>2, <1>5 DEF ScatterInv
<1>7. /\ numActive = Before(n, n) /\ ended \subseteq 0 .. n - 1
      /\ \A k \in ended : flags[k] = 1 => raysBuf[0][prefix[k]] = raysBuf[1][k]
  BY <1>1, <1>2, <1>3 DEF ScatterInv
<1>8. raysBuf \in [0 .. 1 -> [Pixels -> [pixel : Int, depth : Int]]] BY <1>2 DEF PassType
<1>9. /\ raysBuf' \in [0 .. 1 -> [Pixels -> [pixel : Int, depth : Int]]]
      /\ raysBuf'[1] = raysBuf[1]
  <2> DEFINE q == raysBuf[1][i]
             row == [raysBuf[0] EXCEPT ![place] = q]
  <2>1. q \in [pixel : Int, depth : Int] BY <1>8
  <2>2. raysBuf[0] \in [Pixels -> [pixel : Int, depth : Int]] BY <1>8
  <2> HIDE DEF q, place
  <2>3. row \in [Pixels -> [pixel : Int, depth : Int]] BY <2>1, <2>2
  <2>4. [raysBuf EXCEPT ![0][place] = q] = [raysBuf EXCEPT ![0] = row] BY <1>8
  <2> HIDE DEF row
  <2>5. /\ [raysBuf EXCEPT ![0] = row] \in [0 .. 1 -> [Pixels -> [pixel : Int, depth : Int]]]
        /\ [raysBuf EXCEPT ![0] = row][1] = raysBuf[1]
    BY <1>8, <2>3
  <2>6. raysBuf' = IF flags[i] = 1 THEN [raysBuf EXCEPT ![0] = row] ELSE raysBuf
    BY <1>1, <2>4 DEF q
  <2>7. QED BY <1>8, <2>5, <2>6
<1> HIDE DEF place
<1>10. \A k \in ended' : flags[k] = 1 => raysBuf'[0][prefix[k]] = raysBuf'[1][k]
  <2>1. CASE flags[i] # 1 BY <1>1, <1>7, <2>1
  <2>2. CASE flags[i] = 1
    <3>1. place \in Pixels
      <4>1. place = Before(n, i) BY <1>4, <1>6 DEF place
      <4>2. Before(n, i) \in Nat /\ Before(n, i + 1) \in Nat BY <1>4, FlaggedFinite
      <4>3. Before(n, i) < Before(n, i + 1) BY <1>4, <2>2, BeforeMonotone
      <4>4. Before(n, i + 1) <= Before(n, n) BY <1>4, BeforeMonotone
      <4>5. Before(n, n) \in 1 .. TOTAL_PIXELS BY <1>1, <1>2, <1>7 DEF PassType
      <4>6. QED BY <4>1, <4>2, <4>3, <4>4, <4>5, PassesAssumption DEF Pixels
    <3>2. raysBuf' = [raysBuf EXCEPT ![0][place] = raysBuf[1][i]] BY <1>1, <2>2 DEF place
    <3>3. raysBuf'[0][place] = raysBuf[1][i]
          /\ \A p \in Pixels : p # place => raysBuf'[0][p] = raysBuf[0][p]
      BY <1>8, <3>1, <3>2
    <3>4. ASSUME NEW k \in ended, flags[k] = 1
          PROVE  raysBuf'[0][prefix[k]] = raysBuf[1][k]
      <4>1. k \in 0 .. n - 1 /\ k \in Nat /\ k # i /\ k < n BY <1>1, <1>4, <1>7
      <4>2. prefix[k] = Before(n, k) /\ place = Before(n, i) BY <1>4, <1>6, <4>1 DEF place
      <4>3. prefix[k] # place
        <5>1. Before(n, i) \in Nat /\ Before(n, k) \in Nat BY <1>4, FlaggedFinite
        <5>2. CASE k < i
          <6>1. Before(n, k) < Before(n, i) BY <1>4, <3>4, <4>1, <5>2, BeforeMonotone
          <6>2. QED BY <4>2, <5>1, <6>1
        <5>3. CASE i < k
          <6>1. Before(n, i) < Before(n, k) BY <1>4, <2>2, <4>1, <5>3, BeforeMonotone
          <6>2. QED BY <4>2, <5>1, <6>1
        <5>4. QED BY <1>4, <4>1, <5>2, <5>3
      <4>4. prefix[k] \in Pixels
        <5>1. Before(n, k) \in Nat /\ Before(n, k + 1) \in Nat BY <1>4, FlaggedFinite
        <5>2. Before(n, k) < Before(n, k + 1) BY <1>4, <3>4, <4>1, BeforeMonotone
        <5>3. Before(n, k + 1) <= Before(n, n) BY <1>4, <4>1, BeforeMonotone
        <5>4. Before(n, n) \in 1 .. TOTAL_PIXELS BY <1>1, <1>2, <1>7 DEF PassType
        <5>5. QED BY <4>2, <5>1, <5>2, <5>3, <5>4, PassesAssumption DEF Pixels
      <4>5. raysBuf'[0][prefix[k]] = raysBuf[0][prefix[k]] BY <3>3, <4>3, <4>4
      <4>6. QED BY <1>7, <3>4, <4>5
    <3>5. QED BY <1>1, <1>9, <3>3, <3>4 DEF place
  <2>3. QED BY <2>1, <2>2
<1>11. PassType'
  <2>1. FlagsType' BY <1>1, <1>2 DEF PassType, FlagsType, Pixels
  <2>2. QED BY <1>1, <1>2, <1>9, <2>1 DEF PassType, Pixels
<1>12. RaysInv'
  <2>1. Chosen' = Chosen BY <1>1, <1>5 DEF Chosen
  <2>2. /\ goOn = {raysBuf[1][k] : k \in Chosen}
        /\ \A k, j \in Chosen : k # j => raysBuf[1][k].pixel # raysBuf[1][j].pixel
    BY <1>1, <1>2 DEF RaysInv
  <2>3. goOn' = {raysBuf'[1][k] : k \in Chosen'} BY <1>1, <1>9, <2>1, <2>2
  <2>4. \A k, j \in Chosen' : k # j => raysBuf'[1][k].pixel # raysBuf'[1][j].pixel
    BY <1>9, <2>1, <2>2
  <2>5. QED BY <1>1, <2>3, <2>4 DEF RaysInv
<1>13. ScatterInv'
  <2>1. \A m, k : Before(m, k)' = Before(m, k) BY <1>1 DEF Before, Flagged
  <2>2. \A k \in 0 .. n - 1 : prefix'[k] = Before(n, k)' BY <1>1, <1>6, <2>1
  <2>3. numActive' = Before(n, n)' BY <1>1, <1>7, <2>1
  <2>4. prevCount' = n BY <1>1, <1>3
  <2>5. (\A k \in 0 .. PassRays - 1 : prefix[k] = Before(PassRays, k))' BY <1>5, <2>2
  <2>6. (numActive = Before(prevCount, prevCount))' BY <2>3, <2>4
  <2>7. ended' \subseteq 0 .. prevCount' - 1 BY <1>1, <1>4, <1>7, <2>4
  <2>8. (\A k \in ended : flags[k] = 1 => raysBuf[0][prefix[k]] = raysBuf[1][k])'
    BY <1>1, <1>10
  <2>9. QED BY <1>1, <2>5, <2>6, <2>7, <2>8 DEF ScatterInv
<1>14. ScanInv' /\ LocalInv' /\ AddInv' BY <1>1 DEF ScanInv, LocalInv, AddInv
<1>15. QED BY <1>11, <1>12, <1>13, <1>14 DEF PassRunning

\* When all have been scattered, each slot below the new count holds the ray that
\* Before names, and no other has it.
LEMMA PackedSlots ==
  ASSUME PassRunning, stage = "scatter", ended = 0 .. prevCount - 1
  PROVE  /\ \A v \in 0 .. numActive - 1 :
              \E i \in Chosen : Before(prevCount, i) = v /\ raysBuf[0][v] = raysBuf[1][i]
         /\ \A i \in Chosen : Before(prevCount, i) \in 0 .. numActive - 1
                              /\ raysBuf[0][Before(prevCount, i)] = raysBuf[1][i]
         /\ Chosen = Flagged(prevCount, prevCount)
<1>1. PassType /\ ScatterInv BY DEF PassRunning
<1>2. PICK n \in 1 .. TOTAL_PIXELS : n = prevCount BY <1>1 DEF PassType
<1>3. n \in Nat /\ n <= TOTAL_PIXELS /\ FlagsType BY <1>1, <1>2, PassesAssumption DEF PassType
<1>4. PassRays = n BY <1>2 DEF PassRays
<1>5. Chosen = {i \in 0 .. n - 1 : flags[i] = 1} BY <1>4 DEF Chosen
<1>6. \A k \in 0 .. n - 1 : prefix[k] = Before(n, k) BY <1>1, <1>4 DEF ScatterInv
<1>7. /\ numActive = Before(n, n)
      /\ \A k \in 0 .. n - 1 : flags[k] = 1 => raysBuf[0][prefix[k]] = raysBuf[1][k]
  BY <1>1, <1>2 DEF ScatterInv
<1>8. ASSUME NEW i \in Chosen
      PROVE  Before(n, i) \in 0 .. numActive - 1 /\ raysBuf[0][Before(n, i)] = raysBuf[1][i]
  <2>1. i \in 0 .. n - 1 /\ flags[i] = 1 /\ i \in Nat /\ i < n BY <1>3, <1>5
  <2>2. Before(n, i) < Before(n, n) BY <1>3, <2>1, BeforeMonotone
  <2>3. Before(n, i) \in Nat /\ Before(n, n) \in Nat BY <1>3, FlaggedFinite
  <2>4. QED BY <1>6, <1>7, <2>1, <2>2, <2>3
<1>9. ASSUME NEW v \in 0 .. numActive - 1
      PROVE  \E i \in Chosen : Before(n, i) = v /\ raysBuf[0][v] = raysBuf[1][i]
  <2>1. Before(n, n) \in Nat BY <1>3, FlaggedFinite
  <2>2. v \in Nat /\ v < Before(n, n) BY <1>7, <2>1
  <2>3. PICK i \in 0 .. n - 1 : flags[i] = 1 /\ Before(n, i) = v BY <1>3, <2>2, BeforeOnto
  <2>4. i \in Chosen BY <1>5, <2>3
  <2>5. QED BY <1>8, <2>3, <2>4
<1>10. Chosen = Flagged(n, n) BY <1>3, <1>5 DEF Flagged
<1>11. QED BY <1>2, <1>8, <1>9, <1>10

LEMMA EndScatterStep ==
  ASSUME PassRunning, EndScatter
  PROVE  PassRunning'
<1>1. /\ stage = "scatter" /\ ended = 0 .. prevCount - 1 /\ stage' = "trace" /\ ended' = {}
      /\ goOn' = {} /\ blockLog' = blockLog /\ numActive' = numActive
      /\ prevCount' = prevCount /\ raysBuf' = raysBuf /\ flags' = flags /\ prefix' = prefix
      /\ blockSums' = blockSums /\ blockSumsScanned' = blockSumsScanned
  BY DEF EndScatter, memory
<1>2. PassType /\ RaysInv BY DEF PassRunning
<1>3. PassType'
  <2>1. FlagsType' BY <1>1, <1>2 DEF PassType, FlagsType, Pixels
  <2>2. QED BY <1>1, <1>2, <2>1 DEF PassType, Pixels
<1>4. \A k, j \in Chosen : k # j => raysBuf[1][k].pixel # raysBuf[1][j].pixel
  BY <1>1, <1>2 DEF RaysInv
<1>5. Chosen' = {} BY <1>1 DEF Chosen
<1>6. ASSUME NEW u \in 0 .. numActive - 1, NEW v \in 0 .. numActive - 1, u # v
      PROVE  raysBuf[0][u].pixel # raysBuf[0][v].pixel
  <2>1. PICK i \in Chosen : Before(prevCount, i) = u /\ raysBuf[0][u] = raysBuf[1][i]
    BY <1>1, PackedSlots
  <2>2. PICK j \in Chosen : Before(prevCount, j) = v /\ raysBuf[0][v] = raysBuf[1][j]
    BY <1>1, PackedSlots
  <2>3. i # j BY <1>6, <2>1, <2>2
  <2>4. QED BY <1>4, <2>1, <2>2, <2>3
<1>7. RaysInv' BY <1>1, <1>5, <1>6 DEF RaysInv
<1>8. NoScan' BY NoScanHolds, PTL
<1>9. QED BY <1>1, <1>3, <1>7, <1>8 DEF PassRunning, NoScan

\* No two rays of a pass are alike, so that there are as many as places.
LEMMA PackedHolds ==
  ASSUME PassRunning
  PROVE  ReflectedRaysPacked
<1> SUFFICES ASSUME stage = "scatter", ended = 0 .. prevCount - 1
             PROVE  /\ {raysBuf[0][i] : i \in 0 .. numActive - 1} = goOn
                    /\ Cardinality(goOn) = numActive
  BY DEF ReflectedRaysPacked
<1>1. PassType /\ RaysInv /\ ScatterInv BY DEF PassRunning
<1>2. /\ goOn = {raysBuf[1][k] : k \in Chosen}
      /\ \A k, j \in Chosen : k # j => raysBuf[1][k].pixel # raysBuf[1][j].pixel
  BY <1>1 DEF RaysInv
<1>3. /\ \A v \in 0 .. numActive - 1 :
           \E i \in Chosen : Before(prevCount, i) = v /\ raysBuf[0][v] = raysBuf[1][i]
      /\ \A i \in Chosen : Before(prevCount, i) \in 0 .. numActive - 1
                           /\ raysBuf[0][Before(prevCount, i)] = raysBuf[1][i]
      /\ Chosen = Flagged(prevCount, prevCount)
  BY PackedSlots
<1>4. {raysBuf[0][i] : i \in 0 .. numActive - 1} = goOn
  <2>1. ASSUME NEW v \in 0 .. numActive - 1 PROVE raysBuf[0][v] \in goOn BY <1>2, <1>3
  <2>2. ASSUME NEW i \in Chosen
        PROVE  raysBuf[1][i] \in {raysBuf[0][v] : v \in 0 .. numActive - 1}
    BY <1>3
  <2>3. goOn \subseteq {raysBuf[0][v] : v \in 0 .. numActive - 1} BY <1>2, <2>2
  <2>4. QED BY <2>1, <2>3
<1>5. prevCount \in Nat /\ numActive = Before(prevCount, prevCount)
  BY <1>1, PassesAssumption DEF PassType, ScatterInv
<1>6. IsFiniteSet(Chosen) /\ Cardinality(Chosen) = numActive
  BY <1>3, <1>5, FlaggedFinite DEF Before
<1>7. Cardinality(goOn) = Cardinality(Chosen)
  <2> DEFINE f == [k \in Chosen |-> raysBuf[1][k]]
  <2>1. f \in [Chosen -> goOn] BY <1>2
  <2>2. \A k, j \in Chosen : f[k] = f[j] => k = j BY <1>2
  <2>3. \A w \in goOn : \E k \in Chosen : f[k] = w BY <1>2
  <2> HIDE DEF f
  <2>4. f \in Bijection(Chosen, goOn)
    BY <2>1, <2>2, <2>3 DEF Bijection, Injection, Surjection, IsInjective
  <2>5. ExistsBijection(Chosen, goOn) BY <2>4 DEF ExistsBijection
  <2>6. QED BY <1>6, <2>5, FS_Bijection
<1>8. QED BY <1>4, <1>6, <1>7

LEMMA PassStutters ==
  ASSUME PassRunning, UNCHANGED passVars
  PROVE  PassRunning'
<1>1. /\ stage' = stage /\ blockLog' = blockLog /\ raysBuf' = raysBuf /\ flags' = flags
      /\ prefix' = prefix /\ temp' = temp /\ blockSums' = blockSums
      /\ blockSumsScanned' = blockSumsScanned /\ phase' = phase /\ ended' = ended
      /\ numActive' = numActive /\ prevCount' = prevCount /\ goOn' = goOn
  BY DEF passVars
<1>2. BLOCK_SIZE' = BLOCK_SIZE /\ BlockThreads' = BlockThreads /\ Levels' = Levels
      /\ LastPhase' = LastPhase /\ CellIndex' = CellIndex /\ ClearPhase' = ClearPhase
      /\ NumBlocks(numActive)' = NumBlocks(numActive) /\ PassRays' = PassRays
      /\ \A i : BlockStart(i)' = BlockStart(i)
  BY <1>1 DEF BLOCK_SIZE, BlockThreads, Levels, LastPhase, CellIndex, ClearPhase, NumBlocks,
              PassRays, BlockStart
<1>3. \A n, i : Before(n, i)' = Before(n, i) BY <1>1 DEF Before, Flagged
<1>4. PassType' BY <1>1 DEF PassRunning, PassType, FlagsType, Pixels
<1>5. RaysInv'
  <2>1. Chosen' = Chosen BY <1>1, <1>2 DEF Chosen
  <2>2. QED BY <1>1, <2>1 DEF PassRunning, RaysInv
<1>6. ScanBlocks' = ScanBlocks /\ Output' = Output /\ Count' = Count
  BY <1>1, <1>2 DEF ScanBlocks, Output, Count
<1>7. \A i : ScanOf(i)' = ScanOf(i) BY <1>1, <1>2 DEF ScanOf, Before, Flagged, BlockStart
<1>8. \A b : SumOf(b)' = SumOf(b)
  BY <1>1, <1>2 DEF SumOf, ScanOf, Before, Flagged, BlockStart
<1>9. \A x : Rank(x)' = Rank(x) BY <1>2 DEF Rank
<1>10. \A k, x : Own(k, x)' = Own(k, x) BY <1>2 DEF Own
<1>11. ScanInv'
  <2>1. ASSUME NEW b
        PROVE  (PhaseInv(b) => PhaseInv(b)') /\ (CellsInv(b) => CellsInv(b)')
               /\ (StoredInv(b) => StoredInv(b)') /\ (SumRight(b) <=> SumRight(b)')
    <3>1. PhaseInv(b) => PhaseInv(b)' BY <1>1, <1>2 DEF PhaseInv
    <3>2. SumRight(b) <=> SumRight(b)' BY <1>1, <1>2 DEF SumRight, Before, Flagged, BlockStart
    <3>3. StoredInv(b) => StoredInv(b)'
      BY <1>1, <1>2, <1>6, <1>7 DEF StoredInv
    <3>4. CellsInv(b) => CellsInv(b)'
      <4>1. \A k, x : Val(SumOf(b), k, x)' = Val(SumOf(b), k, x)
        BY <1>1, <1>2, <1>8, <1>9 DEF Val, UpSum, DownSum
      <4>2. \A q : CellsIn(temp[b], phase[b], b, q)' <=> CellsIn(temp[b], phase[b], b, q)
        BY <1>1, <1>2, <1>10, <4>1 DEF CellsIn
      <4>3. QED BY <1>1, <1>2, <4>2 DEF CellsInv
    <3>5. QED BY <3>1, <3>2, <3>3, <3>4
  <2>2. ScanReady <=> ScanReady' BY <1>1, <1>2, <2>1 DEF ScanReady, FlagsType, Pixels
  <2>3. QED BY <1>1, <1>2, <1>6, <2>1, <2>2 DEF PassRunning, ScanInv
<1>12. LocalInv'
  BY <1>1, <1>2 DEF PassRunning, LocalInv, Before, Flagged, BlockStart
<1>13. AddInv'
  BY <1>1, <1>2, <1>3 DEF PassRunning, AddInv
<1>14. ScatterInv'
  BY <1>1, <1>2 DEF PassRunning, ScatterInv, Before, Flagged
<1>15. QED BY <1>4, <1>5, <1>11, <1>12, <1>13, <1>14 DEF PassRunning

LEMMA PassInvStep == PassInv /\ [RpLaunch \/ RpStep]_passVars => PassInv'
<1> SUFFICES ASSUME PassInv, [RpLaunch \/ RpStep]_passVars PROVE PassInv'
  OBVIOUS
<1>1. CASE stage = "off" /\ UNCHANGED passVars
  <2>1. RpInit BY <1>1 DEF PassInv
  <2>2. RpInit' BY <1>1, <2>1 DEF RpInit, passVars, Pixels, Stale
  <2>3. QED BY <1>1, <2>2 DEF PassInv, passVars
<1>2. CASE stage = "off" /\ RpLaunch
  <2>1. RpInit BY <1>2 DEF PassInv
  <2>2. PassRunning' BY <1>2, <2>1, LaunchStep
  <2>3. stage' # "off" BY <1>2 DEF RpLaunch
  <2>4. QED BY <2>2, <2>3 DEF PassInv
<1>3. CASE stage = "off" /\ RpStep
  <2>1. phase = <<>> BY <1>3 DEF PassInv, RpInit
  <2>2. DOMAIN phase = {} BY <2>1
  <2>3. ~ RpStep
    BY <1>3, <2>2 DEF RpStep, EndTrace, EndScan, EndScanSums, EndAdd, GetCount, EndScatter,
                      TraceRay, ScatterRay, AddBlockSums
  <2>4. QED BY <1>3, <2>3
<1>4. CASE stage # "off"
  <2>1. PassRunning BY <1>4 DEF PassInv
  <2>2. PassRunning'
    <3>1. CASE UNCHANGED passVars BY <2>1, <3>1, PassStutters
    <3>2. CASE RpLaunch BY <1>4, <3>2 DEF RpLaunch
    <3>3. CASE RpStep
      <4>1. CASE EndTrace BY <2>1, <4>1, EndTraceStep
      <4>2. CASE EndScan BY <2>1, <4>2, EndScanStep
      <4>3. CASE EndScanSums BY <2>1, <4>3, EndScanSumsStep
      <4>4. CASE EndAdd BY <2>1, <4>4, EndAddStep
      <4>5. CASE GetCount BY <2>1, <4>5, GetCountStep
      <4>6. CASE EndScatter BY <2>1, <4>6, EndScatterStep
      <4>7. ASSUME NEW i \in Pixels, TraceRay(i) PROVE PassRunning'
        BY <2>1, <4>7, TraceRayStep
      <4>8. ASSUME NEW i \in Pixels, ScatterRay(i) PROVE PassRunning'
        BY <2>1, <4>8, ScatterStep
      <4>9. ASSUME NEW b \in DOMAIN phase, NEW t \in DOMAIN phase[b], ScanThread(b, t)
            PROVE  PassRunning'
        BY <2>1, <4>9, ScanThreadStep
      <4>10. ASSUME NEW b \in Pixels, NEW t \in Pixels, AddBlockSums(b, t)
             PROVE  PassRunning'
        BY <2>1, <4>10, AddStep
      <4>11. QED BY <3>3, <4>1, <4>2, <4>3, <4>4, <4>5, <4>6, <4>7, <4>8, <4>9, <4>10 DEF RpStep
    <3>4. QED BY <3>1, <3>2, <3>3
  <2>3. stage' # "off"
    <3>1. stage' \in {"trace", "scan", "scan_sums", "add", "count", "scatter", "done"}
      BY <2>2 DEF PassRunning, PassType
    <3>2. QED BY <3>1
  <2>4. QED BY <2>2, <2>3 DEF PassInv
<1>5. QED BY <1>1, <1>2, <1>3, <1>4

\* For every number of pixels, every depth and every block size that is a power of
\* two, the compaction packs the rays that go on: each of them once and with no gap, in
\* every order in which the threads of the kernels run.
THEOREM CompactionPacks == RpSpec => []ReflectedRaysPacked
<1>1. RpInit => PassInv BY DEF RpInit, PassInv
<1>2. PassInv /\ [RpLaunch \/ RpStep]_passVars => PassInv' BY PassInvStep
<1>3. PassInv => ReflectedRaysPacked
  <2>1. CASE stage = "off" BY <2>1 DEF ReflectedRaysPacked
  <2>2. CASE stage # "off" BY <2>2, PackedHolds DEF PassInv
  <2>3. QED BY <2>1, <2>2
<1>4. QED BY <1>1, <1>2, <1>3, PTL DEF RpSpec

===============================================================================
