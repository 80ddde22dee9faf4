-------------------------------- MODULE RayTrace ------------------------------
(***************************************************************************)
(* One tile of the persistent ray tracer (concurrent_rt/rt_final.cpp):     *)
(* k_generate puts the pixels of the tile in its queue, k_trace takes them *)
(* out, and a ray that is reflected goes back into the same slot of rays   *)
(* and into the same queue.  The workers leave when alive is zero.         *)
(*                                                                         *)
(* The queue is a FIFO that may refuse an enqueue at any time: it is full, *)
(* or its pool is used up (WFQ).  A plain store reaches the other workers  *)
(* at any moment up to the fence after it.  Of a ray the depth is kept.    *)
(***************************************************************************)
EXTENDS Integers, Sequences, FiniteSets, FiniteSetsExt

CONSTANTS
  RayWorkers,   \* threads_per_tile
  TilePixels,   \* tile_pixels
  max_depth,
  AliveMod      \* alive is an unsigned counter

ASSUME RayAssumption ==
  /\ RayWorkers \in Nat \ {0}
  /\ {TilePixels, max_depth, AliveMod} \subseteq Nat
  /\ TilePixels < AliveMod

VARIABLES
  rtKernel,   \* the kernel that runs
  rays,       \* rays[p]: depth of the ray in the slot of pixel p, as all can see
  unseen,     \* unseen[w]: the store of w to a slot that only w sees so far
  rayQueue,
  alive,
  worker,     \* worker[w]: where it is, its pixel, depth and count
  shaded      \* history: the depths traced for each pixel, in order

rayVars == <<rtKernel, rays, unseen, rayQueue, alive, worker, shaded>>

Workers == 0 .. RayWorkers - 1
TileSlots == 0 .. TilePixels - 1
NoRay == -1
Nothing == <<>>

RtInit ==
  /\ rtKernel = "off"
  /\ rays = [p \in TileSlots |-> NoRay]
  /\ unseen = [w \in Workers |-> Nothing]
  /\ rayQueue = <<>>
  /\ alive = 0
  /\ worker = [w \in Workers |-> [at |-> "out", pixel |-> w, depth |-> 0, count |-> 0]]
  /\ shaded = [p \in TileSlots |-> <<>>]

Goto(w, place) == worker' = [worker EXCEPT ![w].at = place]

RtLaunch ==
  /\ rtKernel = "off"
  /\ rtKernel' = "generate"
  /\ worker' = [w \in Workers |-> [worker[w] EXCEPT !.at = "next"]]
  /\ UNCHANGED <<rays, unseen, rayQueue, alive, shaded>>

-----------------------------------------------------------------------------
(* The store of a slot, and the fence after it                             *)

StoreRay(w, depth) ==
  /\ unseen' = [unseen EXCEPT ![w] = <<worker[w].pixel, depth>>]
  /\ UNCHANGED <<rtKernel, rays, rayQueue, alive, shaded>>

StoreSeen(w) ==
  /\ unseen[w] # Nothing
  /\ rays' = [rays EXCEPT ![unseen[w][1]] = unseen[w][2]]
  /\ unseen' = [unseen EXCEPT ![w] = Nothing]
  /\ UNCHANGED <<rtKernel, rayQueue, alive, worker, shaded>>

\* With a fault: the store is not waited for.
ThreadfenceMissing(w) ==
  /\ worker[w].at \in {"gen_fence", "re_fence"}
  /\ Goto(w, IF worker[w].at = "gen_fence" THEN "gen_put" ELSE "re_put")
  /\ UNCHANGED <<rtKernel, rays, unseen, rayQueue, alive, shaded>>

Threadfence(w) ==
  /\ worker[w].at \in {"gen_fence", "re_fence"}
  /\ unseen[w] = Nothing
  /\ Goto(w, IF worker[w].at = "gen_fence" THEN "gen_put" ELSE "re_put")
  /\ UNCHANGED <<rtKernel, rays, unseen, rayQueue, alive, shaded>>

RayAsSeen(w, p) ==
  IF unseen[w] # Nothing /\ unseen[w][1] = p THEN unseen[w][2] ELSE rays[p]

\* rt_enqueue_idx, which answers ok.
EnqueueIdx(p, ok) == rayQueue' = IF ok THEN Append(rayQueue, p) ELSE rayQueue

-----------------------------------------------------------------------------
(* k_generate                                                              *)

GenStore(w) ==
  /\ worker[w].at = "next" /\ worker[w].pixel < TilePixels
  /\ StoreRay(w, 0)
  /\ Goto(w, "gen_fence")

GenPut(w) ==
  /\ worker[w].at = "gen_put"
  /\ \E ok \in BOOLEAN :
       /\ EnqueueIdx(worker[w].pixel, ok)
       /\ worker' = [worker EXCEPT ![w].at = "next", ![w].pixel = @ + RayWorkers,
                                   ![w].count = IF ok THEN @ + 1 ELSE @]
  /\ UNCHANGED <<rtKernel, rays, unseen, alive, shaded>>

GenReturn(w) ==
  /\ worker[w].at = "next" /\ worker[w].pixel >= TilePixels
  /\ alive' = (alive + worker[w].count) % AliveMod
  /\ worker' = [worker EXCEPT ![w] = [at |-> "out", pixel |-> 0, depth |-> 0, count |-> 0]]
  /\ UNCHANGED <<rtKernel, rays, unseen, rayQueue, shaded>>

\* The host waits for a kernel to end before it goes on.
HostNextKernel ==
  /\ rtKernel \in {"generate", "trace"}
  /\ \A w \in Workers : worker[w].at = "out"
  /\ rtKernel' = IF rtKernel = "generate" THEN "trace" ELSE "done"
  /\ worker' = [w \in Workers |->
       [worker[w] EXCEPT !.at = IF rtKernel = "generate" THEN "load" ELSE "out"]]
  /\ UNCHANGED <<rays, unseen, rayQueue, alive, shaded>>

-----------------------------------------------------------------------------
(* k_trace                                                                 *)

TraceLoadAlive(w) ==
  /\ worker[w].at = "load"
  /\ Goto(w, IF alive = 0 THEN "out" ELSE "take")
  /\ UNCHANGED <<rtKernel, rays, unseen, rayQueue, alive, shaded>>

TraceEmpty(w) ==
  /\ worker[w].at = "take" /\ rayQueue = <<>>
  /\ Goto(w, "load")
  /\ UNCHANGED <<rtKernel, rays, unseen, rayQueue, alive, shaded>>

TraceTake(w) ==
  /\ worker[w].at = "take" /\ rayQueue # <<>>
  /\ worker' = [worker EXCEPT ![w].at = "trace", ![w].pixel = Head(rayQueue)]
  /\ rayQueue' = Tail(rayQueue)
  /\ UNCHANGED <<rtKernel, rays, unseen, alive, shaded>>

\* The scene decides whether the ray is reflected, unless it is too deep.
TraceScene(w) ==
  LET p == worker[w].pixel
      depth == RayAsSeen(w, p)
  IN /\ worker[w].at = "trace"
     /\ \E reflected \in {r \in BOOLEAN : r => depth < max_depth} :
          worker' = [worker EXCEPT ![w].at = IF reflected THEN "reflect" ELSE "end_ray",
                                   ![w].depth = depth]
     /\ shaded' = [shaded EXCEPT ![p] = Append(@, depth)]
     /\ UNCHANGED <<rtKernel, rays, unseen, rayQueue, alive>>

TraceReflect(w) ==
  /\ worker[w].at = "reflect"
  /\ StoreRay(w, worker[w].depth + 1)
  /\ Goto(w, "re_fence")

\* With a fault: alive goes down for a ray that is back in the queue.
TraceRequeueCountedOut(w) ==
  /\ worker[w].at = "re_put"
  /\ \E ok \in BOOLEAN : EnqueueIdx(worker[w].pixel, ok) /\ Goto(w, "end_ray")
  /\ UNCHANGED <<rtKernel, rays, unseen, alive, shaded>>

\* With a fault: a ray that was refused stays counted.
TraceRequeueUnchecked(w) ==
  /\ worker[w].at = "re_put"
  /\ \E ok \in BOOLEAN : EnqueueIdx(worker[w].pixel, ok) /\ Goto(w, "load")
  /\ UNCHANGED <<rtKernel, rays, unseen, alive, shaded>>

TraceRequeue(w) ==
  /\ worker[w].at = "re_put"
  /\ \E ok \in BOOLEAN :
       EnqueueIdx(worker[w].pixel, ok) /\ Goto(w, IF ok THEN "load" ELSE "end_ray")
  /\ UNCHANGED <<rtKernel, rays, unseen, alive, shaded>>

TraceEndRay(w) ==
  /\ worker[w].at = "end_ray"
  /\ alive' = (alive + AliveMod - 1) % AliveMod
  /\ Goto(w, "load")
  /\ UNCHANGED <<rtKernel, rays, unseen, rayQueue, shaded>>

-----------------------------------------------------------------------------
RtWorkerStep(w) ==
  \/ Threadfence(w) \/ GenStore(w) \/ GenPut(w) \/ GenReturn(w)
  \/ TraceLoadAlive(w) \/ TraceEmpty(w) \/ TraceTake(w) \/ TraceScene(w)
  \/ TraceReflect(w) \/ TraceRequeue(w) \/ TraceEndRay(w)

RtStep == HostNextKernel \/ \E w \in Workers : RtWorkerStep(w) \/ StoreSeen(w)

\* The ray tracer on its own.
RtSpec == RtInit /\ [][RtLaunch \/ RtStep]_rayVars

\* The GPU runs every worker of the tile, and stores do not stay unseen for ever.
RtFairness ==
  /\ WF_rayVars(HostNextKernel)
  /\ \A w \in Workers : WF_rayVars(RtWorkerStep(w)) /\ WF_rayVars(StoreSeen(w))

-----------------------------------------------------------------------------
\* Every bounce of a ray is traced once and in its turn: whoever takes a pixel
\* from the queue finds the ray that was stored for it last, not an older one.
BouncesInTurn ==
  \A p \in TileSlots : \A i \in DOMAIN shaded[p] : shaded[p][i] = i - 1

HoldsRay(w) == worker[w].at \in {"trace", "reflect", "re_fence", "re_put", "end_ray"}

\* alive counts the rays that are in the queue or in the hands of a worker, all
\* through k_trace.  So no worker leaves (alive = 0) while a ray is left, and the
\* count is back to zero when the kernel ends (rt_final.cpp, "leftover").
RaysCounted ==
  rtKernel = "trace" =>
    alive = Len(rayQueue) + Cardinality({w \in Workers : HoldsRay(w)})

\* k_trace ends: the rays run out and every worker sees it.
TraceEnds == (rtKernel = "generate") ~> (rtKernel = "done")
===============================================================================
