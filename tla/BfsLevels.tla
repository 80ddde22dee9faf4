------------------------------- MODULE BfsLevels ------------------------------
(***************************************************************************)
(* The level-synchronous search (concurrent_bfs/bfs_bench.cpp): in each    *)
(* round bfs_expand_kernel empties the queue of this level and fills that  *)
(* of the next, bfs_hub_kernel does the vertices with many neighbours, and *)
(* the host swaps the queues as long as the kernels count new vertices.    *)
(*                                                                         *)
(* The lanes of a wavefront run freely between the ballots, where all of   *)
(* them meet.  The grid is one block.  A queue is what its users count on: *)
(* a FIFO.  An enqueue on a full one is refused, or waits for room when    *)
(* q_enqueue calls the blocking operation of the queue (SFQ).              *)
(***************************************************************************)
EXTENDS Integers, Sequences, FiniteSets, FiniteSetsExt, SequencesExt

CONSTANTS
  NumWaves, WarpSize,     \* wavefronts, and lanes of each
  INLINE_DEG, HUB_DEG,    \* degrees up to, and from, which the kernels differ
  FrontierN               \* capacity of a queue

ASSUME BfsAssumption ==
  {NumWaves, WarpSize} \subseteq Nat \ {0} /\ {INLINE_DEG, HUB_DEG, FrontierN} \subseteq Nat

VARIABLES
  bfsKernel,
  blocking,   \* whether q_enqueue waits on a full queue, by the queue it is built for
  graph,      \* graph[u]: the neighbours of u, as indices lists them
  source,     \* src, where the search begins
  level,
  q_in, q_out,
  hubs,
  curr_level, frontier, reached,   \* of the host
  next_count,
  lane,       \* lane[w, l]: where it is, the edges it has to scan, what it found
  refused     \* history: the vertices whose enqueue was refused

bfsVars == <<bfsKernel, blocking, graph, source, level, q_in, q_out, hubs, curr_level,
             frontier, reached, next_count, lane, refused>>
counters == <<blocking, graph, source, curr_level, frontier, reached>>

Lanes == (0 .. NumWaves - 1) \X (0 .. WarpSize - 1)
Wave(w) == {w} \X (0 .. WarpSize - 1)
BlockDim == NumWaves * WarpSize
ThreadIdx(x) == x[1] * WarpSize + x[2]
NoVertex == -1
Vertices == DOMAIN graph

-----------------------------------------------------------------------------
(* The graphs: edges are a set of pairs, the adjacency of each vertex is   *)
(* in order (csr_from_edges of a sorted list without repetitions)          *)

csr_from_edges(V, edges) ==
  [u \in 0 .. V - 1 |->
     SetToSortSeq({v \in 0 .. V - 1 : <<u, v>> \in edges}, LAMBDA v, w : v < w)]

BothWays(edges) == edges \cup {<<e[2], e[1]>> : e \in edges}

\* Entries count from 1; those on the diagonal or outside are left out.
load_mtx(nr, nc, entries) ==
  csr_from_edges(Max({nr, nc}),
    BothWays({<<e[1] - 1, e[2] - 1>> : e \in
                {x \in entries : x[1] # x[2] /\ x[1] \in 1 .. nr /\ x[2] \in 1 .. nc}}))

\* The file counts from 0, or from 1 if no edge has a vertex 0.
load_snap(entries) ==
  LET edges == {e \in entries : e[1] # e[2]}
      named == UNION {{e[1], e[2]} : e \in edges}
      base == IF Min(named) = 1 THEN 1 ELSE 0
  IN csr_from_edges(Max(named) - base + 1,
       BothWays({<<e[1] - base, e[2] - base>> : e \in edges}))

build_grid(R, C) ==
  LET id(r, c) == r * C + c IN
  csr_from_edges(R * C, BothWays(
    {<<id(r, c), id(r + 1, c)>> : r \in 0 .. R - 2, c \in 0 .. C - 1}
      \cup {<<id(r, c), id(r, c + 1)>> : r \in 0 .. R - 1, c \in 0 .. C - 2}))

-----------------------------------------------------------------------------
Idle == [at |-> "out", u |-> NoVertex, pending |-> NoVertex, todo |-> <<>>, next |-> 0]

BfsInit ==
  /\ bfsKernel = "off" /\ blocking = FALSE
  /\ graph = <<>> /\ source = NoVertex /\ level = <<>>
  /\ q_in = <<>> /\ q_out = <<>> /\ hubs = <<>>
  /\ curr_level = 0 /\ frontier = 0 /\ reached = 0 /\ next_count = 0
  /\ lane = [x \in Lanes |-> Idle]
  /\ refused = {}

\* run_bfs up to its loop; the source is in range or replaced by 0.
BfsLaunch(g, src) ==
  /\ bfsKernel = "off"
  /\ bfsKernel' = "expand"
  /\ blocking' \in BOOLEAN
  /\ graph' = g
  /\ source' = IF src \in DOMAIN g THEN src ELSE 0
  /\ level' = [v \in DOMAIN g |-> IF v = source' THEN 0 ELSE -1]
  /\ q_in' = <<source'>>
  /\ frontier' = 1 /\ reached' = 1
  /\ lane' = [x \in Lanes |-> [Idle EXCEPT !.at = "dequeue"]]
  /\ UNCHANGED <<q_out, hubs, curr_level, next_count, refused>>

-----------------------------------------------------------------------------
(* Scanning the edges that a lane was given, in all three ways             *)

\* A lane with nothing to scan waits for the others of its wave or block.
Given(x, edges) ==
  [lane[x] EXCEPT !.todo = edges, !.at = IF edges = <<>> THEN "meet" ELSE "scan"]

\* Every n-th edge from place k on, for lane or thread k of n.
Strided(edges, k, n) ==
  [i \in 1 .. (Len(edges) + n - 1 - k) \div n |-> edges[(i - 1) * n + k + 1]]

\* With a fault: no compare-and-swap, so that two lanes may both find w new.
ScanEdgeNotAtomic(x) ==
  LET w == Head(lane[x].todo) IN
  /\ lane[x].at = "scan"
  /\ \/ /\ level[w] \in {-1, curr_level + 1}
        /\ level' = [level EXCEPT ![w] = curr_level + 1]
        /\ lane' = [lane EXCEPT ![x].at = "enqueue"]
     \/ /\ level[w] # -1
        /\ lane' = [lane EXCEPT ![x] = Given(x, Tail(lane[x].todo))]
        /\ UNCHANGED level
  /\ UNCHANGED <<bfsKernel, counters, q_in, q_out, hubs, next_count, refused>>

ScanEdge(x) ==
  LET w == Head(lane[x].todo) IN
  /\ lane[x].at = "scan"
  /\ IF level[w] = -1
     THEN /\ level' = [level EXCEPT ![w] = curr_level + 1]
          /\ lane' = [lane EXCEPT ![x].at = "enqueue"]
     ELSE /\ lane' = [lane EXCEPT ![x] = Given(x, Tail(lane[x].todo))]
          /\ UNCHANGED level
  /\ UNCHANGED <<bfsKernel, counters, q_in, q_out, hubs, next_count, refused>>

\* Nobody dequeues from q_out during a kernel: once full it stays full, and a lane
\* that waits for room waits for ever.  The answer of the queue is not looked at.
Full == Len(q_out) >= FrontierN

EnqueueFound(x) ==
  LET w == Head(lane[x].todo) IN
  /\ lane[x].at = "enqueue"
  /\ \/ ~ Full /\ q_out' = Append(q_out, w) /\ UNCHANGED refused
     \/ Full /\ ~ blocking /\ refused' = refused \cup {w} /\ UNCHANGED q_out
  /\ lane' = [lane EXCEPT ![x] = [Given(x, Tail(lane[x].todo)) EXCEPT !.next = @ + 1]]
  /\ UNCHANGED <<bfsKernel, counters, level, q_in, hubs, next_count>>

-----------------------------------------------------------------------------
(* bfs_expand_kernel                                                       *)

DequeueNone(x) ==
  /\ lane[x].at = "dequeue" /\ q_in = <<>>
  /\ lane' = [lane EXCEPT ![x].at = "meet", ![x].u = NoVertex]
  /\ UNCHANGED <<bfsKernel, counters, level, q_in, q_out, hubs, next_count, refused>>

DequeueVertex(x) ==
  LET u == Head(q_in)
      deg == Len(graph[u])
      mine == [lane[x] EXCEPT !.u = u, !.at = "meet"]
  IN /\ lane[x].at = "dequeue" /\ q_in # <<>>
     /\ q_in' = Tail(q_in)
     /\ IF deg <= INLINE_DEG
        THEN /\ lane' = [lane EXCEPT ![x] = [Given(x, graph[u]) EXCEPT !.u = u]]
             /\ UNCHANGED hubs
        ELSE IF deg >= HUB_DEG
        THEN hubs' = Append(hubs, u) /\ lane' = [lane EXCEPT ![x] = mine]
        ELSE /\ lane' = [lane EXCEPT ![x] = [mine EXCEPT !.pending = u]]
             /\ UNCHANGED hubs
     /\ UNCHANGED <<bfsKernel, counters, level, q_out, next_count, refused>>

WaveMeets(w) == bfsKernel = "expand" /\ \A x \in Wave(w) : lane[x].at = "meet"

\* The ballot on pending: the wave shares out the edges of the first owner.
ShareVertex(w) ==
  LET owners == {x \in Wave(w) : lane[x].pending # NoVertex}
      owner == CHOOSE x \in owners : \A y \in owners : x[2] <= y[2]
  IN /\ WaveMeets(w) /\ owners # {}
     /\ lane' = [x \in Lanes |->
          IF x \notin Wave(w) THEN lane[x]
          ELSE [Given(x, Strided(graph[lane[owner].pending], x[2], WarpSize))
                  EXCEPT !.pending = IF x = owner THEN NoVertex ELSE @]]
     /\ UNCHANGED <<bfsKernel, counters, level, q_in, q_out, hubs, next_count, refused>>

\* The ballot on u: the wave leaves when no lane got a vertex.
VoteExit(w) ==
  LET allEmpty == \A x \in Wave(w) : lane[x].u = NoVertex IN
  /\ WaveMeets(w) /\ \A x \in Wave(w) : lane[x].pending = NoVertex
  /\ lane' = [x \in Lanes |->
       IF x \notin Wave(w) THEN lane[x]
       ELSE [lane[x] EXCEPT !.at = IF allEmpty THEN "out" ELSE "dequeue"]]
  /\ UNCHANGED <<bfsKernel, counters, level, q_in, q_out, hubs, next_count, refused>>

-----------------------------------------------------------------------------
(* The end of a kernel, bfs_hub_kernel and the loop of run_bfs             *)

AllAt(place) == \A x \in Lanes : lane[x].at = place

\* The block adds up what its threads found by halving: in turn i thread t adds the
\* sum of thread t + s to its own, and the later turns look at the first s sums only.
s_next == [t \in 0 .. BlockDim - 1 |-> lane[<<t \div WarpSize, t % WarpSize>>].next]

Sums ==
  LET after[i \in Nat] ==
        IF i = 0 THEN s_next
        ELSE LET s == BlockDim \div 2 ^ i IN
             IF s = 0 THEN after[i - 1]
             ELSE [t \in 0 .. s - 1 |-> after[i - 1][t] + after[i - 1][t + s]]
  IN after

\* The sum of thread 0, after as many turns as are ever made.
Reduced == next_count + Sums[BlockDim][0]

ExpandEnds ==
  /\ bfsKernel = "expand" /\ AllAt("out")
  /\ next_count' = Reduced
  /\ bfsKernel' = "hub"
  /\ lane' = [x \in Lanes |-> [Idle EXCEPT !.at = "meet"]]
  /\ UNCHANGED <<counters, level, q_in, q_out, hubs, refused>>

\* The block shares out the edges of the next hub.
NextHub ==
  /\ bfsKernel = "hub" /\ AllAt("meet") /\ hubs # <<>>
  /\ hubs' = Tail(hubs)
  /\ lane' = [x \in Lanes |->
       Given(x, Strided(graph[Head(hubs)], ThreadIdx(x), BlockDim))]
  /\ UNCHANGED <<bfsKernel, counters, level, q_in, q_out, next_count, refused>>

HubsEnd ==
  /\ bfsKernel = "hub" /\ AllAt("meet") /\ hubs = <<>>
  /\ next_count' = Reduced
  /\ bfsKernel' = "host"
  /\ lane' = [x \in Lanes |-> Idle]
  /\ UNCHANGED <<counters, level, q_in, q_out, hubs, refused>>

HostSwap ==
  /\ bfsKernel = "host"
  /\ frontier' = next_count /\ reached' = reached + next_count
  /\ q_in' = q_out /\ q_out' = q_in
  /\ curr_level' = curr_level + 1
  /\ next_count' = 0
  /\ bfsKernel' = IF next_count > 0 THEN "expand" ELSE "done"
  /\ lane' = IF next_count > 0 THEN [x \in Lanes |-> [Idle EXCEPT !.at = "dequeue"]]
                               ELSE lane
  /\ UNCHANGED <<blocking, graph, source, level, hubs, refused>>

-----------------------------------------------------------------------------
LaneStep(x) == ScanEdge(x) \/ EnqueueFound(x) \/ DequeueNone(x) \/ DequeueVertex(x)
WaveStep(w) == ShareVertex(w) \/ VoteExit(w)
KernelStep == ExpandEnds \/ NextHub \/ HubsEnd \/ HostSwap

BfsStep ==
  \/ KernelStep
  \/ \E x \in Lanes : LaneStep(x)
  \/ \E w \in 0 .. NumWaves - 1 : WaveStep(w)

\* The GPU runs all the lanes of a kernel, and the host goes on after it.
BfsFairness ==
  /\ WF_bfsVars(KernelStep)
  /\ \A x \in Lanes : WF_bfsVars(LaneStep(x))
  /\ \A w \in 0 .. NumWaves - 1 : WF_bfsVars(WaveStep(w))

-----------------------------------------------------------------------------
Edge(u, v) == v \in ToSet(graph[u])

\* Reference: the vertices within n edges of the source.
Within ==
  LET within[n \in Nat] ==
        IF n = 0 THEN {source}
        ELSE LET near == within[n - 1] IN
             near \cup {v \in Vertices : \E u \in near : Edge(u, v)}
  IN within

Found == {v \in Vertices : level[v] # -1}

\* As long as no queue has refused a vertex, a level is the distance from the source,
\* at any moment of a search.
FoundAtDistance ==
  bfsKernel # "off" /\ refused = {} =>
    \A v \in Found :
      v \in Within[level[v]] /\ (level[v] > 0 => v \notin Within[level[v] - 1])

\* Besides, at the end of the search all vertices that can be reached have a level,
\* and whatever the queues refuse reached counts each vertex that has one once.  The
\* count rests on the halving sums of the block (bfs_expand_kernel, bfs_hub_kernel).
LevelsAreDistances ==
  /\ FoundAtDistance
  /\ bfsKernel = "done" => reached = Cardinality(Found)
  /\ bfsKernel = "done" /\ refused = {} => Found = Within[Cardinality(Vertices)]

\* The hang of the search on SFQ: a lane waits for room in the queue of the next level.
Hangs == blocking /\ Full /\ \E x \in Lanes : lane[x].at = "enqueue"

\* The search ends, also when a queue refuses vertices, and hangs only where the
\* enqueue of a lane waits for room that nobody will make.
BfsEnds == (bfsKernel = "expand") ~> (bfsKernel = "done" \/ Hangs)
===============================================================================
