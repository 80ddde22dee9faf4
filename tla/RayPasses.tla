------------------------------- MODULE RayPasses ------------------------------
(***************************************************************************)
(* The baseline without queues (concurrent_rt/baselines/rt_compaction.cpp):*)
(* passes over a buffer of rays, each followed by a compaction that packs  *)
(* the rays that go on: a prefix sum of their flags (a scan per block, a   *)
(* scan of the sums of the blocks, an addition), then a scatter.           *)
(*                                                                         *)
(* The threads of a kernel run in any order.  Those of a block of the scan *)
(* meet at __syncthreads: a phase is the code between two of them.         *)
(***************************************************************************)
EXTENDS Integers, FiniteSets

CONSTANTS
  TOTAL_PIXELS,
  MAX_DEPTH,
  BlockLogs      \* BLOCK_SIZE is two to one of these

ASSUME PassesAssumption ==
  TOTAL_PIXELS \in Nat \ {0} /\ MAX_DEPTH \in Nat /\ BlockLogs \subseteq Nat

VARIABLES
  stage,         \* the kernel that runs, or what the host does
  blockLog,
  raysBuf,       \* d_rays[0] and d_rays[1]; d_rays[0] always is the current one
  flags,         \* needs_continuation
  prefix,        \* d_prefix_sum
  temp,          \* temp[b]: shared memory of block b
  blockSums,     \* d_temp1
  blockSumsScanned, \* d_temp2
  phase,         \* phase[b][t]: phases of the scan that the thread has finished
  ended,         \* threads of the kernel that have ended, where they are alike
  numActive, prevCount,   \* num_active_rays, prev_count
  depthLoop,     \* depth
  goOn           \* history: the rays that were reflected in this pass

passVars == <<stage, blockLog, raysBuf, flags, prefix, temp, blockSums,
              blockSumsScanned, phase, ended, numActive, prevCount, depthLoop, goOn>>
memory == <<raysBuf, flags, prefix, temp, blockSums, blockSumsScanned>>
host == <<blockLog, numActive, prevCount, depthLoop>>

Pixels == 0 .. TOTAL_PIXELS - 1
Stale == [pixel |-> -1, depth |-> -1]
BLOCK_SIZE == 2 ^ blockLog
NumBlocks(n) == (n + 2 * BLOCK_SIZE - 1) \div (2 * BLOCK_SIZE)

RpInit ==
  /\ stage = "off"
  /\ blockLog = 0
  /\ raysBuf = [b \in 0 .. 1 |-> [i \in Pixels |-> Stale]]
  /\ flags = [i \in Pixels |-> 0]
  /\ prefix = [i \in Pixels |-> 0]
  /\ temp = <<>> /\ phase = <<>>
  /\ blockSums = [b \in Pixels |-> 0]
  /\ blockSumsScanned = [b \in Pixels |-> 0]
  /\ ended = {}
  /\ numActive = 0 /\ prevCount = 0 /\ depthLoop = 0
  /\ goOn = {}

\* main: kernel_generate_rays, whose threads each fill one slot.
RpLaunch ==
  /\ stage = "off"
  /\ blockLog' \in BlockLogs
  /\ raysBuf' = [raysBuf EXCEPT ![0] = [i \in Pixels |-> [pixel |-> i, depth |-> 0]]]
  /\ numActive' = TOTAL_PIXELS /\ prevCount' = TOTAL_PIXELS
  /\ stage' = "trace"
  /\ UNCHANGED <<flags, prefix, temp, blockSums, blockSumsScanned, phase, ended,
                 depthLoop, goOn>>

-----------------------------------------------------------------------------
(* kernel_trace_rays                                                       *)

TraceRay(i) ==
  LET r == raysBuf[0][i] IN
  /\ stage = "trace" /\ i < numActive /\ i \notin ended
  /\ \E reflected \in {x \in BOOLEAN : x => r.depth < MAX_DEPTH} :
       /\ flags' = [flags EXCEPT ![i] = IF reflected THEN 1 ELSE 0]
       /\ raysBuf' = IF reflected
                     THEN [raysBuf EXCEPT ![1][i] = [r EXCEPT !.depth = @ + 1]]
                     ELSE raysBuf
       /\ goOn' = IF reflected THEN goOn \cup {[r EXCEPT !.depth = @ + 1]} ELSE goOn
  /\ ended' = ended \cup {i}
  /\ UNCHANGED <<stage, host, prefix, temp, blockSums, blockSumsScanned, phase>>

\* A scan starts: n items, in blocks of 2 * BLOCK_SIZE.
ScanStart(n, blocks) ==
  /\ phase' = [b \in 0 .. blocks - 1 |-> [t \in 0 .. BLOCK_SIZE - 1 |-> 0]]
  /\ temp' = [b \in 0 .. blocks - 1 |-> [c \in 0 .. 2 * BLOCK_SIZE - 1 |-> 0]]

\* The pass ends at the last depth, else its flags are scanned (prefix_sum_gpu).
EndTrace ==
  /\ stage = "trace" /\ ended = 0 .. numActive - 1
  /\ ended' = {}
  /\ IF depthLoop >= MAX_DEPTH
     THEN stage' = "done" /\ UNCHANGED <<phase, temp>>
     ELSE stage' = "scan" /\ ScanStart(numActive, NumBlocks(numActive))
  /\ UNCHANGED <<host, raysBuf, flags, prefix, blockSums, blockSumsScanned, goOn>>

-----------------------------------------------------------------------------
(* kernel_prefix_sum_local, on the flags and then on the sums of the blocks *)

Levels == blockLog + 1                 \* of the tree over 2 * BLOCK_SIZE cells
ClearPhase == Levels                   \* the last up-sweep, then the clear
LastPhase == 2 * Levels + 1            \* the store

Count == IF stage = "scan" THEN numActive ELSE NumBlocks(numActive)
Input(i) ==
  IF i >= Count THEN 0 ELSE IF stage = "scan" THEN flags[i] ELSE blockSums[i]

\* With a fault: no barrier between the levels of the down-sweep.
SyncedUpOnly(b, t) ==
  \/ phase[b][t] \in Levels + 2 .. 2 * Levels
  \/ \A u \in DOMAIN phase[b] : phase[b][u] >= phase[b][t]

\* __syncthreads: a thread starts a phase when its block has finished the last.
Synced(b, t) == \A u \in DOMAIN phase[b] : phase[b][u] >= phase[b][t]

Loaded(cells, b, t) ==
  LET gid == b * BLOCK_SIZE * 2 + t IN
  [cells EXCEPT ![t] = Input(gid), ![t + BLOCK_SIZE] = Input(gid + BLOCK_SIZE)]

\* One level of the up-sweep: d threads add, at a distance of offset.
SweptUp(cells, t, level) ==
  LET offset == 2 ^ (level - 1)
      d == BLOCK_SIZE \div offset
      ai == offset * (2 * t + 1) - 1
      bi == offset * (2 * t + 2) - 1
  IN IF t < d THEN [cells EXCEPT ![bi] = @ + cells[ai]] ELSE cells

Cleared(cells, t) ==
  IF t = 0 THEN [cells EXCEPT ![2 * BLOCK_SIZE - 1] = 0] ELSE cells

SweptDown(cells, t, level) ==
  LET d == 2 ^ (level - 1)
      offset == BLOCK_SIZE \div d
      ai == offset * (2 * t + 1) - 1
      bi == offset * (2 * t + 2) - 1
  IN IF t < d THEN [cells EXCEPT ![ai] = cells[bi], ![bi] = @ + cells[ai]] ELSE cells

CellsAfter(b, t) ==
  LET p == phase[b][t]
      up == SweptUp(temp[b], t, p)
  IN CASE p = 0 -> Loaded(temp[b], b, t)
       [] p \in 1 .. ClearPhase - 1 -> up
       [] p = ClearPhase -> Cleared(up, t)
       [] p \in ClearPhase + 1 .. LastPhase - 1 -> SweptDown(temp[b], t, p - ClearPhase)
       [] p = LastPhase -> temp[b]

\* What the thread writes to output in the last phase.
Stored(output, b, t) ==
  LET gid == b * BLOCK_SIZE * 2 IN
  [i \in DOMAIN output |->
     IF i < Count /\ i \in {gid + t, gid + t + BLOCK_SIZE} THEN temp[b][i - gid]
     ELSE output[i]]

ScanThread(b, t) ==
  LET p == phase[b][t] IN
  /\ stage \in {"scan", "scan_sums"} /\ p <= LastPhase /\ Synced(b, t)
  /\ temp' = [temp EXCEPT ![b] = CellsAfter(b, t)]
  /\ blockSums' = IF p = ClearPhase /\ t = 0 /\ stage = "scan" /\ NumBlocks(numActive) > 1
                  THEN [blockSums EXCEPT
                          ![b] = SweptUp(temp[b], t, p)[2 * BLOCK_SIZE - 1]]
                  ELSE blockSums
  /\ prefix' = IF p = LastPhase /\ stage = "scan" THEN Stored(prefix, b, t) ELSE prefix
  /\ blockSumsScanned' = IF p = LastPhase /\ stage = "scan_sums"
                         THEN Stored(blockSumsScanned, b, t) ELSE blockSumsScanned
  /\ phase' = [phase EXCEPT ![b][t] = @ + 1]
  /\ UNCHANGED <<stage, host, raysBuf, flags, ended, goOn>>

ScanDone == \A b \in DOMAIN phase : \A t \in DOMAIN phase[b] : phase[b][t] > LastPhase

\* The host's loop over the sums of the blocks: acc when it comes to block b.
SumsBelow[b \in 0 .. NumBlocks(numActive)] ==
  IF b = 0 THEN 0 ELSE SumsBelow[b - 1] + blockSums[b - 1]

\* prefix_sum_gpu: one block is enough, or its sums fit one block, or they are
\* many and the host adds them up.
EndScan ==
  LET blocks == NumBlocks(numActive)
      sums == [b \in DOMAIN blockSumsScanned |->
                 IF b < blocks THEN SumsBelow[b] ELSE blockSumsScanned[b]]
  IN /\ stage = "scan" /\ ScanDone
     /\ \/ blocks = 1 /\ stage' = "count" /\ UNCHANGED <<phase, temp, blockSumsScanned>>
        \/ /\ blocks \in 2 .. 2 * BLOCK_SIZE
           /\ stage' = "scan_sums" /\ ScanStart(blocks, 1)
           /\ UNCHANGED blockSumsScanned
        \/ /\ blocks > 2 * BLOCK_SIZE
           /\ stage' = "add" /\ blockSumsScanned' = sums
           /\ UNCHANGED <<phase, temp>>
     /\ UNCHANGED <<host, raysBuf, flags, prefix, blockSums, ended, goOn>>

EndScanSums ==
  /\ stage = "scan_sums" /\ ScanDone
  /\ stage' = "add"
  /\ UNCHANGED <<host, memory, phase, ended, goOn>>

\* kernel_add_block_sums; threads are named by the first item they look after.
AddBlockSums(b, t) ==
  LET gid == b * BLOCK_SIZE * 2 + t IN
  /\ stage = "add" /\ b < NumBlocks(numActive) /\ t < BLOCK_SIZE /\ gid \notin ended
  /\ prefix' = [i \in DOMAIN prefix |->
       IF b > 0 /\ i < numActive /\ i \in {gid, gid + BLOCK_SIZE}
       THEN prefix[i] + blockSumsScanned[b] ELSE prefix[i]]
  /\ ended' = ended \cup {gid}
  /\ UNCHANGED <<stage, host, raysBuf, flags, temp, blockSums, blockSumsScanned, phase, goOn>>

EndAdd ==
  /\ stage = "add"
  /\ \A b \in 0 .. NumBlocks(numActive) - 1, t \in 0 .. BLOCK_SIZE - 1 :
       b * BLOCK_SIZE * 2 + t \in ended
  /\ stage' = "count" /\ ended' = {}
  /\ UNCHANGED <<host, memory, phase, goOn>>

-----------------------------------------------------------------------------
(* kernel_get_count, kernel_scatter_rays and the loop of main              *)

\* depth goes up and the loop looks at its condition, after a scatter or without.
NextPass == depthLoop' = depthLoop + 1

GetCount ==
  LET count == prefix[numActive - 1] + flags[numActive - 1] IN
  /\ stage = "count"
  /\ prevCount' = numActive /\ numActive' = count
  /\ IF count > 0 THEN stage' = "scatter" /\ UNCHANGED depthLoop
                  ELSE stage' = "done" /\ NextPass
  /\ UNCHANGED <<blockLog, memory, phase, ended, goOn>>

ScatterRay(i) ==
  /\ stage = "scatter" /\ i < prevCount /\ i \notin ended
  /\ raysBuf' = IF flags[i] = 1
                THEN [raysBuf EXCEPT ![0][prefix[i]] = raysBuf[1][i]] ELSE raysBuf
  /\ ended' = ended \cup {i}
  /\ UNCHANGED <<stage, host, flags, prefix, temp, blockSums, blockSumsScanned, phase, goOn>>

EndScatter ==
  /\ stage = "scatter" /\ ended = 0 .. prevCount - 1
  /\ stage' = "trace" /\ ended' = {} /\ NextPass
  /\ goOn' = {}
  /\ UNCHANGED <<blockLog, memory, phase, numActive, prevCount>>

-----------------------------------------------------------------------------
RpStep ==
  \/ EndTrace \/ EndScan \/ EndScanSums \/ EndAdd \/ GetCount \/ EndScatter
  \/ \E i \in Pixels : TraceRay(i) \/ ScatterRay(i)
  \/ \E b \in DOMAIN phase : \E t \in DOMAIN phase[b] : ScanThread(b, t)
  \/ \E b \in Pixels, t \in Pixels : AddBlockSums(b, t)

\* A kernel that is launched runs to its end, and so does the host.
RpFairness == WF_passVars(RpStep)

-----------------------------------------------------------------------------
\* The compaction keeps every ray that was reflected in the pass, each once and
\* with no gap: when all have been scattered, the first num_active_rays slots of
\* the current buffer hold exactly these rays.
ReflectedRaysPacked ==
  stage = "scatter" /\ ended = 0 .. prevCount - 1 =>
    /\ {raysBuf[0][i] : i \in 0 .. numActive - 1} = goOn
    /\ Cardinality(goOn) = numActive

\* The loop of passes ends.
PassesEnd == (stage = "trace") ~> (stage = "done")
===============================================================================
