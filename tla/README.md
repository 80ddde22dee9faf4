# Formal model of the GPU queues

This directory holds TLA+ models of the concurrent queues of this repository and
of the programs around them, TLC configurations that check the models on small
instances, and TLAPS proofs that hold for every size.

Run a check with `tlc -config SfQueue.cfg MCSfQueue.tla` and a proof with
`tlapm SfQueueProofs.tla`. `PROJECT.json` lists components, runs, hazards, the
source lines of each definition, and theorems.

## 1. The system

Four multi-producer multi-consumer FIFO queues run inside GPU kernels and are
compared by benchmarks. Threads are GPU lanes; they share memory through atomics
only and never sleep on anything but a spin.

| Part | State | Operations | What is hard | What makes it right |
|---|---|---|---|---|
| SFQ (`sfqueue_hip.*`) | `head`, `tail`, `closed`, one item and one id a slot | blocking and non-blocking enqueue and dequeue, close | callers of several laps wait at one slot; ids wrap; non-blocking callers act on an old look at the slot; close while callers hold tickets | one user of a slot at a time; items in ticket order; `SFQ_BUSY` never spurious; waits end; close ends every wait |
| GLFQ ring (`glf_queue.hpp`, `fq_ring_t`) | `Tail`, `Head`, `Threshold`, entries with cycle, safe bit and index | `fq_enqueue`, `fq_dequeue`, `catchup` | a ticket holder finds its slot in any state: too early, too late, spoiled, still in use; modular cycles; a counter that says when to give up | no index lost or doubled; oldest first; "empty" is true at some time in the call; calls return |
| GLFQ queue (`fq_mpmc_t`) | two rings and a payload array | `fq_enqueue_ptr`, `fq_dequeue_ptr` | a cell is reused as soon as its index is back in the free ring | linearizable FIFO; one user of a cell |
| GLFQ wave batching | none of its own | `wave_batched_faa_divergent`, `cache_remap` | divergent lanes share one addition | consecutive tickets, one a lane; a permutation |
| GWFQ (`gwf_queue.hpp`, `gwf_ring.hpp`) | the ring, plus a record for each thread: request, sequence numbers, phase-2 record | fast path as GLFQ; slow path with helpers (`slow_faa`, `try_enq_slow`, `try_deq_slow`, `finalize_request`, `help_*`) | helpers act for an owner that may be gone; two-phase increment of a shared counter | no index in two places; "empty" is true at some time in the call; calls return |
| WFQ (`wfqueue_hip_opt.hpp`) | segments of cells, two indices, a request of each kind for each thread | `wf_enqueue`, `wf_dequeue`, helping | cells claimed by helpers and commits that lag behind; a request is reused; the pool runs out | every value enqueued is dequeued once, in order; the ends cover the cells in use; bounded help |
| History (`correctness/`) | one shared clock, one log a thread | two kernels, dump, FIFO check by `lincheck/main.go` | a log must mean what the checker takes it to mean | a correct queue passes |
| Throughput bench (`throughout_bench.cpp`) | queue, counters, the FIFO check's tables | timed kernels, fill and drain | consumers spin on a shared count | the check ends and accuses nobody wrongly |
| BFS (`concurrent_bfs/`) | levels, two frontier queues, hub list, counters | expand, swap, detect end | discovery races; the queue may be full | each reachable vertex expanded once at its level |
| Ray tracers (`concurrent_rt/`) | ray queue, rays, count of rays alive, image | trace, spawn, account | end of a persistent kernel; full queue | each ray traced once, the loop ends |
| Build, profiling, plots | none | | | not modelled |

Interactions: the workloads call the queues through adapters (`hist_enqueue`,
`q_enqueue` and so on); nothing calls back. The two rings of a GLFQ or GWFQ queue
hand indices to each other through the threads that use them.

## 2. Modules

| Module | Models | State and actions |
|---|---|---|
| `SfQueue` | SFQ | the fields of `sfq_queue`; per thread its step `pc`, its `ticket` and the value it carries. One action for each atomic access: `EnqTicket` is the `atomicAdd` on `tail`, `EnqPoll` one turn of the spin, `EnqRecheck` the look at `closed` in it, `EnqWrite` and `EnqPublish` the two stores; `EnqNbLoad`, `EnqNbCheck`, `EnqNbCas` the non-blocking start; the dequeue likewise |
| `TicketFifo` | what a closable FIFO queue promises its callers | `Put`, `Get`, `Return`, and the ways to fail; `SfQueue` implements it (`ImplementsFifo`) |
| `ModArith`, `SfQueueProofs` | division and remainder; proofs about `SfQueue` | section 5 |
| `GlfRing` | `fq_ring_t` and its operations, `cache_remap`, `wave_batched_faa_divergent` | the fields of `fq_ring_t`; per thread the locals of a call. One action for each atomic access: `EnqTicket`, `EnqLoad`, `EnqHead`, `EnqCas`, `EnqThreshold`, `EnqReset`; `DeqTicket`, `DeqLoad`, `DeqConsume`, `DeqCas`, `DeqTail`, `DeqRetry`, `DeqEmpty`; `Catchup...` |
| `GlfRingInv` | | the inductive invariant of a ring, whoever uses it |
| `GlfRingUse` | one ring with N indices in circulation, empty or full at first | threads that enqueue an index they hold or dequeue one |
| `GlfRingLemmas`, `GlfRingProofs` | proofs about `GlfRingInv` and about `GlfRingUse` | section 5 |
| `GlfMpmc` | `fq_mpmc_t` | two instances of `GlfRing` and the payload array |
| `GlfMpmcProofs` | proofs about `GlfMpmc` | section 5 |
| `WfQueue` | WFQ | `T`, `H`, the three words of each cell, the requests and peers of each handle; per thread the locals of `enq_slow`, `help_enq` (`own`) and `help_deq` (`scan`). One action for each atomic access: `EnqTicket`, `EnqPut`, `EnqPublish...`, `EnqBind`, `EnqClaim`, `EnqFinal`, `EnqCover`, `EnqStore` for an enqueue; `Help...` for `help_enq`; `DeqTicket`, `DeqTake`, `Slow...` for a dequeue; `Scan...` and `Settle...` for `help_deq` |
| `WfQueueUse` | threads that enqueue distinct values and dequeue them | the calls, and what each value and call has met |
| `WfQueueOrder` | | the inductive invariant about values, their cells and their order |
| `WfQueueProofs` | proofs about `WfQueueUse` and about `WfQueueOrder` | section 5 |
| `GwfRing` | the GWFQ ring and its fast path (`gwf_queue.hpp`, `try_enq`, `try_deq`, `consume`, `finalize_request`, `catchup`) | `ctr` (`Tail` and `Head` with the thread whose phase 2 is under way), `entry` with note, cycle, safe and enq bit; the records of the threads: `loc` (`localTail`, `localHead`), `req`, `p2`; per thread its locals `me`. One action for each atomic access |
| `GwfSlow` | the slow path and the helping (`gwf_ring.hpp`) | `Publish...`, `CloseRequest`, `RetireRequest` for a request; `Faa...` for `slow_faa`; `se_...` and `sd_...` places for `try_enq_slow` and `try_deq_slow`; `Help...` for `help_threads`. Owner and helpers run the same actions, for the record `job.rec` |
| `GwfUse` | one GWFQ ring with N indices in circulation | the ring new, full, or long in use with dequeuers that were stopped in the lap before |
| `GwfProofs` | proofs about `GwfUse` | section 5 |
| `WfLinLog` | `wf_linlog.hpp` and the dump | clock and logs, a record begun and ended |
| `LinCheck` | `lincheck/main.go` | the sequential queue it gives to Porcupine; Porcupine's search is external, defined by what it decides |
| `SfHistory`, `GlfHistory` | the history kernels on SFQ and GLFQ | a queue module composed with `WfLinLog`, its log judged by `LinCheck` |
| `MCHistories` | both history clients side by side | it extends `GlfHistory` and instantiates `SfHistory`; one is chosen at first, the other stands still |
| `RayTrace` | `k_generate`, `k_trace` and the host between them (`rt_final.cpp`) | `rays`, `rayQueue`, `alive`, per worker where it is and its pixel; `unseen` holds a store that only its worker sees so far |
| `RayPasses` | the baseline with compaction (`rt_compaction.cpp`) | both ray buffers, the flags, the scan of each block in shared memory with its barriers, the sums of the blocks, the scatter, the loop of passes |
| `BfsLevels` | the graphs, both kernels and the loop of `run_bfs` (`bfs_bench.cpp`) | `source`, `level`, `q_in`, `q_out`, `hubs`, `next_count`; `blocking`: whether `q_enqueue` waits on a full queue; per lane its vertex, the edges it has to scan and its finds, which the block adds by halving |
| `FifoCheck` | the FIFO check (`throughout_bench.cpp`) | tokens, `counts`, `last_seq`, `consumed`, the errors and the verdict, on a queue that may make faults |
| `WorkloadProofs` | proofs about `RayTrace`, `FifoCheck`, `BfsLevels` and `RayPasses` | section 5 |
| `Workloads` | the four programs side by side | one is launched and runs to its end |
| `MC...` | | model values and symmetry sets for TLC |

History variables (`put`, `pass`, `left`, `calls` in `SfQueue`; `lap` in
`GlfRing`; `older`, `sawEmpty`, `calls` in `GlfRingUse`; `sent`, `deqs`, `done`,
`got`, `older`, `before` in `WfQueueUse`; `spare`, `carry`, `calls`, `sawEmpty` in
`GwfUse`; `shaded` in `RayTrace`, `goOn` in `RayPasses`, `refused` in `BfsLevels`,
`entered` and `sound` in `FifoCheck`) are only read by properties, bounds and proofs.
A definition that no action uses is a slip of the code that stands in for its
neighbour in a mutant.

Conventions common to all modules. Atomics are sequentially consistent and one
access is one step; apart from `RayTrace`, where a plain store becomes visible late, a
weak memory model is outside this project. 64-bit counters do not wrap. 32-bit
tickets of SFQ, its ids, and the cycles of GLFQ and GWFQ do: `SfQueue` counts tickets
without bound and looks at them modulo `TicketMod` wherever the program does, and
`ids` and the cycles hold the program's own values. The lanes of a wavefront take
tickets one by one: `BatchIsARun` says that one addition for all active lanes gives
them the same tickets. `cache_remap` is left out of the rings: it only renames slots
when FQ_SLOTS is a multiple of eight (`RemapPermutes`). With fewer than eight
slots it would send several to one place; nothing refuses such a build.

In `WfQueue` the segments are one array of cells, so that `find_cell` is the
identity on the cells of the pool and fails beyond it (`seg` pointers only cache where
the array is; `hzdp` is written and never read). `advance_end_for_linearizability` is
one step, the maximum: its loop ends only when the counter has reached the
argument, and nothing else moves it back. `help_enq` has two callers, `deq_fast` and
`help_deq`; `Scanning(t)` tells which one a step belongs to. A handle's peers form
a ring over the threads, so threads are numbers and no symmetry is declared; the
records of GWFQ are helped in that order as well.

In `GwfRing` and `GwfSlow` the plain fields between two sequence numbers (a request, a
phase-2 record) are stored in one step and read in one: whoever reads them compares the
numbers afterwards and discards what it read when they moved. The numbers themselves, the
words of `localTail` and `localHead`, and the global word are accessed one at a time.
The two sides of a ring share the code of `slow_faa` and so its actions.

The workloads use an abstract queue, a FIFO sequence that may refuse an enqueue: at any
time in `RayTrace` (full, or the pool of WFQ used up), when it is full in
`BfsLevels`. Built for SFQ both call the blocking enqueue. In the search a lane then waits
for room in `q_out` that nobody makes before the kernel is over (bfs_bench.cpp:107-111), so
that a launch of `BfsLevels` chooses between a queue that refuses and one that waits. In the
ray tracer it never waits: `main` refuses a tile with more pixels than the queue has
slots (rt_final.cpp:734), and a pixel is in the queue once at most (`OnePlace`, section
5). A non-blocking dequeue of SFQ may also be refused although the queue is not
empty; a ray worker then looks at `alive` and at the queue again, as it does after
finding the queue empty, so that this is not a step of its own. Each program is one
launch: one tile of the ray tracer (tiles share nothing), one block of the search. Lanes
run freely between ballots and threads between barriers, where all of them meet.

Bounds that stand for time: `NotLapped` (no caller of SFQ sleeps between a load
and its compare-and-swap while the counter goes round 2^32 values) and
`WithinCycles` (no ticket of a GLFQ ring runs half the range of cycles ahead of
what a slot holds or of a thread asleep at one; the program says "8 bits = safe to
127"). Sleeps of several threads at one slot add up, so the bound on slots is
needed as well as the one on threads.

## 3. Runs

| Run | Instance | Shows |
|---|---|---|
| `SfQueue` | 2 threads, 1 slot, TicketMod 3, 2 items, 8 calls, fairness | `SlotExclusive`, `DeliveredInOrder`, `PublishedIntact`, `BusyHasReason`, the inductive invariant (with the type invariant in it), refinement of `TicketFifo`, `MatchedTicketsComplete` and `CloseReleasesWaiters`, while tickets (3) and ids (6) wrap |
| `GlfRing_wrap` | 3 threads, N = 1, 4 cycles, 6 calls, ring empty or full at first | `IndicesConserved`, `ConsumeFindsItem`, `NoneStranded`, `EmptyIsTrue` and the inductive invariant across a wrap of the cycle |
| `GlfRing_live` | 2 threads, N = 2, 8 cycles, 6 calls, fairness | `OldestFirst`, `EveryCallReturns` |
| `Histories` | SFQ: split kernel, 1 producer, 2 consumers, 2 operations each, 2 slots. GLFQ: 2 threads, N = 2, 4 calls | `SuccessesLinearizable` of SFQ; `HistoryLinearizable` and `CellExclusive` of GLFQ |
| `WfQueue_live` | 2 threads, 3 values, 2 dequeues, 12 cells, fairness | the inductive invariant of the covered ends (with the type invariant in it), `PublishedCovered`, `SpoiledCovered`, `ChaseBounded`, `EveryCallReturns` |
| `WfQueue_use` | 2 threads, 4 cells, 4 values (1 passed), 3 dequeues of either kind, requests not reused | `FifoInv`, `StoredOnce`, `DequeuedOnce`, `NoneLost`, `OldestFirst` |
| `Gwf_late` | 3 threads, N = 4, 8 cycles, 1 enqueue, 1 dequeue, fairness; ring new, full, or with 2 dequeuers stopped in the lap before | the type invariant, `NoIndexTwice`, `ConsumeFindsItem`, `EmptyIsTrue`, `RequestsGoForward`, `EveryCallReturns` |
| `Workloads` | see below, fairness | `BouncesInTurn`, `RaysCounted`, `ReflectedRaysPacked`, `LevelsAreDistances`, `VerdictSound`, `WorkloadsEnd` |
| `WfQueue_reuse`, `WfQueue_twice` | 2 threads, 3 values, requests reused | violations, section 6 |
| `Gwf_lost`, `Gwf_ticket` | as `Gwf_late`, the second with 2 dequeues | violations, section 6 |

The longest, `Workloads` and `Histories`, take two to three minutes on two cores;
`Histories` has 3.2 million states, `Gwf_late` 315 thousand with its liveness.

Bounds. One slot is where most of the conflicts of SFQ are, since all tickets
meet there. SFQ needs MaxId >= 2 (threads + 1), as its
`#error` says, so two threads need TicketMod 3 with one slot, and eight calls take the
tickets round twice. More threads and slots are the matter of the proofs, which
cover every safety property of the run.
N = 1 gives a GLFQ ring of two slots, where every third ticket meets the first
again, N = 2 order. `MaxCalls` bounds the calls made by all threads together and
is the only bound on the counters; a call in progress is never cut short, except
that a step beyond the two bounds on stalls does not happen. Deadlock is not
checked: every behaviour ends when the calls are used up or the program is done,
and on an SFQ that is empty or full blocking callers rightly wait for ever.

`EmptyIsTrue` of GLFQ holds with these threads but not for any number of them:
`Threshold` allows for 3N - 1 wasted tickets, and dequeuers that come late each count it
down, so that with 3N or more of them in flight it can run out while an item is
in. (With N = 1, four threads already reach such a state.) The algorithm this
ring comes from assumes at most N threads; `glf_queue.hpp` states no bound, while
`gwf_queue.hpp:320` does.

WFQ. `Patience` is 0, so that the first failure leads to the slow path; the
program's 16 reaches the same steps after more failures. One value has gone
through the queue before (`Passed`), because a request with id 0 is a case of its own
(section 6). Twelve cells are more than the calls can use: that `EveryCallReturns`
holds shows it, for it fails when the pool runs out. In `WfQueue_use` four cells are few
enough for the pool to run out in the middle of slow calls. `ReuseRequests` FALSE stops a
thread before its second slow enqueue, so that `WfQueue_use` shows what holds apart from
the faults that `WfQueue_reuse` and `WfQueue_twice` show. Two threads are the least that
can help each other; a helper and an owner in every order are what the slow paths are
about. With three threads `DequeuedOnce` fails when two of them settle the request of
the third (section 6); section 5 says what holds for any number.

GWFQ. The patience and the delay of help are 1, so that one failure leads to the slow
path and every call looks for somebody to help; larger values reach the same steps
later. N = 4 because `gwf_queue.hpp` asks for at least as many indices as threads and
cycles that outlast a delay. A slow path needs a slot that is in nobody's reach when its
caller comes: the ring that is long in use provides it (`InitLater`), with two dequeuers
that have taken an item and not yet marked it, and all indices but those on hand are
spare. Such a state is reached by calls of the ring itself; one call more of each
kind then already meets requests, phase 2 and help from the stopped threads. With more
calls the states are too many for the check.

Workloads. Two ray workers on three pixels, so that one has two of them, two bounces a
ray and `alive` in 8 values, as many as the rays and the workers can need. Five pixels of
the baseline fill one block, two or three, with blocks of 2 or 4 items: one block, sums
that fit a block, and sums that the host adds are all met. Two wavefronts of two lanes
search a grid of four, a hub with five neighbours in a file of seven rows, the last vertex
without edges, and a SNAP file that counts from 1. The frontier holds four vertices, so
that from the hub one is refused and from its neighbours none, or on a queue that waits
the search hangs. The block of four lanes is a power of two. The FIFO check has two
threads with two tokens each, which just fill the queue of 4 cells, a queue with up to two
faults, and garbage that decodes to a token in range and to one outside.

Fairness. Live runs assume weak fairness of each thread inside a call, and none
for starting calls: the GPU keeps resident wavefronts running, and the kernels
never launch more threads that depend on one another than are resident. The
programs rely on this themselves, SFQ by spinning. In the workloads every
worker, lane and thread of a kernel that is launched is fair, the host goes on after it,
and a store does not stay unseen for ever. Without it nothing finishes.

## 4. Properties worth a comment

- `BusyHasReason` (SFQ): a non-blocking call may be refused because the slot is
  not ready or because another caller took the ticket, never for a stale look.
- `MatchedTicketsComplete`: once `tail` and `head` are past a ticket, its item is
  returned unless the queue is closed. A closed queue abandons tickets.
- `ImplementsFifo`: an item is claimed when both of its tickets are out,
  whichever came first, so a dequeue that waits for its enqueue is a thread in the
  line `waiting` of `TicketFifo`.
- `NoneStranded` (GLFQ): an item that `head` has passed has its dequeuer under
  way. It fails when an enqueuer ignores the safe bit.
- `OldestFirst`: compares the order of calls, not of tickets: an index whose
  enqueue had returned before another's began leaves first.
- `EmptyIsTrue`: an answer "empty" is right at some instant in the call, the
  early answer from `Threshold` included.
- `HistoryLinearizable` (GLFQ): the claim "FIFO: Linearizable" of
  `glf_queue.hpp:21`, in the very form in which `lincheck/main.go` decides it.

- `PublishedCovered`, `SpoiledCovered` (WFQ): the header's two "critical fixes". If `T`
  did not cover a published value, a dequeuer could answer "empty" past it.
- `StoredOnce` (WFQ): enqueuer and helpers may each claim the request for a cell of their
  own and each commit it, and still its value gets into one cell. `DequeuedOnce`: no
  value is returned twice; besides the cells it is about the requests of dequeuers.
- `NoneLost`: when no call is under way, a value whose enqueue returned true has been
  dequeued, or lies in a cell that dequeuers have still to come to, or is bound to
  such a cell by its request, provided that no dequeuer has published a request
  (`NoneAnnounced`) and that the pool has lasted (`T <= NumCells`); section 6 says why.
  `ClaimDelivered`: a value whose cell was claimed for a
  dequeue request has reached a caller.
- `ChaseBounded`: the helping does what a wait-free queue needs it for. A slow enqueue
  is settled after a bounded number of tickets, whatever dequeuers do.
- `SuccessesLinearizable` (SFQ): whenever no call is under way, the calls that succeeded
  are those of a FIFO queue. Refused calls are left out; see section 6.

- `NoIndexTwice` (GWFQ): the owner of a request and its helpers put its index in once, and
  what a dequeuer took is gone from its slot. It fails when `try_enq_slow` does not look at the
  note: one helper then skips a slot that another fills. That no index gets lost is not
  true, see section 6.
- `ConsumeFindsItem` (GWFQ): whoever marks an entry consumed finds the index there that
  it returns, whether it came by its own ticket or by the one in `localHead`.
- `EmptyIsTrue` (GWFQ): as for GLFQ, for the slow answer as well. An index counts as being
  in the ring unless its enqueue has not returned or a dequeuer has its ticket.
- `RequestsGoForward` (GWFQ): the ticket of a published request never goes back and a
  finished one stays, though any number of threads that may have slept write it. It fails
  when a helper clears the INC mark without comparing the ticket that goes with it.

- `BouncesInTurn` (ray tracer): whoever takes a pixel from the queue finds the ray that
  was stored for it last. It is what `__threadfence` before the enqueue is for.
- `RaysCounted`: all through `k_trace` `alive` is the number of rays queued or in a
  worker's hands, so that no worker leaves too early and the kernel ends at zero.
- `ReflectedRaysPacked` (baseline): after the scatter the front of the buffer holds the
  rays that go on, each once. It fails without a barrier between the levels of the
  down-sweep.
- `LevelsAreDistances` (search): while no enqueue was refused every level is the
  distance from the source, and in the end all vertices that can be reached have one.
  Refused or not, `reached` is the number of vertices with a level, so that none is
  counted twice when lanes meet at a vertex. The loss of a vertex that was refused is not a
  violation: section 6. The first part by itself is `FoundAtDistance`.
- `VerdictSound` (FIFO check): a PASS means that every token went into the queue. It is
  about the judge, so the queue under it makes faults. What the check does not notice is
  listed in section 6.
- `WorkloadsEnd`: each program ends once launched, unless it hangs in one of three
  ways that its state shows: a lane of the search has a vertex to put in a full queue that
  waits (`Hangs`), the drain of the FIFO check has lost tokens it goes on to wait for
  (`Starved`), or doubles of a token have taken the room of a producer (`Overfull`). All
  three come up in the run. A queue without faults is not only done with but verified.

## 5. Proofs

`SfQueueProofs` proves, for every set of threads, queue length and counter width
that satisfy the assumptions of `SfQueue` (the `#error` lines of
`sfqueue_hip.hpp`: the length divides the range of tickets, MaxId >= 2 (threads + 1)),
that `Spec` implies always `IInv`, and from it `TypeOK`, `DeliveredInOrder`,
`PublishedIntact`, `SlotExclusive` and `BusyHasReason`, and that `Spec` implements
`TicketFifo` (`ImplementsFifo`).

Why `IInv` is needed: a caller decides by `ids[slot] = id`, an equation modulo
MaxId, while the properties are about real tickets. The proof counts
the hand-overs of each slot without bound (`pass`) and shows `ids = pass % MaxId`.
Then

1. each ticket that is out has one holder until its hand-over (`HeldByOne`,
   `HeldUntilTurn`), a caller that gave up on a closed queue included (`left`);
2. so the tickets that wait between `pass` and the turn of a holder belong to as
   many threads (`FewHolders`, a pigeonhole argument on finite sets);
3. so a turn is never more than 2 (threads) + 1 ahead of `pass`, less than
   MaxId, and equality modulo MaxId is equality (`EnqIdMeansTurn`, `DeqIdMeansTurn`);
4. so whoever enters a slot enters at its turn (`InSlotAtTurn`), turns determine
   tickets (`TurnUnique`), and holders are unique: `SlotExclusive`;
5. values follow tickets (`ValuesCarried`): `PublishedIntact`, `DeliveredInOrder`.

`NotPassedYet` covers the non-blocking callers, who decide before they hold a
ticket: a slot's turn cannot be past a ticket nobody has taken, and a look that
found the id stays good while the counter stands still (`ReadyUntilTaken`).
The same fact gives `BusyHasReason`: a look that finds no turn while the counter stands
still met a slot whose `pass` is short of the turn.

For the refinement, the abstract queue holds the values of the enqueue tickets that no
dequeue ticket has reached, its line `waiting` the dequeuers whose ticket no enqueue has
reached, in the order of tickets, and `hand` what the other dequeuers are going to
return. Taking a ticket is `Put` or `Get`, the last step of a call `Return`, a refusal
`FailAtOnce` or `Fail`, giving up on a closed queue `Abandon`; every other step is a
stutter. That a dequeuer returns the item in its hand is `DeliveredInOrder` once more.

`ModArith` has the facts about division and remainder. The invariant is split into
`QueueInv` and `ThreadInv(t)` so that a step of one thread leaves most of it alone
(`QuietStep`).

`GlfRingProofs` proves, for every set of threads, N and range of cycles, and for a
ring that starts empty or full, that `IInv` of `GlfRingUse` is invariant, and from
it `TypeOK`, `IndicesConserved`, `ConsumeFindsItem`, `NoneStranded` and `OldestFirst`. It
rests on the bound `WithinCycles` and on no bound on calls. What concerns a ring
whoever uses it (`GlfRingInv`) is proved in `GlfRingLemmas`, step by step, and used for
both rings of the queue as well.

Why `IInv` is needed: the program compares cycles modulo their range, and a slot
does not say how many laps it has been through. The proof keeps the lap of each slot
(`lap`) and of each ticket as plain numbers. Then

1. within half the range, the signed comparison of two cycles is the comparison of
   their laps (`ModArith`);
2. a slot's lap never goes down, and a thread between its look and its
   compare-and-swap that finds the entry unchanged finds the lap unchanged;
3. what an enqueuer saw is behind it (`LooksPast`): it takes the slot only from an
   older lap, empty, and either safe or with `head` not past its ticket;
4. a dequeuer that leaves a slot without an item leaves a mark there, the newer lap
   or the cleared safe bit, so that the enqueuer of that ticket, late, must go
   elsewhere; hence an item always lies at a ticket whose dequeuer is still to come
   or under way: `NoneStranded`;
5. each index is in one place, a slot, a thread's hand or the spare ones
   (`IndicesConserved`), and a dequeuer's consuming store meets the very item it saw
   (`ConsumeFindsItem`), because nobody but the holder of that ticket may take it;
6. `Threshold` is bounded on both sides by the calls that still count it.

For `OldestFirst` the invariant also says that `tail` is ahead of every ticket that was
used (`TailAhead`), so that a later enqueue gets a larger one, and that an index whose
enqueue had returned before another's began, as long as it is in the ring, lies at a
smaller ticket than the other does or will (`OlderAhead`). A dequeuer that returns an
index has its ticket, which `head` has passed, and so it has the older one's; by
`NoneStranded` that one's dequeuer is already on its way.

`GlfMpmcProofs` proves `CellExclusive` for every number of threads and cells. The
invariant is that of each ring, that a thread is at work in at most the ring its call has
come to, and that every index is with one thread or in one slot of one ring; a step in
one ring leaves the other as it is. The prover takes the two instances of a module for
different definitions, so that some lemmas are stated once for each ring.

`WfQueueProofs` proves, for every number of threads and cells, any patience, and whether
requests are reused or not, that `IInv` of `WfQueueUse` is invariant, and from it
`TypeOK`, `PublishedCovered` and `SpoiledCovered`. Each end is moved past a cell before
the cell is written: `T` by the ticket or by `enq_commit`, `H` by the ticket, by the
scan, or by `deq_slow` for the announced cell. So the invariant says for every place in
the code that a call which is about to write cell i has the end past it, and that
every pending request of a dequeuer announces a cell below `H` (`AnnouncedCovered`).
It is split in `SharedInv` and `ThreadInv(t)`.

It also proves what becomes of values (`WfQueueOrder`), for any number of threads and cells, while
each thread goes through `enq_slow` at most once (`~ ReuseRequests`; without that the
claims are false, see `WfQueue_twice`) and while `T` has not left the pool. `StoreInv`
says where each value is:

1. before it is published, a value is with its enqueuer alone, and so is a ticket (`FreshInv`,
   `TicketInv`);
2. a cell that is bound to a request belongs to it for good, and its value is the only one
   that gets there; a request is settled once, on a cell bound to it (`RequestsInv`,
   `CellsInv`). Hence `StoredOnce`;
3. what helpers have read of a request stays true but for its being settled (`HelpInv`);
   this is where a second use of the request would break the argument;
4. whatever was done when an enqueue began has its place below the ticket of that
   enqueue, the first one as well as any later one (`Behind`).

A step of t changes cells and requests in few ways (`Keeps(t)`), and whatever changes no
more than that keeps what the other threads know (`OthersKeep`). None of this depends on
dequeuers: theorem `StoreInvariance` allows any help among them.

For the dequeuers, `TakenInv` says that a cell below `H` is taken, in the hands of the
dequeuer with its ticket, or dead: spoiled with no request settled on it. With `StoreInv`
this gives `DequeuedOnce`, `NoneLost` and `OldestFirst` as long as no dequeuer has
published a request (`NoneAsked`; any number of enqueuers may be helped). That is the
case the fast path is for, and with requests of dequeuers the claims are false for three
threads (section 6). A request with id 0 looks like none, hence `AskAssumption`: the
first cell has been used up before, or only `wf_dequeue_bfs` is called.

`GlfRingLemmas` proves `RemapPermutes`: for every number of slots that is a multiple of
eight, no two slots share a place and every place is used; and `BatchIsARun`: the tickets
that the lanes of a wavefront compute from one addition are the consecutive values it
added, one for each active lane, in the order of the lanes.

`WorkloadProofs` proves `BouncesInTurn` and `RaysCounted` for every number of workers,
pixels and bounces, as long as the pixels of a tile are fewer than `alive` can count
(`RayAssumption`). A ray is handed on by its pixel number while what it is lies in an array,
so `BouncesInTurn` by itself says nothing about the step to come. The invariant adds:

1. a pixel is once in the queue or with one worker (`OnePlace`); in `k_generate` this holds
   because worker w goes through the pixels w, w + workers, ... (`Kernels`);
2. a store others do not see yet is to the worker's own pixel and before its fence
   (`OnlyBeforeFence`);
3. so the slot of a pixel in the queue holds its next bounce for all to see, and that of a
   pixel in hand as far as its worker can see (`NextBounce`).

For the count, a worker in `k_generate` has counted its pixels in the queue, `alive` those
of the workers that have returned, and in `k_trace` it is the length of the queue plus the
pixels in hand. Without repetitions those are no more than the pixels, so that the
counter does not wrap.

It proves `VerdictSound` as well, for every number of threads and tokens, every word
a faulty queue may give out and any number of faults: no word is in the queue, in a
thread's hand or in the counts that did not go in (`QueuedEntered`, `HeldEntered`,
`CountedEntered`), the counts stand still once the host looks (`KernelsOver`), and a PASS
means that none of them was zero (`MissingCounted`).

It proves two theorems of the search, for every graph and source, whatever the queues
refuse, and for queues that wait. `LevelsRight` is `FoundAtDistance`, for every number of
waves and lanes. `LevelsCorrect` is `LevelsAreDistances`, for every number of waves and lanes
whose block is a power of two threads (`BlockIsPowerOfTwo`). The second needs that the
block counts every find, for the host stops when the kernels count none; the code takes
any `--block` and checks none (section 6). The invariant is the same, with the counts under
that condition:

1. what waits to be expanded is of this level and what was found of the next (`LevelInv`),
   and a lane that leaves the kernel saw the queue of this level empty (`LaneInv`);
2. as long as nothing was refused, an edge from a vertex of this level to one without a level
   waits: its vertex in the queue, in the list of hubs or with a lane, or the edge itself
   among those a lane has still to scan (`WorkInv`). A wavefront shares the edges of a
   vertex out among its lanes, and each edge is with one of them (`StridedSets`). So when
   the kernels are over, the vertices with a level up to this one are those within that
   many edges (`DistInv`);
3. when a block of a power of two threads has halved its sums i times, the sum of thread t
   is that of the threads t, t + m, t + 2m and so on, where m sums are left (`FindsHalve`);
   so thread 0 has all finds in the end (`ReducedExact`);
4. then a vertex of the next level is counted already or is one of the finds of a lane that
   is still to be added (`Counted`: a token for each find), so that `reached` counts each
   once, also when lanes meet at a vertex, and the host stops at a level that has none.

Distances are defined by recursion on their length. An induction over them is one over
sets of numbers: a set with 0 and the successors of its members is all of Nat
(`SetInduction`, from the well-foundedness of Nat).

It proves `ReflectedRaysPacked` for every number of pixels and depth, every power of two as
BLOCK_SIZE, and every order of the threads between barriers:

1. the barriers keep the threads of a block within one phase of each other (`PhaseInv`);
2. after phase q of the scan the cell x - 1 holds `Val(g, q, x)`, a sum that depends on the
   highest power of two that divides x (`Rank`); a cell is written by one thread in a phase
   (`Own`), which reads only cells that nobody else writes in it. So the cells are known at
   any mix of two phases (`CellsInv`), and after the last they are the sums before each
   place of the block;
3. blocks, sums of blocks and the addition give each ray the number of rays before it
   that go on (`LocalInv`, `AddInv`, `ScatterInv`; the sums added by the host are one
   more recursion);
4. such places are one-to-one onto the first `numActive`, and rays are told apart by their
   pixels (`RaysInv`), so that nothing is overwritten or doubled.

All these theorems are about a program on its own, `RtSpec`, `FcSpec`, `BfsSpec` and
`RpSpec`; in `Workloads` the others stand still meanwhile. `BfsSpec` may launch any graph and
`RpSpec` any power of two in `BlockLogs`; the run launches a few of them.

`GwfProofs` proves `TypeOK` and `RequestsGoForward` of `GwfUse`, for every number of
threads and indices, every width of cycles, all knobs and any number of requests of each
thread, and that a helper has read one request and not two halves
(`HelpersReadOneRequest`). The invariant has a part for each kind of thing a thread may
rely on:

1. its locals fit the place it is at, in its own call or in help for another (`TriesInv`,
   `JobInv`);
2. no ticket it has in hand, or that a record holds, is ahead of the counter of its side
   (`TicketInv`, `RecordInv`). A word that is put in place of another is made from a ticket
   that was read later than the one that is compared, hence words go forward;
3. a request is open exactly between the store of `seq2` and that of `seq1`, and only its
   owner moves those (`RecordInv`);
4. so a reader that has seen `seq2` and finds `seq1` the same holds what the record
   holds (`SnapshotInv`).

A step of t leaves the locals of the others alone, moves counters and words forward and its
own records in the order of their numbers (`StepOK`), and whatever does no more keeps what
the others know (`OthersKeep`). The lemmas `PlainStep`, `RequestMildStep`, `HelpMildStep` and
`WorkStep` then ask of an action only what its own thread knows next.

With TLC only: `NoIndexTwice`, `ConsumeFindsItem` and `EmptyIsTrue` of GWFQ, whose proofs
would need what `Gwf_ticket` refutes, that no ticket is handed out twice; the histories;
`EmptyIsTrue` of GLFQ, which does not hold for every number of threads (section 3);
`DequeuedOnce` and `OldestFirst` of WFQ when dequeuers ask for help, and `ChaseBounded`;
and liveness (fairness and ENABLED are out of this prover's reach). `LinCheck` is
recursive, so nothing is proved in the modules that use it.

## 6. Findings

Each run named here ends in a violation of a claim that the code makes.

- `WfQueue_reuse`: a slow enqueue whose request was claimed for a cell returns true
  without writing the cell, unless the cell was spoiled meanwhile. The value is then only
  in the request, and the thread's next slow enqueue overwrites it.
- `WfQueue_twice`: a helper loads the state of a cell's request and then its value (382,
  385). If the owner published its next value in between, the helper stores that one in the
  old cell, and the owner's own request brings it to another: it is dequeued twice.
- `Gwf_lost`: `try_enq_slow` takes a slot that has the cycle of its ticket for one that
  is filled ("already produced", gwf_ring.hpp:703). A dequeuer that came too early gives
  the slot that cycle too (448, 736) and leaves no index. The request ends, and the index is
  nowhere.
- `Gwf_ticket`: a helper of `slow_faa` that loaded the global word during one phase 2 of a
  thread may read the thread's next phase-2 record, which is consistent (579), and clear
  the INC mark of a ticket not yet added to the counter. Its owner acts on a
  ticket that the counter gives out again, against line 511.

More scenarios follow from the same models by changing constants; no run is kept for
them.

History of SFQ (`SfHistory`, alternating kernel, two threads, one operation each, two slots,
four calls): `Checker!Linearizable(Dump)` fails. The adapter logs a dequeue that got `SFQ_BUSY`
as one that found the queue empty (history.cpp:136), and the checker rejects the history of
a queue that behaves as its interface says.

WFQ with two threads, patience 0:

- requests not reused, only `wf_dequeue`, 3 enqueues, 2 dequeues: `NoneLost` without its
  condition `NoneAnnounced` fails. A
  helper of a dequeue request that has been settled since it looked moves `H` past one more
  cell (460); a value there is behind `H` and is never dequeued.
- the same with 3 dequeues: `ClaimDelivered` fails. `help_deq` decides by `cur_deq`, read
  before its own compare-and-swap (489, 493). When another helper claims the cell for
  the same request in between, it takes the cell for somebody else's and announces
  another one, and the value of the first reaches nobody.
- three threads, requests not reused, 4 values, 3 calls of `wf_dequeue`: `DequeuedOnce`
  fails (found by following one schedule; all of them are too many). A helper reads
  `cur_deq` of the announced cell as `DEQ_NULL` (489); another helper claims that cell
  for the request; the first fails in its own compare-and-swap (492), takes the cell for
  somebody else's, and announces a later cell before the owner closes the request
  (494). The owner returns the value of the cell announced last, which nobody claimed
  for it, and so does the dequeuer with that cell's ticket; the value in the first cell
  reaches nobody.
- `NumCells = 3`, two values, two calls of `wf_dequeue_bfs`: `NoneLost` without its
  condition `T <= NumCells` fails. The pool
  runs out while a slow enqueue has its request pending; the loop ends, `final_id` is the
  last ticket that failed, and `enq_slow` (295-315) stores the value in that
  cell, which was spoiled and passed, and returns true.
- `NumCells = 4`, two values, two dequeues: `EveryCallReturns` fails. With the pool used
  up `help_deq` can go round for ever between a request nobody settles and a cell
  that is not there.
- `Passed = 0`, one value, two dequeues: `ChaseBounded` fails. `help_enq` helps only
  requests with id above 0 (350), and the first ticket of the queue is 0.

Read in the code while it was modelled, and not shown by a run:

- GWFQ: `help_enqueue` and `help_dequeue` read the request between two looks at its number,
  but go on with it later (gwf_ring.hpp:808); to act on a request that has been replaced
  takes three threads and two requests. The first note 0xFF of a slot is ahead of the
  cycles 128 to 254, so that there slow enqueues skip every slot no helper has touched
  (gwf_queue.hpp:187).
- The FIFO check: `last_seq` starts at the largest word and only grows, so that the check of
  order never fires. An extra copy that comes out after the total is not seen, a word that
  is garbled into one decoded alike passes, and a lost token makes the drain spin for
  ever instead of a verdict (`Starved`, in the run of the workloads). The adapter of WFQ
  drops the result of `wf_enqueue` (throughout_bench.cpp:208).
- The search: the result of an enqueue is not looked at, so that a frontier above the
  capacity (32768 on GLFQ and GWFQ) loses vertices silently. On SFQ, where `q_enqueue`
  is the blocking operation (bfs_bench.cpp:110), a frontier above `SFQ_QUEUE_LENGTH` (65536)
  hangs the kernel; the run of the workloads reaches this state (`Hangs`). The sums of a block
  halve `blockDim.x` (420, 485) and drop finds when it is not a power of two, as with
  `--block 192`, which nothing refuses: `reached` is too small, and the search may stop
  early. `LevelsAreDistances` fails with `NumWaves = 3` and `WarpSize = 1`, where
  `FoundAtDistance` still holds. A wavefront that is not full never votes `WAVE_FULL` and
  spins (bfs_bench.cpp:413). `load_snap` takes a graph that counts from 0 for one that
  counts from 1 if no edge names vertex 0.
- The ray tracer: a primary ray that the queue refuses leaves its pixel untraced, and the
  count of leftovers is 0 all the same.

## 7. Not modelled, and plan

- The two rings of a GWFQ queue together: each has requests and helpers, which is more
  than TLC can explore; `GwfUse` is one ring with its users.
- `warp_help`, `wave_batched_faa` and the hazard pointers of WFQ: nothing in the repository
  calls or reads them.
- `wf_queue_reset_for_bfs`, the timed kernels of the throughput benchmark (load without a
  verdict) and the kernels of the history client on GWFQ and WFQ.
- Convergence of the hardware at a broadcast or ballot, and weak memory apart from the store
  of a ray.
- Build files, sweeps, profiling and plots, which have no state.

Next, most important first:

1. GWFQ without a second request while a helper of the first is on its way: whether
   `SlowTicketsTaken` holds there, and with it `NoIndexTwice`; the fast path alone refines
   `GlfRing`, so that its proofs carry over.
2. WFQ with dequeuers that help each other: what holds for two threads (`WfQueue_use`) and
   what a helper that looks at the cell again after its compare-and-swap would give for
   any number.
