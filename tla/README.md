# NSimulator in TLA+

NSimulator is a network simulator written with Qt threads: a border router
reads packet traces, spreads them over the queues of its output links, sends
them at a planned rate to core routers, and reports how long packets waited and
how deep the queues were. The packets are the easy part. What is hard is that
some thirty threads share plain counters and flags, that "finished" is inferred
from those counters in four places, and that hardly anything of it is tested.
This directory models that machinery, model-checks it and proves part of it.

File references are relative to the repository; `outputadaptor.cpp` and the
like are under `src/Network/Router/`, `network.cpp` under `src/Network/`.

## 1. The system

| component | state | operations | what it talks to |
|---|---|---|---|
| `Queue` (`Queue/queue.cpp`) over a modified Boost lock-free queue | packets; depth and residence samples | push, pop, empty, logQDepth | one push task or input side, one pop task |
| `EnQueueProcessor` (push task, a thread per queue) | buffer, planned bursts, count | `deterministicRun`, `poissonRun` | reads its buffer, pushes to its queue, calls `OutputAdaptor::notify` |
| `DeQueueProcessor` (pop task, a thread per adaptor) | round robin position, burst, count | `run`, `terminate` | pops the queues, calls `Link::transfer`; its count is read by the adaptor |
| border `OutputAdaptor` (a thread) | `nEnqProcs`, `bprocessedPackets`, `bPacketsComplete`, `processedPackets` | `putPacket`, `borderRun`, `notify`, `terminate` | starts the tasks; calls `Router::outNotify` |
| core `OutputAdaptor` (a thread) | `processedPacketsToDest`, flows | `putPacket`, `coreRun`, `terminate` | the pop loop, with a link or an output file behind it |
| `InputAdaptor` (a thread) | input queue, counts | `loadQueue`, `insertInQueue`, `borderRun`, `coreRun` | `RoutingTable::lookUp`, `Router::fabric`, `Router::inpNotify` |
| `Router` (a thread) | counts of finished adaptors, totals, analysis | `borderRun`, `coreRun`, `performAnalysis`, `stop`, `inpNotify`, `outNotify`, `fabric` | starts its adaptors; emits `rfinished` |
| `Network` (main thread) | `rCounter`, `totalPacketsinNetwork`, `statusTimer` | `run`, `checkStatus`, `rFinished`, `stop` | starts and stops the routers |
| `Link` | destination, count | `transfer` | `Router::insertPacket` of the next router |
| `RoutingTable` | entries | `loadRoutingTable`, `lookUp` | a pure lookup |
| interface, plotting, main window, utilities, test programs | widgets, logs | | the Run and Stop buttons |

**How a run goes.** Run starts every router. r0's thread starts its input
adaptors, which look each packet up and put it in a buffer of an output adaptor,
and call `inpNotify`. When all have, r0 starts its output adaptors. Each starts
a push task per queue and one pop task. A push task moves its buffer to its queue
in bursts and calls `notify`; when all have, the adaptor polls until the pop
task has sent as many packets as `notify` added up, and calls `outNotify`. When
all adaptors have, r0 analyses the samples and emits `rfinished(0)`. Every three
seconds the main thread adds up the packets that reached their destinations and,
when the sum equals r0's total, stops the core routers, whose `rfinished`
completes the count and prints the analysis. Stop stops every router at once.

**What is hard about it.** `notify`, `inpNotify` and `outNotify` run on their
callers' threads without a lock, so additions get lost and flags are set between
the halves of somebody else's update. Counts are read while they are being
recomputed (`router.cpp:278`), or twice in one round (`outputadaptor.cpp:211`
and `:215`). Observers act between a packet's transfer, its count and its
sample. `QThread::terminate` kills a thread anywhere, in the middle of a push
as well. The queue under all of it is a lock-free list whose nodes are used
again, with a counter added to it that is not atomic. The same signal is a
queued event when a router's thread emits it and a direct call when the main
thread does. The Poisson plan is integer arithmetic with a search that has no
upper bound. `PROJECT.json` lists each of these at its line.

**What makes it correct.** Per queue, packets are conserved and kept in order. A
phase begins only when the one before has ended (buffers filled before the
output side starts, buffers flushed and queues emptied before the adaptor
finishes, everything sent before the analysis, everything delivered before the
core routers are stopped). Totals are those of what was counted. The weighted
round robin is fair. The simulation ends, by itself and on Stop.

## 2. The modules

| module | models | abstracts |
|---|---|---|
| `PacketQueues` | `queue.cpp`: FIFO queues by number | capacity, `qSize` |
| `LockFreeQueue` | `queue.hpp`: push, pop and empty load by load and compare-and-swap by compare-and-swap, tags, the reuse of nodes, `qSize` | the free list is an atomic stack; memory is sequentially consistent |
| `PoissonArrivals` | the arithmetic of `poissonRun`, as operators | |
| `PoissonPlan` | the search loop of `poissonRun` step by step | the `int` range (bound `MaxI`) |
| `EnQueueProcessor` | the push task | sleeps, time stamps |
| `DeQueueProcessor` | the pop task; transfer, count and sample are steps of their own | times and sizes |
| `BorderOutputAdaptor` | the adaptor with its threads, `notify` split into loads and stores | |
| `WeightedService` | the pop task alone, against any arrivals, with histories that measure fairness | the push side |
| `BorderRouter` | `borderRun` of router and input adaptor, `inpNotify` with the number it is given (`num_input_packets`), `outNotify`, `performAnalysis` | an output adaptor is three numbers and a program counter |
| `Network` | `network.cpp`, `Router::stop`, r0's last notification and its loss, the core routers' sums, the vectors of figures that `performAnalysis` fills and prints | the path of a packet between r0 and its destination; the figures, of which only their queue is kept |
| `CoreNetwork` | the core routers' adaptors (`coreRun` of input and output), links, queue choice, flow accounting insertion by insertion, `terminate` with the file it closes | times, sizes, samples, printed counters |
| `RoutingTable` | `lookUp`: entries, octets of a mask, the match kept | widths (any number of octets and bits); the port, queue and code of the entry found |
| `InputAdaptor` | `loadQueue` and `borderRun` of an input adaptor, with `lookUp` inside | a file is its size and what a header at each offset says; a packet is its offset |
| `PacketChannel` | abstract: what goes into a queue comes out in order, and nothing goes in once it is closed | |
| `CoreDelivery` | abstract: what is sent into the core network is counted at a destination | |
| `AdaptorSummary` | abstract: an adaptor as its router sees it | |
| `AdaptorClaims` | the README's sentences about the adapter without exceptions | |

How they fit together:

- `BorderOutputAdaptor` EXTENDS the push and pop task modules; each thread's
  action leaves the others' variables unchanged.
- `BorderOutputAdaptor` implements `PacketChannel` (`ChannelSpec`) and
  `AdaptorSummary` (`SummarySpec`). Each output adaptor inside `BorderRouter`
  implements the same `AdaptorSummary` (`SummarySpecs`). So the two modules meet
  one description of an adaptor; neither is thereby shown to implement the other.
  The summary is wider than either: once `notify` calls have overlapped it
  allows any total and an early end (`Race`), while `BorderRouter` speaks of
  adaptors that were spared. What the overlap does to an adaptor is in
  `BorderOutputAdaptor`, and to a whole run in `NotifyLost` and `Shortfalls` of
  `Network`. `FilledBeforeStart` in turn discharges the assumption that
  `BorderOutputAdaptor` makes of its router, that nothing is put into its
  buffers once it runs.
- `PoissonPlan` shows the loop to compute what `PoissonArrivals` says
  (`SearchFindsFactor`); `EnQueueProcessor` uses the operators.
- `CoreNetwork` implements `CoreDelivery`, fairness included (`DeliverySpec`):
  packets are counted no sooner than sent and all are counted in the end, unless the routers are stopped. That is
  what `Deliver` of `Network` does and what its fairness assumes. None of the
  three owes anything in a run that is being stopped: `CoreNetwork` no step after
  the first `terminate()`, which is `stopping` in `CoreDelivery`, and `Network` no
  delivery once a router is halted.
- `FlowTotalsExact` says what is in the flow totals of a destination at any step,
  so also at the one at which it is killed: a packet in hand may be missing, a
  new flow may have a number and no total yet, and packets that are written
  after `terminate()` closed the file are in the totals and not in the file. By
  `NeverStopsEarly` of `Network`, `checkStatus` stops no router before every packet
  is counted, if r0's total is exact and the user does not press Stop; a packet is
  counted after it is accounted for (`toDest` is at most what was added), so that
  the flow totals printed at the end of such a run lack none.
- `LockFreeQueue` implements one queue of `PacketQueues` (`FifoSpec`): a push
  takes effect when its node is linked, a pop when its node is unlinked, at one
  step each. That is why all other modules may use `PacketQueues`.
  `FailsOnlyWhenEmpty` is what they take for granted besides: where one thread
  pops, as everywhere here, a pop after `empty()` said no gets a packet
  (`CoreNetwork` and `InputAdaptor` pop without a failure branch). `empty()` may
  still say yes while a packet is linked and `tail_` has not moved; the callers
  ask again, except `InputAdaptor::borderRun`, whose queue nobody fills any more.
- `InputAdaptor` EXTENDS `RoutingTable`: each packet popped is a call of `lookUp`,
  which runs step by step until the entry is there for the fabric. In
  `CoreNetwork` the port and queue of a class are constants (`routes`), and
  `BorderRouter` takes any ports.
- `Network` takes r0 as a thread that sends, analyses and emits. `Shortfalls`
  says by how much its total may be too small, which is what the claim
  `TotalIsExact` finds it can be. `NotifyLost` stands for a lost addition to
  `nInpCount`, `nOutCount` or to the `nEnqProcs` of one of its adaptors, as the claim
  `AlwaysCompletes` finds it: the count then never reaches the number it is
  compared with, and r0's thread polls until Stop. It may happen or not, and
  nothing in `Fairness` asks for it.

How state and actions correspond to the code:

- A variable has the name of the member it stands for. Variables added for
  program counters end in `Pc`; the registers `nReg`, `bReg`, `countReg`,
  `totalReg` and `outReg` hold what a thread loaded before it stores the sum.
  `offered`, `sent`, `arrived`, `bypass`, `afterStop`, `raced`, `torn`, `halted`,
  `analysed`, `mixed`, `lost`, `printed`, `written`, `switched`, `tested` and
  `spoiled` are histories or stand for output.
- `++x` and `x += n` on shared counters are a load and a store. The comparison
  after an increment may use the stored value or read it again
  (`NTest`, `InpTest`, `OutTest`), because a compiler may do either.
- `raced` records that two notify calls overlapped, or that the pop task's
  counter was read before `run()` cleared it. Properties that need the
  counters to be right say `~ raced`; those that hold anyway do not.
- The pop task's counter is not initialized by its constructor
  (`dequeueprocessor.cpp:14`): `UninitTotals` is the set of values it may have.
- A Poisson schedule that is used up makes `back()` read an empty vector. The
  value it yields is any of `Garbage`.
- `Terminate` sets the flags and `Kill` ends the adaptor's thread, wherever it
  is; the push tasks go on, as in the code.
- In `Network`, r0 may still send after Stop (its pop tasks finish their
  bursts), and may do so a little longer than the code allows.
- In `Network`, both r0's thread and the main thread append figures to the same
  vectors of r0, one queue at a time. That two threads grow a `QList` at once is
  undefined in C++; the model has each append happen as a whole, records in
  `mixed` that they met, and claims nothing about r0's figures then. What is
  printed are the first entries, as many as there are queues; a shorter entry
  of `printed` stands for a read past the end of a vector.
- In `LockFreeQueue` a thread that is killed is one without fairness (`Mortal`):
  it may stop at any step and nothing else tells that it has. A weak
  compare-and-swap fails only for cause; a spurious failure repeats the loop.

## 3. The runs

Every run starts from the code's initial state; deadlock checking is off because
the program stops.

| run | shows | bounds |
|---|---|---|
| `BorderSafety` | `Conservation`, `CompleteMeansFlushed`, `RaceFreeCompletion`, `SamplesMatchTraffic`, `ReportsNeverInvent`, and that the adaptor implements `AdaptorSummary` | 2 packets, 3 queues, weights 2, 1, 1, rates 1, 2, 1 |
| `BorderLive` | `Finishes`, `PushTasksReturn`, with Stop | 1 packet, put in queue 1 |
| `BorderPoisson` | `ChannelSpec` with Poisson arrivals and Stop | 3 packets, put in queue 1 |
| `WeightedService` | `BoundedBypass`, `PromptStop`, `EveryPacketServed`, `StopObeyed` | 5 packets, arriving in one order |
| `PoissonPlan` | `SearchFindsFactor`, `MeanIsRate`, `ShortfallBounded`, `PlanMade` | loads 0 to 60, rates 1 to 5, candidates to 64 |
| `BorderRouter` | `FilledBeforeStart`, `AnalysesLast`, `MissesOneBurst`, `SummarySpecs`, `Finishes` | 2 inputs with 2 packets, one of them a rest that is not counted, and 1; 2 outputs, bursts of 1 |
| `Network` | `SumNeverExceeds`, `NeverStopsEarly`, `PrintsAll`, `StopSpoilsLittle`, `RunEnds`, `StopEnds` | 3 routers of 2 queues, 2 and 1 destination adaptors, 2 packets, Stop up to twice |
| `CoreNetwork` | `InOrder`, `OnlyOnPath`, `FlowTotalsExact`, `DeliverySpec` | 3 routers, 4 output adaptors with 6 queues, 2 links, 3 packets of 2 classes and 2 flows; `terminate` at any step once the packets have come to the last output adaptor (`StoppedLate`) |
| `InputAdaptor` | `CountsAllButTheRest`, `SwitchesTheFile`, `NotifiesUnlessEmptyPacket` | files of 0 to 4 bytes, packets of 1 to 3 or any lengths 0 to 2, at most 5 loaded (`MaxLoaded`); addresses of 2 octets of 2 bits, all 16 destinations, every table of 1 to 3 of 8 entries |
| `LockFreeQueue` | `FifoSpec`, `FailsOnlyWhenEmpty`, `SizeDrift`, `CallsReturn` | 2 producers, which push 1 and 2 packets, 1 consumer, 3 nodes; the first producer may be killed |

Why the bounds are enough. Three queues are what the code serves, and three push
tasks are enough for a lost addition with a third call after it. Two packets are
enough for order, for a burst of weight 2 and for packets in different stages;
three on a queue of rate 2 give a plan that is a burst too short (`Conservation`
holds there by `PacketsConserved`, for either pattern). In `BorderLive` and
`BorderPoisson` the packets are confined to queue 1, the other tasks running
with empty buffers; since no packet is owed, cutting the others off removes
behaviours but creates none that is unfair. In `WeightedService` five packets
are one more than a full round of all weights; they are interchangeable and none
is owed, so one order of arrival loses nothing. The loads of `PoissonPlan` cover
both branches, both parities, several repetitions and, for rates to 5, the load
at which no candidate exists. Three routers are the least with two stops after
one another and one between the first and the last; two adaptors make a sum that
can be read half done, two queues an analysis that can be interrupted. A file of
4 bytes has a rest for the packet sizes 3 and, in shorter files, 2, and lengths
that jump over its end; a header of length 0 loads the same packet for ever, so
`MaxLoaded` is one more than the packets the longest file has. In
`LockFreeQueue` three nodes are one dummy and two packets: the node of the first
packet is freed and taken again while a producer that has stopped still holds a
pointer to it, which is where the tags are needed. One consumer is what each
queue has. The entries of `RoutingTable` have every prefix length from none to
all of an address, on both sides of the octet boundary, and three of them in any
order give every shorter, equal and longer match after any other. The routers of
`CoreNetwork` are r1, r2 and r3 of `config/DIFFSERV`: the smallest part of the
shipped network in which a link carries packets of two routers, a router has two
inputs and an output, and packets of one file come by two flows. Two packets of
one class show overtaking and, as their queues have weight 1, a burst that ends
by its weight; the third crosses their path. The output of r1 that no packet takes
has one queue instead of two. `StoppedLate` lets Stop come when all packets are at
the output adaptor of r3, the one with the file, or written by it, and the other
adaptors are idle: every order of its steps, of `terminate` and of the closing of
the file is then there, with two flows, one of them of two packets, whose
insertions can be interrupted. An earlier stop leaves packets on the way, about
which nothing is claimed but what the proofs show of any stop. The user owes
nothing, so the bound cuts no fair behaviour short.

Symmetry is used in the runs that check safety only (`BorderSafety`,
`BorderPoisson`); packets occur in no property by name.

**Claims that fail.** Two runs take a sentence of the repository's README and
show how the code contradicts it; each is a finding in `PROJECT.json`.

| run | what happens |
|---|---|
| `ClaimAlwaysCompletes` | two `notify` calls overlap, an addition is lost, the adaptor polls for ever |
| `ClaimTotalIsExact` | a packet is counted between the two reads of one round, and the total kept is one too small; `checkStatus` then waits for a number that has been passed |

Others show in properties that hold. `ShortfallBounded` says how many packets
the integer divisions may drop from the Poisson plan; when they drop any, the
push task calls `back()` on an empty vector (`Garbage`). `MissesOneBurst` says
what the analysis may lack: the adaptor completes on the count of packets, the
residence times of its last burst are recorded after that. `StopSpoilsLittle`
says what Stop may spoil: `rFinished` counts signals, so that Stop after r0's
own counts r0 twice and prints before the last router is analysed, and r0 is
analysed by two threads at once if its own is just doing so.
`CountsAllButTheRest` says that the end of a trace that is no multiple of the
packet size is sent as a packet and not counted. `SizeDrift` says that the
recorded queue depths drift by every count that two threads store over each
other's. As exceptions: `PlanMade` excludes a load of exactly twice the squared
rate, for which the search never ends; `Finishes` of `BorderOutputAdaptor`
excludes an adaptor that is started after Stop went through it, and polls for
ever; `Finishes` of `BorderRouter` excludes overlapping calls of `inpNotify`, after
which the output side may never be started, and of `outNotify`; `RunEnds` excludes,
besides Stop, a lost notification (`lost`), after which r0 never ends, and a total
that is too small; `FlowTotalsExact` excludes the packet in hand and the
packets written to a closed file; `AnalysesLast` claims nothing of r0's total of
inputs after overlapping calls; `NotifiesUnlessEmptyPacket` excludes a trace with a packet of length 0,
which `loadQueue` never gets past.

**Fairness.** Threads run when they can (`WF`), each on its own: they are
operating system threads with bounded sleeps. The main thread's handlers finish,
the timer fires while it is on (`WF`). A queued signal must be taken although
timer events come in between: the event queue is a FIFO, and between two
handlers the main thread is idle again and again, so `Signal` has `SF`. Neither
the input side nor the user owes anything, and a notification may get lost. The
adaptors of the core routers owe their steps until `terminate()` is called on the
first of them: from there on any step may be a thread's last. In `LockFreeQueue` a thread in a call
goes on unless it is killed, and nobody owes a call. One thing scheduling does
not give: that a check ever reads sums that are not being recomputed. `RunEnds`
takes that as a premise (`CleanCheck`); the code sleeps a second between two
sums, which makes it all but sure.

## 4. The proofs

Everything below holds for every value of the constants that satisfies the named
assumptions of the modules (positive rates, weights in the natural numbers, at
least the three queues that the pop task visits, at least one router, adaptor
and queue, masks that are prefixes, tables that lead every class of packets to a
file) and for every interleaving. Nothing else is
assumed, with two exceptions that are stated at their theorems. Each proof has the
same outline: an inductive invariant `Ind`, or a chain of invariants each
using the ones before, shown to hold initially and to survive every action, and
the property derived from it. Where it is not the property itself, what had to
be added is the interesting part, and is named here.

**`BorderOutputAdaptorProofs`**, with Stop or without:

| theorem | states | what the invariant adds |
|---|---|---|
| `TypeCorrect` | `TypeOK` | `StartingInBounds`: the starting loop's index is a queue while it is used as one |
| `PacketsConserved` | `Conservation` | `Phases`: the pop task holds a packet only while it transfers it, a task that has reached `notify` has an empty buffer, nothing runs while buffers are filled |
| `CompletionNeverEarly` | `CompleteMeansFlushed` | `Counting`, below |
| `StatisticsAgree` | `SamplesMatchTraffic` | `Samples`: what of the queue in service is sent and not sampled yet is just the burst counted so far |
| `ReportsAreReal` | `ReportsNeverInvent` | `Reports`: whatever any `notify` call has loaded, and `bprocessedPackets` itself, is at most the sum over the tasks that have stored; `Moved` and `Sent` relate that sum and the pop task's counter to the packets |
| `NeverDoneTooEarly` | `RaceFreeCompletion` | `OneAtATime`, `Started`, `Finished`: while `~ raced`, at most one task is between its loads and its test, the counts are exact, and the pop task's counter is the one `run()` has cleared |
| `ImplementsChannel` | `Spec => ChannelSpec` | each step is a put, a take, a close or a stutter of `PacketChannel` |
| `ImplementsSummary` | `Spec => SummarySpec`, assuming `~ AllowStop` | each step is one of `AdaptorSummary` or a stutter; `NotStopped`. The summary has no killed adaptor: `BorderRouter`, which uses it, models a run that is not stopped |

`Counting` is needed because the exact count is not invariant, since additions
get lost. An upper bound is: `nEnqProcs`, and what each `notify` call has loaded
and is about to store or compare, is at most the number of tasks past their store
(`Counted`). When a call sees `NumQueues`, that set has as many members as there
are queues, hence is all of them, and by `Phases` their buffers are empty.

**`BorderRouterProofs`**, for any number of adaptors and any packets in the
input queues, calls of `inpNotify` and `outNotify` overlapping or not:

- `OutputsStartFilled` (`FilledBeforeStart`), `AnalysisNeverEarly`
  (`AnalysesLast`), `AtMostOneBurstMissed` (`MissesOneBurst`), and
  `OutputsAreSummaries` (`SummarySpecs`: each output adaptor of the router is an
  `AdaptorSummary`).
- `InpCounting` and `OutCounting` are the bound of `Counting` once for either
  side. `Forwarded` says that what was put into output adaptors and what waits
  in input queues is all there ever was, so that empty input queues mean that
  everything has been offered; `ExactTotal`, that while no calls overlapped the
  router's total is that of the inputs that have added theirs (of each
  `num_input_packets`, which a rest of its trace is not in); `Sampling`, that
  what an output lacks in samples is one burst, and nothing when it is idle.

**`NetworkProofs`**, for any number of routers, adaptors, queues and packets,
however often Stop is pressed:

- `ReadsAreNeverTooMuch` (`SumNeverExceeds`) from `BelowSum`: a sum is read while
  it is recomputed, so the invariant bounds each half-done sum by what the
  adaptors *already added* have delivered, and likewise the sum over routers.
- `NoRouterStopsEarly` (`NeverStopsEarly`) from `Untouched`: until Stop is
  pressed only `checkStatus` halts a router, on a sum equal to r0's total, with
  the timer off from there on.
- `AnalysisIsWhole` (`PrintsAll`) and `StopDoesLittleHarm` (`StopSpoilsLittle`)
  from `Filled` (the vectors of figures, how far each analysis is, and what two
  threads may have mixed), `Counting` (which signals `rCounter` has counted,
  r0's own and the repeated ones after Stop) and `Printing`.

**`CoreNetworkProofs`**, for any number of routers, ports, queues, links, classes
and packets, and paths of any length:

- `FlowTotalsAreExact` (`FlowTotalsExact`), `DeliversOnlyWhatWasSent` (the
  safety part of `DeliverySpec`: the initial state, and each step is a send, a
  count of something sent, a stop or a stutter) and `PathsAreKept` (`OnlyOnPath`) need
  nothing of the tables, and hold whether the routers are stopped or not.
- `NoneLostOrOvertaken` (`InOrder`) has the hypothesis `QueuesOffered`: at each
  router of the path of a class, the port it takes has a queue for it. The code does
  not enforce this: where it fails, `fabric` is called with queue -1, an index out
  of range, and what happens is undefined; in the model the packet is then gone.
  It is a condition on constants only, and `MCCoreNetwork` assumes it of the shipped
  configuration, so that TLC evaluates it on the run. `PathsAreKept` shows that no
  other port is ever asked for the code of a class, so that this condition is all
  that a configuration owes.
- A place is a queue, or the hand of a thread, or a file (`Inp`, `InpHand`, `Out`,
  `OutHand`, `File`), and `content` what is in it. Every step of the model is one of
  four: it puts a new packet at the end of a place (`Sends`), takes the head of one
  place to the end of another (`Moves`), takes the head of one place away (`Loses`),
  or leaves all contents as they are (`Rests`). The invariants are shown for
  these four.
- `Single`: each packet was sent once, what is in a place was sent, and no packet
  is in two places or twice in one. `Accounts` relates what was passed to the file,
  the flow map, the totals and the count of an adaptor at each point of its thread,
  with a new flow's number inserted before its total and its total before the first
  addition; since a packet passed to a file is in no hand (`Single`), the flow it was
  accounted under no longer changes. `Files` says that the file is a prefix of what
  was passed to it, and all of it until it is closed. The packets counted are in files, and by `Single` these are fewer than those sent
  while one is being counted.
- `Ordered`, under `QueuesOffered`. A path comes to no port twice (`PortsDiffer`:
  from there on it would go round for ever and never end at a file), so that the
  places on it have a `Rank`, and a hop raises the rank by one (`HopRank`).
  `OnPath` keeps a packet on the path of its class, `Sorted` says that what is
  further on (of a higher rank, or before it in one place) was sent before, and
  `Kept` that all that was sent is somewhere. `InOrder` is `Ordered` with the places
  written out; `OnlyOnPath` follows from `OnPath`, which needs no hypothesis.

**`LockFreeQueueProofs`**, for any number of producers, consumers, nodes and
pushes, every interleaving of loads and compare-and-swaps, and threads that stop
anywhere:

- `FifoRefinement` (`Spec => FifoSpec`), `FailsOnlyWhenEmptyHolds`
  (`FailsOnlyWhenEmpty`) and `SizeDriftHolds` (`SizeDrift`).
- The invariant `Ind` says that there is a list: m different nodes, each pointing
  to the next, the dummy first, `tail_` on one of them (`List`). Every node is in
  the list, in the pool, or held by just one thread (`OnePlace`), and each thread
  knows something of the list at each of its steps (`Knows`). `Contents`, which
  follows the pointers, is then the data of that list (`ContentsOfList`).
- What a thread has loaded may be out of date when it uses it, and its node may
  even be in its next life. `Old` says that an end with the same tag is the same
  pointer; `ProducerSees`, that the next pointer a producer compares is either the
  one it loaded, and then the node is the last one, or has a greater tag. That is
  where the tags that survive the pool are needed: without them (the mutant
  `Untagged`) the second disjunct fails.
- `InvNext` follows the list itself: a step that wins `Link` makes it longer by
  the producer's node, one that wins `Unlink` makes the dummy's successor the
  dummy, every other step keeps it, and the three cases are the three of the FIFO
  specification (`LinkedContents`, `UnlinkedContents`, `KeptContents`).
- `Tested`: a consumer that was told of a packet, and whom no other has
  forestalled, finds a list of two nodes and loads a pointer that is not `Null`.
  `Sizes`: what a thread is about to store would leave the counter as far off as
  it was at its load, and one further for each store since.

**`AdaptorTaskProofs`** is about the two tasks of an output adaptor, each by itself.
The pop task (`WeightedService`), for any weights and arrivals:

- `BypassIsBounded` (`BoundedBypass`) from `Bypassing`, which says for each
  position of the round robin how much of the bound may be used up already;
  `StopIsPrompt` (`PromptStop`) from `StopsSoon`, what is left of the visit in
  progress.

The push task (`PoissonPlan`, and `PoissonArrivals` in **`OperatorTheorems`**), for all
loads and rates:

- `SplitExists`: the set of factors is empty if and only if n = 2dd;
  `PlannedBurstsPositive`: no planned burst is empty. `SearchCorrect`
  (`SearchFindsFactor`): the loop ends with the split factor and no other, since
  all candidates below `i` were refused.
- `PlanHasTheRate` (`MeanIsRate`) and `PlanFallsLittleShort`
  (`ShortfallBounded`). The plan is a sequence of rounds, and each round a
  `Staircase`: a base raised by one from a turning point on. The sum of a
  staircase has a closed form (`StaircaseSum`), both parities are staircases
  (`EvenIsStaircase`, `OddIsStaircase`), and repeating a round repeats its sum
  (`RepeatedSum`).

**`InputAdaptorProofs`**, for files, packet sizes, widths of addresses and routing
tables of any size:

- `WholeFileIsSwitched` (`SwitchesTheFile`): the packets switched are the file,
  without gap or overlap (`PartsMeet`, across the queue and the packet in hand),
  each to the entry of longest prefix. For the latter `LookUpInv` says what
  `lookUp` knows in the middle of an octet loop: `SumsRight`, a running
  comparison agrees with the bits seen so far; `KeptRight`, the match kept is the
  longest among the rows already seen that cover the destination.
- `OnlyTheRestIsUncounted` (`CountsAllButTheRest`) from `Counts`, how far the
  count lags behind the place in the file.

**`OperatorTheorems`** also holds what the others need of sums over functions, sets and
sequences: how a sum changes when one value does, is monotone, splits, and the
sum of a sequence by its prefixes. The library's induction theorems take an
operator as a parameter, which the provers at hand cannot instantiate; these
lemmas go through the least counterexample (`LeastNatural`) instead, which needs
none.

Only model-checked:

- every liveness property (`PlanMade`, `Finishes` of `BorderOutputAdaptor` and of
  `BorderRouter`, `PushTasksReturn`, `EveryPacketServed`, `StopObeyed`, `RunEnds`,
  `StopEnds`, `NotifiesUnlessEmptyPacket`, `CallsReturn`): fairness and ENABLED are
  beyond the prover;
- the fairness in `DeliverySpec`, that the core network delivers what was sent in
  the end, for the same reason. Its safety part is proved.

## 5. Not modelled

- Time. Sleeps are steps that take as long as they like; residence times are
  counted, not measured. Hence also the rates in packets per second.
- The third-party plotting code (`src/Plotting`, nine tenths of the lines under
  `src/src`), the widgets and the main window: drawing and logging, whose only part in
  the protocol, the Run and Stop buttons, is the environment of `Network`.
  `nsimulator.cpp` also has functions that turn router output files into text and
  text into routing tables, and the test programs generate packet files: each is
  one loop over a file, run by hand, on state of its own.
- The reading of configuration files, except how weights and codes are cut
  (`Slice` in `CoreNetwork`) and what is printed, except which figures.
- `loadRoutingTable`: it copies records of a fixed size; the tables are
  constants.
- In `queue.hpp`: `bounded_push`, the `unsynchronized_` operations, conversion
  and destruction, which the simulator does not call, and the inside of the
  free list, which is another header.
- `Queue::push` has no return statement; its result is never used. Overflow of
  `int` counters needs traces of 2^31 packets, and the search of `poissonRun`, which
  has no bound, would wrap around where `PlanMade` says that it goes on for ever. `new int(numQueues)`
  (`outputadaptor.cpp:36`) writes beyond one int; what that destroys has no
  definition to model.
- Undefined behaviour is not followed: a queue number of -1, the last entry of an
  empty routing table, the copy beyond the buffer at a rest of a trace.
- `putPacket` is one step. A thread that is killed inside it may hold its mutex for
  ever; it is called by input adaptors only, which are killed together.
- Stop before Run uses an uninitialized timer pointer; `Network` starts with Run.

## 6. Plan

Done, in this order: the queues and tasks, the border adaptor, its abstract
specifications, the weighted round robin, the Poisson plan, the network, the
border router, the routing table, the core network, the lock-free queue, the
input adaptor, the analysis under Stop; proofs of the safety properties of all
of them.

Left: the liveness properties, which only TLC checks; the reading of the
configuration, and a condition on it that implies `QueuesOffered`, once it is
modelled.
