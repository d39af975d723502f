# AQM evaluation suite of ns-3: a TLA+ model

The repository is the discrete event simulator ns-3 with a suite that evaluates
active queue management (AQM) disciplines: `aqm-eval-suite` builds a dumbbell of
two routers, installs one queue discipline after the other at the bottleneck and
records delay, throughput and drops.  This directory models what such an
evaluation rests on: the event loop, the path of a packet from the traffic
control layer to the wire, byte queue limits, a packet scheduler, CoDel, the traffic
source and the driver of the suite; then what handles its results and the
programs around it: the scripts that turn traces into plotted data, the test
driver `test.py` with its worker threads, and the two threads of the visualizer.
Paths below are relative to `src/ns-3-dev-git/src`, except `test.py`, which is in
`src/ns-3-dev-git`.

## Inventory

| Component | State | Operations | Interacts with | What makes it correct |
|---|---|---|---|---|
| `QueueDisc`, `FifoQueueDisc` (`traffic-control/model`) | internal queue, `m_requeued`, `m_peeked`, packet count, statistics, `m_running` | Enqueue, Dequeue, Peek, Run, Restart, DequeuePacket, Requeue, Transmit, GetStats | device queue status before each dequeue; the send callback | no packet is lost without being counted, order, statistics, no stranded packet |
| `TrafficControlLayer` | devices, root queue discs, wake callbacks | Send, SetRootQueueDisc, DeleteRootQueueDisc, Receive | network layer above, queue disc and device below | every packet is enqueued and the queue disc is run |
| `NetDeviceQueue` (`network/utils`) | `m_stoppedByDevice`, `m_stoppedByQueueLimits`, wake callback | Stop, Start, Wake, PacketEnqueued / Dequeued / Discarded, NotifyQueuedBytes / TransmittedBytes | trace sources of the device queue; schedules the wake callback | stops before the queue overflows, wakes after |
| `PointToPointNetDevice` | transmit queue, transmitter state | Send, TransmitStart, TransmitComplete, Receive | channel, NetDeviceQueue | keeps transmitting while it has packets |
| `DynamicQueueLimits` | 32 bit counters, limit, slack | Reset, Completed, Available, Queued | NetDeviceQueue | never stops an idle queue for good, limit within bounds |
| `DefaultSimulatorImpl` (`core/model`) | scheduler, current key, uid, destroy events, events of other threads | Schedule*, Cancel, Remove, IsExpired, Run, Stop, Destroy | every component is executed by it | order of time and of scheduling, exact expiry |
| `EvalApp` (`aqm-eval-suite/model`) | send and start/stop events, residual bits, bytes sent, flow times | Start/StopApplication, StartSending, StopSending, SendPacket, CancelEvents | simulator, `EvaluationTopology::Pause` / `Restart` | sends what its rate and limit say and then is quiet |
| `ScenarioImpl` (`aqm-eval-suite/helper`) and scenarios | list of AQMs, scenario members | addAQM, RunSimulation, CreateScenario, DestroyTrace | one simulation for each AQM | each AQM once, all under the same conditions |
| `FqCoDelQueueDisc` | flows with status and deficit, new and old list | DoEnqueue, DoDequeue, FqCoDelDrop | a CoDel queue disc per flow | fair, no starvation, limit kept |
| `EvaluationTopology` | nodes, trace callbacks, 10 ms windows | CreateFlow, packet traces, DestroyConnection | queue disc traces, EvalApp | delays attributed to the right packet |
| `CoDelQueueDisc` | internal queue, dropping state, two times of 32 bits | DoEnqueue, OkToDrop, DoDequeue | QueueDisc, the clock | drops only from a queue that stands, and then does |
| Test driver (`test.py`) | two queues, jobs, `thread_exit`, counts | dispatch, worker loop, collection, SIGINT | test processes, the user | every job reported once, honest exit status, ends |
| Visualizer (`visualizer/visualizer/core.py`, `visualizer/model/pyviz.cc`) | lock, event `go`, target time, timer, pause messages | simulation thread, update timer, handlers of the user interface | simulator, GTK event loop | every message shown, play goes on, quit ends |
| Result scripts (`aqm-eval-suite/utils`) | position in the lines, sums of an interval or a flow | one pass over the lines | the trace files of `EvaluationTopology` | each line in the right mean, point or series |
| PIE, COBALT, RED, PfifoFast, Prio, TBF, Mq | control laws, internal queues, child classes | DoEnqueue, DoDequeue, timers | QueueDisc | per discipline |
| Real-time simulator, schedulers, channel, TCP, the rest of ns-3 | | | | |

The simulation is single threaded: an event handler runs to its end.  Threads
meet in `test.py`, in the visualizer, and where a thread schedules an event.  What
is hard in the simulation all the same:

* callbacks *within* a handler.  A packet sent by `QueueDisc::Run` may start a
  transmission, which fires trace callbacks that stop or wake the very queue
  `Run` is looking at;
* wakes are *scheduled*, so that other events come between a wake and the queue
  disc's reaction, and there is no second wake if one is lost;
* state that qualifies other state (`m_peeked`, flow status, `m_totBytes`);
* counters that wrap, and a mix of signed and unsigned arithmetic;
* event identifiers that outlive their events;
* other threads that schedule events with a context;
* objects and state that survive one simulation and enter the next.

And around it:

* a job of `test.py` is a shared object: a worker marks it, the main thread reads
  it; SIGINT may come between any two steps of a worker, and the default return
  code of a job that was never run equals that of a success;
* the update callback of the visualizer runs the event loop while the simulation
  thread holds the lock, so that other handlers, other timers and the same
  handlers of the user run *inside* it and change what it goes on with;
* the scripts sort their lines as text, compare neighbours and keep variables
  from one flow to the next.

`PROJECT.json` lists these hazards at their lines, with the properties for each.

## Modules

| Module | Models | Correspondence |
|---|---|---|
| `QueueItem` | `QueueDiscItem` | a packet is its arrival number, size and tx queue |
| `QueueDisc` | base class | one operator per method; a discipline's choice is `Admit` or `DropBeforeEnqueue`, and any number of drops before a dequeue. `Aqm = FALSE` is fifo, whose `DoPeek` of its own changes nothing. `quotaUsedUp` remembers how the last `Run` ended |
| `NetDevice` | device queue, `NetDeviceQueue`, transmitter, for each tx queue | `DeviceSend` is `Send` with all trace callbacks it fires: `Discard`, `SendBusy`, `SendReady`; queue limits are a choice under the promise that an empty queue is not stopped |
| `FlowControl` | both together, under `TrafficControlLayer::Send` | a step is one event or one iteration of the loop of `Run`; `m_running` excludes other events |
| `LossyFifo` | abstract specification: a fifo that may lose packets | `MCFlowControl!ImplementsLossyFifo` maps internal queue, retained packet and device queue to it |
| `DynamicQueueLimits` | the only implementation of queue limits | shows the promise that `NetDevice` assumes (`LimitsPromise`) |
| `SimulatorImpl` | the event loop | scheduler as a set, least key first; a thread adds events at any step |
| `EventQueue` | the simulator as `EvalApp` and `ScenarioImpl` see it | the clock, what is scheduled, the order of `EventKey` |
| `EvalApp` | the traffic source | time in ticks, bits whole; `Truncated` is what the conversions between the two may give; the simulator is a set of (time, uid) |
| `ScenarioImpl` | driver and `vary-available-capacity-uno` | one simulation after the other; `m_AQM` is any list, `inside` what `CreateScenario` adds to it; `m_state` is the member that survives |
| `FqCoDelQueueDisc` | deficit round robin | the loop of `DoDequeue`, one iteration a step; the CoDel of a flow may drop what it likes |
| `CoDelQueueDisc` | CoDel | `DoDequeue` takes one step for each packet it takes; times have 2 x `Half` values and `sums` says how a build subtracts two signed integers where that overflows; the control law is any distance within the interval |
| `TestPy` | the worker threads and the main thread of `test.py` | a worker accesses one shared object a step; `Check` is the look at `thread_exit`; the return code and the result file of a process are any of `Outcomes` |
| `Visualizer` | `SimulationThread.run`, `SimulatorRunUntil` and the handlers of the user interface | one step for each access of shared state by the simulation thread; `stack` holds the nested executions of `update_view_timeout`; all other handlers that take the lock are `LockedHandler` |
| `EllipseInput` | `generate-ellipseinput.py` | a line is the number of its interval, a mean the set of lines in it |
| `FlowSeries` | `goodput_process.py`, `drop_process.py` | a line is a flow and an entry (time, size, and a number that tells equal lines apart); `TextRank` is the order of numbers as text; one step for each line |
| `ResultScripts` | the scripts that the runner starts | one behaviour for each run of a script |
| `MCFlowControl`, `MCScenarioImpl`, `MCResultScripts` | | instances for TLC |
| `FlowControlProofs`, `DynamicQueueLimitsProofs`, `SimulatorProofs`, `FqCoDelProofs`, `CoDelProofs`, `TestPyProofs`, `VisualizerProofs` | | theorems about the module each is named after |
| `EvaluationSuiteProofs` | | theorems about the evaluation suite: `EvalApp`, `ScenarioImpl`, `EllipseInput`, `FlowSeries` |

`FlowControl` composes `QueueDisc` and `NetDevice`; the two share only the
packets, as in the code the send callback and the tx queue status.
With several tx queues `Run` ends as soon as the tx queue of the packet it sent
is stopped (`queue-disc.cc:1102`), though packets for another one may wait; the
model follows it.

## Runs

| Run | Bounds | Shows |
|---|---|---|
| `flow_control_single` | 5 packets of 2 sizes, queue disc of 3, quota of 2, device queue of 8 bytes for packets of at most 5, AQM, queue limits, peeks | every way a packet can be dropped, peeked, stopped by the device and by queue limits, left behind by a quota and woken; refinement of `LossyFifo` |
| `flow_control_multi` | 6 packets, 2 tx queues of two packets, queue limits, quota of 2 | requeues, order per tx queue, statistics, headers; drains unless the last run used up its quota |
| `dynamic_queue_limits` | counters of 64 values, sizes 1 and 3, 5 packets in the device queue, first values of `m_adjLimit` below, above and beside the change of sign | every relation of counters to their wrap; the in-flight bytes are exact and bounded |
| `simulator` | 4 events by any means, delays 0 and 1 | expiry is exact at every moment, fifo order, cancelled events never run, destroy events in order |
| `eval_app` | packets of 4 bits, 3 packets, 2 bits in 3 ticks, 3 pauses, 24 ticks | accounting of bits across pauses, up to what the conversions cut off, no leaked event, the limit, the completion time |
| `scenario` | 3 built-in AQMs and up to 2 added, one of them perhaps for the second time, before the call or by `CreateScenario`; 7 evaluations, 2 flows, 4 changes of capacity | the AQMs of the list in order, same capacities, completion times written |
| `fq_codel` | 2 flows, sizes 1 and 3, quantum 2, 4 packets | lists and status agree, limit, fairness bound (reached), no starvation |
| `codel` | 12 values of time, interval and target, a queue of a few packets, a clock that wraps and changes its sign twice | drops only after a whole interval above target, acts on a queue that stands, never drops the last packet; the exceptions of 32-bit times, each of them reached |
| `test_py` | 2 workers, 3 jobs, any of them suites or to be skipped, one exception in a worker | no job lost or counted twice, exit status, at most one job started by a worker after SIGINT, ends |
| `visualizer` | 3 timers, 2 periods, 2 units of time, 4 user events, 1 pause message, 1 early stop | each message shown once and in order, the play button has a timer, play goes on, quit ends |
| `result_scripts` | 5 samples and 3 lines of throughput over 4 intervals; 2 flows with any lines out of 7 each: times of one and two digits, two equal lines, two sizes at one time | rows and series against a definition by intervals and by lines |

The bounds are chosen so that each limit (queue disc, device queue, quota,
quantum, MTU, counter width) is reached with packets to spare, and so that each
actor can act at least twice in every order.  The quota of both runs of flow
control is below the limit of the queue disc, as the default of 64 is, and in both
TLC reaches states in which `Run` has used it up and left packets behind.  In
`eval_app` the bits of most intervals are not a whole number, and neither are the
ticks of most numbers of bits.  `MaxPackets`, `MaxScheduled`,
`MaxPauses`, `Horizon`, `MaxAqms`, `MaxRuns`, `MaxQueue`, `MaxTime`, `NJobs`, `MaxRaises`,
`MaxEvents`, `MaxMessages` and `MaxStops` bound what is unbounded in the code; the
proofs hold for every value of those that occur in their modules.  Two nested
callbacks of the visualizer need two timers and a third that one of them starts;
four user events suffice to play, change the speed, pause and quit within one
callback.  Where deadlock is not
checked the system stops for good: all packets sent, the horizon reached or the
program finished.

### Divergences

TLC also finds what the code does against its documentation.  The run
`flow_control_discard` expects a violation (`findings` in `PROJECT.json` quotes the
lines): in bytes mode the device queue discards a packet, because the check for
an MTU ignores the two bytes of the PPP header.  Three more are found by changing
a configuration:

* `FlowControlMulti.cfg` with `RootPeek = TRUE` and `Aqm = TRUE` violates `SentIsHandedToDevice`:
  `GetStats` (`queue-disc.cc:426`) is one too low, or 2^32 - 1, while a packet is
  peeked, against `queue-disc.h:163`;
* `DynamicQueueLimits.cfg` with `PROPERTIES StarvedGrows`: the signed overflow in
  `Posdiff` (`dynamic-queue-limits.cc:226`) makes a starved queue keep, or grossly
  overshoot, its limit, against the comment at line 135;
* `EvalApp.cfg` with `INVARIANTS AllDone`: a finished flow that is restarted
  schedules on and off events for ever (`eval-app.cc:163`), against "All done,
  cancel any pending events" at line 190;

Met on the way, in properties that say so or by no run on its own:

* `addAQM` in `CreateScenario`, as `aqm-eval-suite.rst:138` shows it, makes
  `RunSimulation` endless, since the loop reads the number of AQMs again
  (`aqm-eval-suite-helper.cc:92`): `EachAqmOnce` says that it returns only when
  `inside` is empty.  `addAQM` takes an AQM twice (line 41), and its second evaluation
  overwrites the files of the first;
* `Run` uses up its quota and leaves packets behind with no wake under way (the todo
  at `queue-disc.cc:959`).  They wait for the next arrival, or the next wake:
  without `quotaUsedUp` TLC finds `NoLostWakeup` violated with
  `FlowControlSingle.cfg`, and `Drains` with `FlowControlMulti.cfg`;
* an interrupted packet of `EvalApp` may lose a bit (`eval-app.cc:149` truncates) and a
  delay may be a nanosecond short (line 182): a flow sends a little less or
  more than its rate, within the bounds of `BitsAccounted`;
* uids have 32 bits and wrap; then events of one time are no longer "scheduled in
  FIFO order" (`simulator.h:60`), and ids expire wrongly.  TLC finds both with `UidRange = 5`;
* `Reset` does not set `m_adjLimit` (`dynamic-queue-limits.cc:85`): with a first value
  within a packet of 2^31 the device queue takes half the range of the counters
  before it is stopped, and the sign of the difference is then wrong for small limits.  `DynamicQueueLimits.cfg` with 31, 32 or 34 in `FirstAdj` violates
  `InFlightConsistent`; the proof needs just that these values are excluded (`FirstAway`);
* a packet peeked at the root gets no `AddHeader` (`queue-disc.cc:1009` against 1039);
* `queue-disc.h:295` says the requeued packet is counted by `GetNPackets`; it is not;
* `simulator.h:1221` says destroy events cannot be removed; `Remove` does, and
  `simulator-test-suite.cc:151` tests it;
* `eval-app.h` calls `m_totBytes` the bytes sent; it counts refused packets too;
* `fq-codel.rst:32` drops from the head of the fattest queue at the limit; a flow
  that holds all the packets loses the arriving one instead, since its CoDel has
  the same limit (`fq-codel-queue-disc.cc:353`);
* `DestroyConnection` works on a copy of the topology and so disconnects no
  callback; UDP flows have no completion time; the last window of the metrics is
  never written;
* `prio-queue-disc.cc:196` says three fifo queue discs and creates two;
* `test.py`: an exception in a worker thread (no process can be created) leaves its
  job in no queue, and the main thread waits for it for ever: the reason for the
  second disjunct of `Ends`.  Output that cannot be decoded turns the return code
  of a crashed suite into 1, and the main thread then raises for want of the
  result file (`CollectRaises`).  The comment at
  line 1785 announces an entry for valgrind errors of suites that no code writes;
* visualizer: `m_stop` of `PyViz` is written and never read, so that a pause asked
  for by the simulation stops the view and not the current run; a callback that
  ends clears the identifier of a timer that was started inside it, which then
  cannot be removed and goes on until it finds the button released;
  `autoscale_view` reads positions without the lock; when two runs follow each
  other before `update_model` is dispatched the samples of the first are lost;
  a statement in the shell that calls a handler which takes the lock would wait
  for itself, as the lock is not reentrant (not modelled);
* scripts: the sample that opens an interval enters no mean (`EllipseInput!Counted`);
  the line of each flow that is last as text is lost (`FlowSeries!Kept`);
  `goodput_process.py` fails with an undefined name when its first flow has a single
  record; the drop series of a flow begins with the gaps of all flows before it, since
  `inst_data` (`drop_process.py:15`) is never emptied (`FlowSeries!DropsOf`);
* CoDel: a `m_firstAboveTime` that happens to be 0 means unset, so that the interval
  starts again; times compared as signed integers may drop too early or not at all
  when the clock of 32 bits changes its sign; a queue that stands for half the range
  of the clock without a dequeue escapes the dropping state.  These are the
  exceptions in `DropsOnlyPersistent` and `StandingQueueIsControlled`; without any of
  them TLC finds a violation.

## Fairness

`FlowControl`: weak fairness of the steps of `Run` (a handler is not suspended), of
each scheduled wake and of each end of a transmission (the simulator executes
what is scheduled).  The network layer need not send.  `FqCoDelQueueDisc`: weak
fairness of the steps of `DoDequeue` and of its begin: the device asks for
packets as long as it transmits.  `TestPy`: weak fairness of the main thread and of
each worker: the operating system schedules threads and every test process ends;
nothing is assumed of SIGINT and of exceptions.  `Visualizer`: weak fairness of the
simulation thread, whose runs end because a stop is scheduled at the target time;
strong fairness of the steps of the update callback and of the other handlers,
which are enabled again and again, not continuously, while the simulation thread
takes and releases the lock or other sources are dispatched before them; strong
fairness of each timer, since GLib dispatches a source that stays ready.  The
user need not do anything.  Other specifications state none: their properties are
safety properties.

## Proofs

Every theorem holds for all values of the constants that the assumptions in the
modules admit: the bounds of the runs are not used, and where a theorem needs
more it says so as its hypothesis.  Each property was checked by TLC on the
run of its module before it was proved.  The proofs have one step for each action, and
under it one for each conjunct that the action can disturb.

### Flow control

`TypeOK`, `StatsIdentities`, `PeekedIsRetained`, `SingleQueueNeverRequeues` and
`StoppedMeansBacklog` are invariants for every set of tx queues, sizes, limits,
modes and numbers of packets.  `TypeOK` is not inductive: that the count of
packets stays above zero needs `StatsIdentities`, which ties it to the packets
really stored; that a stopped tx queue has packets needs the bytes of its device
queue to be those of its packets.  The inductive invariant `FlowControlInv` has
three parts:

* `QueueDiscInv`: types, `StatsIdentities`, `PeekedIsRetained`, and a quota of at
  least one while `Run` executes;
* `DeviceInv`: types, `StoppedMeansBacklog`, and `BytesOf`, which says that
  `devBytes` is the sum of the packet sizes through a witness (the function of
  the sums of all suffixes) and so needs no recursion;
* `SingleQueueNeverRequeues`.

What the device does is proved in lemmas about `StartTransmission`, which `Send` and
`TransmitComplete` share.

`NoWakeupIsLost` proves `NoLostWakeup` for every quota: when nothing runs and a packet
could be taken, a wake is under way or will be, except after a `Run` that used up its
quota with nothing after it.  The exception is the code's (the todo at
`queue-disc.cc:959`; the default quota is 64, the limits of the suite's queue discs are
above it), so that it is part of the property, and the history variable `quotaUsedUp`
says exactly when it applies.  `LargerQuotaIsNotUsedUp` proves that it never does when
`Quota > QdMax`: `QuotaCovers` says that what is left of the quota covers the packets
stored, so that `Run` ends for want of packets or because a tx queue is stopped.

`NeverDiscardsWhenExact` proves `NeverDiscards` under `CheckIsExact`: the limit of
the device queue is in packets, or the device adds no header.  This is exactly
what the run `flow_control_discard` lacks.  The strengthening `RoomUnlessStopped`
says that a tx queue the device does not stop has room for an MTU.

`ChannelInOrder` proves that packets of one tx queue reach the channel in the order
in which they arrived.  The invariant `OrderInv` puts every packet the device was
given before every packet of its tx queue that the queue disc holds, and the
requeued one before the internal queue.  `PacketsArriveAsSent` adds the headers
(`HeaderInv`: what is retained or was handed to the device has passed
`DequeuePacket`'s `AddHeader`) and needs `~ RootPeek`: a packet peeked at the root
gets none.  `SentIsCounted` says that `GetStats` counts what the device accepted.
`SentInv` holds with peeks too (what was dequeued and not dropped was handed over,
but for a retained packet, and a peeked one is not counted yet); the statistic
itself is wrong while a packet is peeked, which is the divergence above, so that
the theorem has the hypothesis `~ RootPeek`.

`FlowControlIsLossyFifo` is the refinement: with one tx queue the concatenation of
device queue, retained packet and internal queue is the queue of `LossyFifo`, and
every step is a step of it or a stutter.  A lemma gives this queue after each
handler; `SingleQueueNeverRequeues` is what makes the order come out right.  With
several tx queues there is no such fifo, and `ChannelInOrder` takes its place.

### Byte queue limits

`StoppedQueueIsCompleted` (`LimitsPromise`) and `DeviceQueueIsBounded` (`InFlightConsistent`)
hold for counters of any even number of values.  The arithmetic rests on `UUnique`
(the unsigned value of a number is known from any of its multiples of `Mod`) and
`USum` (unsigned values may be taken before or after a sum).  `CountersInv` says that
`m_numQueued` is, modulo `Mod`, `m_numCompleted` and the bytes in the device queue,
which are counted as a set of places so that an append and a removal at the head
change the count without recursion.  When the device queue is empty after a
completion the comparison of `Available` reduces to the limit itself, which is below
half of `Mod`: the promise, even though the counters may have wrapped, the limit
was computed with undefined overflows, and `m_adjLimit` began with any value.
`LimitsInv` adds how far `m_adjLimit` is ahead of the completed bytes, and that an
unstopped queue holds no more than a largest limit: a packet more stays below half
of `Mod`, where the sign of the difference is right.  `DeviceQueueIsBounded` has the
hypothesis `FirstAway`, that the uninitialized first value of `m_adjLimit` is not
within a packet of the change of sign; without it the property is false (Divergences).

### Simulator

`TimeNeverGoesBack` needs no hypothesis.  `KernelIsConsistent`, `EventsRunInOrder` and
`NoCancelledEventRuns` hold under `UidsSuffice`, that no uid is given twice: `m_uid` has
32 bits and wraps, and then they are false (Divergences).  The invariant `KernelInv`
says that uids are in the order of insertion and splits all events by their key:
those that wait come after the current event, those that ran do not.  Expiry and
order both follow from that split.

### Traffic source

`SendsAtItsRate`, `NoEventEscapes` and `EndsAtItsLimit` have one invariant.  The three
properties depend on each other: the bits add up because the send event that runs
is the one that was scheduled, at a time that the residual bits say (`SendDue`),
and that is so because every pending event is held by an identifier.  `BitsAccounted`
compares bits and ticks by their products with `Second` and `BitRate` and so needs no
division: `Truncated` is characterised by two inequalities, each interruption moves the
lower bound by less than a bit and each packet the upper one by at most a tick.

### Driver

`EachAqmIsEvaluatedOnce` (`EachAqmOnce`), `CompletionTimesAreRecorded` (`Recorded`) and
`CapacitiesAreTheSame` (`SameCapacity`) hold for every list of AQMs, number of flows and
set of times.  They share the invariant `DriverInv`: whatever is pending was scheduled by
`CreateScenario` and `RunSimulation` or is the stop of a flow, and the end of the
simulation is pending as long as it runs.  Since the event that closes the traces has the
uid before that of the end and the same time, an evaluation has one result
more as soon as it is run, so that the index of the loop counts the results.

* `EachAqmOnce` has no hypothesis.  `ListInv` says how the list and the index of the loop
  are related: as long as `CreateScenario` adds nothing the list is the one that
  `RunSimulation` found, and if it adds something the list is always longer than the
  number of evaluations begun, so that the loop never ends.
* `Recorded` has the hypothesis `StopsInTime`: every flow is to stop before the simulation
  does (in the scenario at 300 s of 310 s).  `FlowsInv` says that a flow that has
  not stopped has a stop event pending or still to be scheduled, which is earlier than
  the event that closes the traces.
* `SameCapacity` has the hypothesis `ChangesInPairs`: an even number of changes, all of
  them within the simulation (in the scenario 14, at 20 s to 280 s).  `RatesInv` says that
  the changes that ran are the earliest ones, that the k-th set the rate of its
  parity, and that `m_state` has the parity of their number; all have run
  when the simulation ends, so that the next evaluation finds `m_state` as the
  first did.  With an odd number of changes every other AQM would be evaluated with
  the capacities exchanged: the results are comparable only because 14 is even.

### FqCoDel

`FlowsAreListed` and `LimitIsKept`: lists without repetitions and one list per
status; stored packets are counted as a set of places, and the overload drop
removes at least the packet that was one too many since the fattest flow, a
maximum that exists by the least-number principle, is not empty.  `SharesAreFair`
bounds the lead of one backlogged old flow over another.  The invariant adds what is
left of the deficits to the lead (`Credit`): among two competing flows the one that
comes first in the list is at most a bounded amount ahead and at most one quantum
more behind (`TurnsAlternate`).  The proof showed that the bound must
depend on which of quantum and packet is larger: with a quantum above the packet
size a flow that has just become old may lack nearly a quantum, not a packet.

### CoDel

`CoDelDelivers` proves `BackloggedDelivers`: CoDel returns a packet whenever it had
one, for every width of the clock and every parameter, and however a build
subtracts signed integers.  The strengthening says
that in each state in which a packet was judged droppable another one is still
queued (`OkToDrop` requires a backlog of at least `MinBytes`, which is at least 1), and
that an empty queue between two calls has `m_firstAboveTime` unset, since the last
packet taken left no backlog behind it.

`DropsArePersistent` and `StandingQueuesAreControlled` prove the other two
properties, by one invariant (`DropInv`): a `m_firstAboveTime` that is set is an
interval after the moment at which packets began to be above target, or, if that
interval ended when the clock was 0, after some later moment (`IntervalKept`).  The
lemmas about the clock relate a comparison of two wrapped times to the moments
themselves: `ComparedSoon` says that a moment at most half a period earlier is taken
for a later one only by signed comparison across a change of sign, `ComparedLate`
the converse.  That the exceptions of the two properties are all there are is thus
proved for every width of the clock; the run reaches each of them.

### Test driver

`InterruptIsBounded`: the jobs started after SIGINT are no more
than the workers, for every number of workers, jobs and exceptions.  The bound on
`late` is not inductive; the strengthening counts the workers that have passed
`Check` and not yet started their process (`Committed`) together with `late`: once
`thread_exit` is set, which nothing undoes, no worker becomes committed, and a
start moves a worker from one count to the other.  `NoJobIsLost` proves `Accounted`
from `JobInv`: each job is in exactly one of the places it can be in, and the places
are counted as disjoint sets.  `ExitStatusIsHonest` adds to it what the results say of
a job (`HonestInv`): a job that was not run is marked before it is given back, and
the counts of the main thread are those of the collected jobs, so that all of them
passed or were skipped exactly when the counts add up to the number of jobs.

### Visualizer

`MessagesAreShownOnce` and `PlayHasATimer` are inductive together, with the shape
of the stack of nested callbacks: only the innermost can hold messages, and each
belongs to another timer.

### Result scripts

`EllipseRowsAreThoseOfIntervals` proves `EllipseRows` for files of any length: what the
single pass over the samples writes is what the definition by intervals says.  The
invariant `EllipseInv` is about the part of the files that has been read: the
intervals before the current one have their rows, the lines of throughput that were
taken are those before the last of these intervals, and the sum is over the
samples of the current interval but its first.  The comparison of a sample with its
predecessor suffices only because the files are in the order of time (`FilesInOrder`), which is
part of the invariant.

`FlowSeriesAreThoseOfRecords` proves `FlowSeriesOfRecords` for any number of flows and
lines, equal ones too, any window, and any order of numbers as text in which no two numbers
are the same (`SeriesAssumption`).  A goodput series is that of the lines of its flow but
one; a drop series is defined as the code makes it, with the gaps of the flows before, and
what is proved is that nothing else is mixed or lost.  It has three parts:

* `ListedInOrder`: the list of a set in a strict total order exists, since the places of
  the members are as many as the members (`PlacesAreTaken`);
* `RoundsInv`, about the loop over the records of one flow: the records added up are those
  within a window of one that is not, the last of these is remembered, and each
  point has the records before it.  That the recursive function of the rounds exists
  (`RoundsFollow`), and this invariant, follow from the least-number principle;
* `SeriesInv`, about the pass over all lines: the flows below the current one have their
  series, and what survives a flow (`a`, `inst_data`, the length of `File`) says which
  flows there were.  `CollectedIsKept` is where the comparison of neighbours
  matters: at the last line of a flow what was collected is all of its records but the one
  that is last as text.

### Only model-checked

Liveness (`Drains`, `NoStarvation`, `Ends`, `PlayAdvances`, `QuitEnds`), which is out of
reach of the prover.  Every other property of the passing runs is proved.

## Not modelled

Receiving, addresses, the wire format, formatting of the output files, the
plotting and the ellipse itself, `delay_process.py` (its sorted lines are not used), the
control laws of PIE, COBALT and RED and the Newton iteration of CoDel (real
numbers), TCP, and the rest of ns-3.  Bytes are not counted by `QueueDisc`: its
limit is in packets, and each byte counter moves with its packet counter.  The
removal of a queue disc during a simulation is not modelled.  Of `test.py` the
search for tests, the options and the translation of the report are left out, of
the visualizer everything that draws.

Almost all Python lines of the repository are the generated bindings
`*/bindings/modulegen__*.py`, declarations of the C++ interface with no state and
no control flow: there is nothing to model in them, whatever share of the lines
that leaves uncovered.  The other Python programs (`utils/grid.py`, `rad_util.py`,
`wutils.py`, `waf-tools`, `check-style.py`, `ipython_view.py`) configure the build,
check style or draw.

## Plan

Where a run can make room: the child classes and bands of Prio and PfifoFast with the
root `QueueDisc`; Mq with `WAKE_CHILD`; the token buckets and the watchdog of TBF, whose
child is peeked; the burst state of PIE; the windows and time stamps of
`EvaluationTopology`; the real-time simulator with its synchronizer.
