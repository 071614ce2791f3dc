# Verification of the CMSSW framework core

CMSSW is the event-processing software of the CMS experiment: a framework in
C++ and many packages of physics modules that it runs. This directory holds
TLA+ specifications of the part that decides *what runs when, and what may run
together*: the concurrency primitives of `FWCore/Concurrency`, and the code of
`FWCore/Framework` that is built on them. The physics packages are clients of
this core; they are numerical code with little control and are not modelled.

Paths below are relative to `src/`.

## 1. Inventory

The framework runs on Intel TBB. Work is cut into tasks; what a thread may not
do at the moment is queued instead of blocked on a mutex. The layers, from the
bottom:

| Component | State | Operations | What makes it correct |
|---|---|---|---|
| `SerialTaskQueue` (`FWCore/Concurrency`) | `m_tasks`, `m_taskChosen`, `m_pauseCount`, three separate atomics | `push`, `pushAndWait`, `pushAndGetNextTaskToRun`, `pause`, `resume`, end of a task, destructor | one task at a time, in push order, each once; none is forgotten |
| `WaitingTaskList`, `WaitingTask`, `WaitingTaskHolder` | lock-free list, `m_waiting`, node cache; reference count and exception per task | `add`, `doneWaiting`, `announce`, `reset`; `dependentTaskFailed` | a task is spawned once, after its last dependency, and knows of a failure |
| `SerialTaskQueueChain` | an ordered list of queues, `m_outstandingTasks` | `push`, `pushAndWait`, `passDownChain`, `actionToRun` | actions with a common queue exclude each other, pauses balance, no circular wait |
| `LimitedTaskQueue` | N serial queues, a flag shared by the N copies of an action | `push`, `pushAndWait`, `pushAndPause`, `Resumer` | at most N actions, each once; a `Resumer` lowers N by one while it lives |
| `SharedResourcesRegistry` | per resource a counter and a queue, the number of legacy modules | `registerSharedResource`, `createAcquirer` | conflicting modules meet in a queue; one global order of queues |
| `EventProcessor`, lumis and streams | the source's position, `iovQueue_`, `lumiQueue_`, a `LuminosityBlockProcessingStatus` per lumi, a queue per stream, the deferred exception | `processLumis`, `beginLumiAsync`, `readNextEventForStream`, `handleNextEventForStreamAsync`, `streamEndLumiAsync`, `globalEndLumiAsync`, `endUnfinishedLumi`, `runToCompletion` | events see their own lumi, run and interval of validity; begins and ends pair up; the job ends |
| File and run transitions (`TransitionProcessors.icc`) | current run, "normal end" flags | the nested loops over files, runs and lumis | begins and ends pair up also when a transition throws |
| `Worker`, `Path`, `StreamSchedule` | per module and event: `state_`, `workStarted_`, `waitingTasks_`, `numberOfPathsLeftToRun_`; per path: its state; `skippingEvent_` | `doWorkAsync`, `prefetchAsync`, `runModuleAfterAsyncPrefetch`, `skipOnPath`, `runNextWorkerAsync`, `workerFinished`, `processOneEventAsync`, `finishedPaths`, `finishProcessOneEvent` | a module runs once per event however many paths need it; a path's verdict follows from its modules' results; an exception ends the event, the path or nothing, as configured; the event ends |
| Product resolvers, `Principal` | per product: status, request flags, waiting tasks | `prefetchAsync`, `putProduct`, `resetProductData` | a product is made once, and every reader is released, not before it is known whether the product comes |
| `EarlyDeleteHelper` | counters of paths and of readers | `moduleRan`, `pathFinished` | a product is deleted once, when no reader is left |
| Check of module dependencies (`PathsAndConsumesOfModules.cc`, `throwIfImproperDependencies.cc`) | the graph of what waits for what; the visitor's stack and known cycles | one walk before the first event | a schedule that would wait for ever is refused, one that would not is let pass |
| `GlobalSchedule`, transitions of runs and lumis in the modules | per transition | `processOneGlobalAsync` | each module is told once |
| Input source, EventSetup, SubProcess, loopers, output modules | see `PROJECT.json` | | |
| `SingleConsumerQ`, message logger | ring of buffers, pool of buffers | get / commit / release for a producer and a consumer | buffers are neither lost nor duplicated |
| Services, parameters, plugins, online source, conditions, DQM, mixing, physics packages, Python configuration | see `PROJECT.json` | | |

`PROJECT.json` lists every component with its sources and the reason when it is
not modelled.

**How they interact.** A module that declares shared resources is given a
`SharedResourcesAcquirer` by the registry; it is a chain over serial queues. A
`Worker` pushes its module to that chain. What waits for a product or a module
waits in a `WaitingTaskList`, whose nodes are reference counts on TBB tasks. In
an event the paths of a stream go through their workers at the same time; a
worker is started by the first path or reader that comes to it, asks the
resolvers of all products its module consumes, and these start the workers of
modules that are on no path. A path that is left early tells its later workers
that it will not come, and the helpers of all its workers that their readers may
not come. The
`EventProcessor` orders transitions with four kinds of queues: the source's
resource chain, one serial queue per stream, `iovQueue_` (paused by each lumi
that uses the loaded interval of validity) and `lumiQueue_` (a limited queue;
a lumi keeps a `Resumer`). The main thread only blocks in `processLumis()` and
`endUnfinishedLumi()`: between these the streams carry themselves from event to
event and from lumi to lumi.

**What is hard here.**
- *Interleavings of atomics*: `pickNextTask()`, `add()` against `announce()`.
- *Check-then-act*: the pause count is tested before the queue is taken; the
  interval of validity is compared before the lumi is queued.
- *Ordering*: who may end a lumi, which of several streams starts the next one,
  which functor still holds a pointer after the object has been recycled.
- *Failures*: any transition may throw while others are under way, and what has
  been begun must be ended.
- *Circular waits*: chains that hold one queue and wait for the next; a lumi
  that waits for another which only the blocked main thread could end; modules
  that wait for data of modules behind them on a path, which only the check
  before the first event can find out.
- *Counters that several parties lower*: the paths left to a worker, the paths
  left to a reader, the readers left to a product, the references of a task.

The list of hazards with their lines, and the properties aimed at each, is in
`PROJECT.json`.

## 2. Modules

```
SerialExecutor  <== refined by ==  SerialTaskQueue  == refines ==>  TaskQueues
   (promise)                      (atomic accesses)               (clients' view)
                                         |                         |          |
                                              SerialTaskQueueChain  LimitedTaskQueue
WaitingTaskList      SharedResourcesRegistry      LumiProcessing
StreamSchedule <-- schedules it lets pass -- DependencyCheck      (composed by MCStreamSchedule)
*Proofs modules extend their component and TLAPS (StreamScheduleEventProofs extends StreamScheduleProofs);
MC* modules and .cfg files give constants values.
```

### SerialTaskQueue (`FWCore/Concurrency/src/SerialTaskQueue.cc`)
One action per atomic access of `pickNextTask()`; a thread's `pc` says which
access is next: the pause count, the first `compare_exchange`, `try_pop`, the
clear of `m_taskChosen`, `empty()`, the second exchange, `try_pop` and clear.
`status` follows each task from `push()` to the end of `finishedTask()`.
`pushAndWait()` blocks a thread outside of the queue's code, where TBB may let
it run other tasks. The destructor reads its three conditions one by one and
ends by pushing an empty task and waiting for it. `missed` is a history
variable: the second clear has left a task behind.

Memory is sequentially consistent: all accesses use the default
`memory_order_seq_cst` there, and `tbb::concurrent_queue` is linearizable (external).

`SerialExecutor` is the promise: pending tasks in push order, at most one
current task, each completed once. `SerialTaskQueueClientView` shows that the
queue also implements one queue of `TaskQueues`, with all its picks, so that the
modules below stand on a checked abstraction, for safety and for progress.

### TaskQueues, SerialTaskQueueChain, LimitedTaskQueue
`TaskQueues` has several serial queues as their clients see them. The two halves
of a pick stay apart: `asked` picks have yet to read the pause count, `passed`
picks have read zero and will take the next task *whatever the pause count is
by then*. This is what makes a paused queue able to start one more task. A pick
ends in one of three ways: it takes the task in front (`Take`); it finds the queue
busy, empty or chosen by another pick that is still under way (`GiveUp`); or its
second clear leaves a waiting task behind (`Miss`). The latter is finding 1 as the
clients meet it. `Miss` is a bit more than the code does, because any pick may end
so. The history variable `missed` remembers it, and `Stranded(q)` says that a
functor waits in a queue that is open and in which this has happened.

`SerialTaskQueueChain` is `passDownChain()`/`actionToRun()`: in each queue's
functor the queue is paused and the functor pushed on; the last runs the action
and resumes the queues, one step each, in reverse. `pushAndWait()` keeps the
reference counts of the waiting task, and the step in which its creator gives
its own back.

`LimitedTaskQueue` pushes a copy of each action to every queue, one step per
queue; the copy that wins the shared flag runs it. `resumers` counts the live
`Resumer`s of a `pushAndPause()` action, which may be copied and dropped in any
order by any thread.

Both have the history variable `late`: a functor has started in a paused queue.
Exclusion and the limit hold only as long as that has not happened; and what
chains and limited queues promise about progress has the exception of `missed`;
see "Findings".

### WaitingTaskList (`WaitingTaskList.cc`, `WaitingTask.h`, `WaitingTaskHolder.h`)
One action per atomic access of `add()`, `announce()` and `doneWaiting()`: the
test of `m_waiting`, the exchange of `m_head`, the store of the successor (a
node is linked to itself until then and `announce()` spins on it), the recheck,
the store of `m_waiting`, the walk. A task has one reference for the list and,
if it has one, one for a `WaitingTaskHolder`. `Reset` starts the next event when
every task has run and no call is under way, as the class comment demands. A
thread walks its list node by node; where a node's memory lives (which cache
array, or the heap) is part of the state.

### SharedResourcesRegistry (`FWCore/Framework/src/SharedResourcesRegistry.cc`)
Modules are constructed one after another, each declaring its resources in any
order; `beginJob` then creates the acquirers; a looper may replace a module by
one made from other parameters, which may declare any resources. The acquirers of
the other modules stay as they are; the history variable `sharedLate` remembers
that one of them would now be given a queue which it does not have. `Order` is the sort of `createAcquirer()`: by
number of users, then by name. Resource names are numbers in alphabetical order.

### LumiProcessing (`FWCore/Framework/src/EventProcessor.cc`)
`main` is the main thread in the loops of `TransitionProcessors.icc`, one step for
each call that may throw: `readFile()`, `openOutputFiles()`, `readRun()`,
`beginRun()`, ... `Throw` leaves the loops, after which the destructors of
`FilesProcessor`'s members end the lumi, the run and the files, in this order, and
`Outcome` is what `runToCompletion()` makes of it. `RunEnds` is
`~RunResources()`, in whichever thread lets go of the run last;
`lumi[k]` is a `LuminosityBlockProcessingStatus` with the phase its asynchronous
work has reached; `stream[s]` has the stream's status, what it does and its
queue. Functors in the source's queue exclude each other and are one step, all
their calls included. Each transition of the modules (`globalBegin`,
`streamBegin`, `event`, `streamEnd`, `globalEnd`) begins in one step and ends in
another, where it may throw. The end of a lumi is split where the code lets go
of its resources one by one: the interval, the principal, the slot in
`lumiQueue_`, the run. `locals` are the copies of a status inside functors that
have reported but not yet returned: they keep a principal or a run alive.

Assumptions: the source delivers a file, then a run, then a lumi, then events,
and says for each item in which run and lumi it is, as `InputSource::nextItemType()`
does (`OrderAssumption`); it is finite; no looper, no subprocess;
serial queues do not start a functor while paused (the gap that `SerialTaskQueue`
has is not repeated here).
There is one run at a time: the constructor refuses any other
`numberOfConcurrentRuns`.

### StreamSchedule (`StreamSchedule.cc`, `Path.cc`, `Worker.h/.cc`, `ProductResolvers.cc`, `EarlyDeleteHelper.cc`)
One event after another on one stream. `schedule` is the job's configuration and
never changes: which modules are on which paths with which filter action, what
they consume, how each may end, which products may be deleted early, which
modules select events by the trigger results and which `acquire()` first.
`path[p]` is a `Path` at one of its entries; `worker[m]` a `Worker` from
`doWorkAsync()` to the release of its waiting tasks; `product[d]` a resolver with
its request flag and its waiting tasks; `helper[m]` and `count[d]` the two levels
of counters of early deletion; `trig` the step between ordinary paths and the end
of the event (without an ordinary path there are no trigger results to wait for). The actions are the tasks: a path starts its next worker, a worker
asks for its inputs, runs, returns with one of its outcomes and settles its
state, the callback of a resolver releases readers, a path sees what its worker
has done and goes on or ends.

An exception is known by the action the job has configured for its category
(`Rethrow`, `SkipEvent`, `FailPath`, `IgnoreCompletely`). `Ignored` is
`shouldRethrowException()`, whose answer depends on which path *started* the
worker. Waiting tasks are modelled by what `WaitingTaskList` promises (a task
added before or after `doneWaiting()` is spawned once), which `WTL` checks.

### DependencyCheck (`PathsAndConsumesOfModules.cc`, `throwIfImproperDependencies.cc`)
The graph that `checkForModuleDependencyCorrectness()` builds, the depth first
search of boost (external) with the visitor's `tree_edge`, `finish_vertex`,
`back_edge` and `forward_or_cross_edge`, and the verdict on one cycle, as pure
operators; `Accepts(s)` is the answer for a schedule. The visitor reads
`m_stack.front()` when the stack may be empty, which is undefined: `slot` is the
edge that such a read finds in the vector's memory. `WaitsInCircle` and
`DataOnCycle` are independent definitions to compare with, by reachability.
The module has recursive operators and is for TLC only.

`MCStreamSchedule` enumerates schedules, gives `StreamSchedule` the real check as
`Admits`, and so composes the two: what runs is what the check lets pass.

## 3. Runs

Runs that must pass:

| Run | Question | Bounds and why they are enough |
|---|---|---|
| `STQ` | ownership of `m_taskChosen` (`Protocol`) and mutual exclusion; no lost wake-up within a round; destruction; refinement of both abstract queues; every task runs and every wait returns | 2 threads, 2 tasks, 2 pauses. Every pair of accesses of two threads interleaves; nested pauses occur. The safety part is proved for all sizes |
| `WTL` | no task is lost, spawned early or twice, or unaware of a failure | 3 threads (two adders and an announcer, or two announcers), 2 tasks, 2 events, a cache of 1, so that nodes come from the cache and from the heap |
| `STQC` | exclusion, balance of pauses, `pushAndWait()`, progress | 3 queues, a chain over all and one over the first two: both a common prefix and a longer chain that holds while it waits; every pick may leave a functor behind |
| `LTQ` | each action once, the limit, no overtaking, pauses equal live `Resumer`s, `pushAndWait()`, nothing is left behind | 2 queues, two pausing actions and one that is waited for: more actions than the limit, and a wait that may find its queue paused; a `Resumer` is copied while it is the only one, and its copies live together with that of the other action |
| `SRR` | conflicting modules share a queue, one order, queues are never made twice | 3 modules, 3 names (one the legacy name), 2 replacements with any resources: every order of legacy and other registrations, and resources that become shared only by a replacement |
| `LP_one` | principals, continuation over a file boundary, what is left open at the end, honest outcome, progress | 2 streams, 1 lumi at a time, two files with a common lumi, output files that may change with the input, a second run and interval, 3 failures (one of an event or lumi, one of what ends it, one of the cleaning up after that) of any transition or step of the main thread, a signal at any moment |
| `LP_two` | events and lumis belong together, intervals, the global end comes last, a failed global end stops further lumis | 2 streams, 2 concurrent lumis, 2 intervals, 2 runs, 1 failure, an output limit, functors that return late |
| `SS` | the check of dependencies is sound and, for a single path, exact; a module runs once and only when needed; its inputs are settled; verdicts of paths, outcome of events; early deletion; what the code asserts; every event ends | 3 modules and some 3900 schedules in seven families: all orders of the modules on two paths with up to two dependencies (three on one path), a product wanted by a third path that two others may make or give up, and smaller families for exceptions, vetoes, repeated modules, event selection (with and without an ordinary path to select by) and `acquire()`, also with one of two inputs ignored. The counters reach the cases that matter: two paths and two readers for one product, a module twice on a path |

`SS` runs a schedule if the check lets it pass *and* nothing in it waits in a
circle (`Runnable`). The second condition is needed because of finding 2; without
it `EventFinishes` fails, and nothing else does.

Each invariant that a run lists includes the types it rests on: `Protocol`,
`SpawnedOnceInTime`, `PausesOwned`, `PausesAreResumers`, `PrincipalAvailable`,
`RegistryInv` and `AssertsHold` contain the module's `TypeOK`.

Runs that must find a violation: one for each finding of section 5
(`STQ_stranded`, `SS_hang`, `LP_hang`, `LP_full`).

Deadlock is not checked: each system may come to rest when its clients have
nothing more to do or its bound is used up. That it does not rest too early is
what the liveness properties say.

Symmetry is used in `LTQ` only, for the two interchangeable pausing tasks and
without liveness.

**Fairness.** `STQ`: weak fairness for each thread's steps inside the queue and
for spawned tasks (TBB keeps its workers running, actions end), and for
`resume()`, which the documentation of `pause()` demands; none for clients that
push. `WTL`: threads inside a call go on, holders go away, the owner of the
resource calls `doneWaiting()` in each event. `STQC`: workers go on and a push
that has begun is finished. `LTQ` has no fairness: that nothing is left behind is
an invariant of its resting states. `SS`: one weak fairness for all steps of an
event, since nothing in an event repeats: TBB runs the tasks that are there and
modules return; none for the start of an event. `LP_*`: the main thread, each lumi's work, each stream, and the functors that return late go
on; nothing is assumed about signals and failures.

## 4. Proofs

Checked by TLAPS for every value of the constants. Every safety invariant that a
run checks is a theorem, except for the one named at the end of this section.

Liveness under fairness is beyond the prover, and so is `ENABLED`. What can be
proved is the part of it in which the mistakes are: that the system does not come
to rest too early. `SerialTaskQueueProofs`, `SerialTaskQueueChainProofs`,
`WaitingTaskListProofs`, `LumiProcessingProofs` and `StreamScheduleEventProofs`
each write down the guards of the actions in question (`AtRest`, or `GoesOn` for
its opposite) and prove what holds where none of them does. That these guards are those of the actions TLC has
confirmed on the instances of section 3, by comparing them with `ENABLED`.

- `SerialTaskQueueProofs`. `ProtocolCorrect` is the inductive invariant: types and
  `Ownership`. Mutual exclusion alone is not inductive: a thread that clears
  `m_taskChosen` must be known to hold it, a popped task must have been waiting,
  the thread that ends a task must be the one that runs it. `Ownership` says that
  `m_taskChosen` is set exactly if one thread is between a successful exchange and
  its `try_pop`, or one task is at work, never both; that the queue holds exactly
  waiting tasks, once each; and which operation a thread is in. There is one lemma
  for each access. `MutualExclusionCorrect` and `QueuedHasPickerCorrect` follow.
  `DestroyedAfterLastActionCorrect`: nobody pushes once the destructor has begun,
  so the task it pushes and waits for is the last of the queue, and when it is
  done so are all others (`Destruction`).
  `NothingWaitsAtRest` is the safety half of `PushedTaskRuns`: when every thread is
  idle, TBB has no task of the queue and every pause of a living queue has been
  balanced, each task ever pushed has been executed and each `pushAndWait()` has
  returned, with the two exceptions of that property. It takes `QueuedHasPicker`,
  the lock (`SingleOwner`), that a waiting task is in the queue (`QueuedIsHeld`),
  that one at work is on a thread (`OnThread`), and that a thread waits only for a
  task that was pushed. `AtRest` is stricter than the guards in one case: a thread
  in the destructor can go on in the code, but not in an instance whose tasks have
  all been pushed.
  `ImplementsExecutorCorrect`: a push is a `Submit`, a successful `try_pop` a
  `Choose`, the end of an action a `Complete`, all else stutters.
  `ImplementsClientViewCorrect`: one queue of `TaskQueues` counts the picks that
  are asked for and those that have passed the pause count; they are the
  cardinalities of two sets of threads, and one lemma says how a step of one
  thread changes them.
- `SerialTaskQueueChainProofs`. `PausesAlwaysOwned`, `WaitAlwaysOutlastsAction`,
  `ActionsExcludeEachOther`, for any set of chains. `Places` ties the place of
  every functor (pushed, in front, at work) to the level its task has reached, and
  the level to the references left to the waiting task; `Uncrossed` says that two
  tasks hold the same queue only if a functor was late. `FinitelyMany` makes the
  chain's task counter a cardinality.
  `NothingHeldAtRest` is the safety half of `ActionRunsAndReleases`: at rest a
  second clear has stranded a functor in an open queue, or no functor waits, no
  queue is paused and no counter is up. A task that has entered
  its chain is in the queue it has reached (`OnTheWay`), and an open queue with
  functors has a pick on its way unless one was missed there (`Awake`); so at rest the task at the highest
  queue would have to run. This needs that all chains take their queues in one
  order (`InOneOrder`), which is what `createAcquirer()` sorts for
  (`OrderUntilReplaced`): with two chains that cross, TLC finds the deadlock.
- `LimitedTaskQueueProofs`. `ActionAlwaysOnce`, `WaitAlwaysOutlastsAction`,
  `NeverOvertakes`, `LimitHoldsUnlessLate`, `PausesAlwaysResumers`. `Flags` and
  `Copies`: only the copy
  that won the flag acts. `EveryQueue`: until the action runs, each queue that the
  loop of `push()` has passed still has a copy. `Order`: the copy of an earlier
  task is in front of a later one's in *every* queue, which is what makes the order
  independent of the queue that is free first. `OneUser` (until a functor is late):
  a queue is used by one task and paused as often as this one has `Resumer`s, so
  that users inject into queues and the limit is a fact about cardinalities.
  `PausesAlwaysResumers` holds for late functors, too: several tasks may then pause
  one queue, and its count is the sum of their `Resumer`s. The lemmas `Sum...` say
  what `SumFunctionOnSet` is, although it is a fold.
  `NothingEverLeftBehind`: when every push is over, every `Resumer` gone and no
  pick under way, copies wait only where a second clear has left them; and unless
  that is so in every queue, every action has run and `pushAndWait()` may return
  (`MayReturn` is the guard of that step): a copy in each queue means that one
  queue which drains is enough.
- `WaitingTaskListProofs`. `ListedIsAnnouncedCorrect`: the argument of the comment
  in `add()`, that only the thread which found an empty list has to look at
  `m_waiting` again. `AlwaysSpawnedOnceInTime` and `FailureAlwaysReachesTasks` need
  more: every node is led to from one place only, the head, another node or a
  thread's pointer (`LedOnce`); what is led to still owes its task one reference
  (`LedIsOwed`); and the references of a task are those of the list and of the
  holder (`Counted`).
  `NoTaskEverLost` is the converse, the safety half of `AddedTaskRuns`: when
  `doneWaiting()` was called and every thread is out of the list, or would spin on
  a node for ever, each task that was added has been spawned. "Reachable from
  `m_head`" would need induction over the list; instead, no set of tasks to which
  the list owes a release is cut off from the head, the threads and the nodes
  outside of the set (`NoneCutOff`).
- `SharedResourcesRegistryProofs`. `RegistryCorrect`: a resource with two users
  has a queue, whatever the order of registrations. The strengthening relates
  each counter to the number of legacy modules. `QueueStaysCorrect`: no queue is
  ever replaced. `ConflictsMeetUnlessSharedLate`: what a module would be given now
  it holds, unless a replacement has made one of its resources shared after its
  acquirer was made (`Served`); and of two modules that share a resource each
  would be given its queue. `OrderUntilReplacedCorrect`:
  an acquirer was sorted by counts that cannot change once the modules have begun
  (`SortedUntilReplaced`). Both need that a finite set can be listed in order
  (`ListingExists`).
- `StreamScheduleProofs`: paths and workers, for any modules and schedules.
  `CoreAlways` is the invariant. A worker's phases follow each other and its result
  is that of its run; a path knows the results of the entries it has passed
  (`Followed`) and has ended for a reason (`Ended`); the counter by which a worker
  learns that it will not run is the number of its places that are not yet `Gone`;
  a worker that has begun is needed by a path that stands at it or by another
  worker (`Needed`). `AlwaysRunsOnceWhenNeeded` and `VerdictOfPathHolds` follow.
- `StreamScheduleEventProofs`: products, deletion, exceptions and the end of the
  event, on top of the former. `Resolvers`: what a resolver tells its readers is
  `Sealed`, that is, its worker will not decide otherwise later. `Inputs`: a worker
  ran only with every input sealed. `Deletions`: a helper's counter is the number
  of places of its module that are not passed, a product's counter the number of
  its readers whose helper is not spent; no count falls below zero, and none comes
  to zero while a reader may still run. `Provenance` follows each exception back to
  a worker that raised it. `Waited` and `Grounded` are about the end: modules that
  are on no path cannot keep each other at work in a group when all paths have
  ended. With these, `AlwaysInputsSettled`, `AlwaysDeletedAfterLastReader`,
  `AlwaysOutcomeOfEvent` and `AlwaysAssertsHold`.
  Two theorems say why `EventFinishes` holds. `NeverStuckInEvent`: a stream that
  works on an event can take a step, if the modules that the job needs can be put
  in an order in which none waits for itself or a later one (`NoCircle`). A module
  at work that cannot go on waits for one that is at work, or for a path that waits
  for one, so the one of the lowest rank could go on. That this holds of modules
  which have not been started, too, is what `Moving` is for: a worker that no path
  is left for has released its tasks, and a product that was asked for and is on
  no path has a worker that was started. `StepsForward`: a step takes nothing back
  and brings a path, a worker, a product or the event further, each of which can go
  only so far. The hypothesis excludes what finding 2 is about and little else: of
  the 3917 schedules of `SS`, the 1644 without a circle in the graph of
  `DependencyCheck` all satisfy it, and so do 23 more; of the 1846 that the code's
  check lets pass, 342 do not.
- `LumiProcessingProofs`: the main thread, the streams and the functors of the
  lumis, for any source, any numbers of streams and of lumis in flight, and
  whatever throws. `InvariantHolds` is the conjunction that the others rest on.
  For the lumis: a phase fixes what is left of the status (`Phased`), lumis begin
  in the source's order (`Ordered`), a stream that has not ended a lumi is in one
  place only (`Placed`), `left` is the number of such streams (`Counted`), and
  statuses are never more than slots (`Slots`). For the main thread: which place of
  the state machine goes with which state of the lumis and of the source (`Quiet`,
  `Ended`, `AtSource`, `AtLumis`). `GlobalEndAlwaysLast` and
  `AllStreamsAlwaysContinue` follow. `NeverAfterFailedEnd` needs that an end which
  throws is recorded before the next begin is asked for (`Reported`).
  `IovAlwaysStable`: a lumi that holds an interval is in the run whose interval it
  is (`RunInv`). `EventsAlwaysInTheirLumi`: the item a stream reads belongs to the
  lumi that is open (`Synced`). Both need `OrderAssumption`.
  `PrincipalAlwaysAvailable`, for `"begin" \notin Slow`: what holds a principal is
  a lumi that is not over, and these are never more than slots.
  `NothingLeftOpen`, for `Slow = {}`: that no stream, slot or lumi is left follows
  from `InvariantHolds`; the rest says that main's run is the one in the cache
  until it leaves with it (`RunLeaves`), that what throws is in the outcome or on
  its way there (`FailureKnown`), and that main stops without an exception only
  when the source is at its end (`ReadAll`).
  `RestsOnlyBlocked` is the safety half of `CompletesUnlessBlocked`, for any
  source and any numbers: if nothing can take a step, the job is done, or main
  waits in `processLumis()` for a lumi that waits for another one in which a stream
  has stopped; and then something has thrown, or the streams have met two lumis in
  different orders (`Overtaken`). `OneLumiRestsOnlyFailed`: with one lumi at a time
  only a failure can do that.

The assumptions on constants are the named `ASSUME`s of each module: bounds are
natural numbers, null values are not tasks, and some sets are finite because the
code keeps their members in memory: the queues of a `LimitedTaskQueue` (a
`std::vector`), the modules of a job, the threads of a process. No theorem
bounds a size.

Induction over finite sets. The library's induction theorems take an operator,
which none of the provers can instantiate, but that the subsets of a finite set
are well-founded needs none: of any set of counterexamples one is minimal
(`MinimalSet`). Listings of sets and sums over them are proved in this way.

Some proofs failed for good reasons and changed the model. A schedule without an
ordinary path has no trigger results, which the model had let modules wait for;
it is now among the configurations. `InputsSettled` had said that a module which
runs has no failed input but an ignored one; in fact it may have several, because
its waiting task keeps only the first exception (`WaitingTask.h:64`) and
`acquire()` is skipped for that one (`Worker.cc:402`). The property now says this,
and the family `Ignoring` reaches it. The outcome of a job and the verdict on a
worker were written as `CASE`s whose guards overlap, of which TLC takes the first
and TLA+ any; they now say what comes first.

Only model-checked:
- liveness under fairness, of which the theorems named above are the safety
  halves. For an event of a stream little is left: that a step which remains
  possible is taken. For lumis, lists and queues TLC also has to show that they do
  not go on for ever without the task in question;
- of the invariants, only `CheckIsSound`: `DependencyCheck` is recursive.

## 5. Findings

1. **A task may be stranded** (`STQ_stranded`, `SerialTaskQueue.cc:93`). When the
   second `try_pop` of `pickNextTask()` fails, `m_taskChosen` is cleared without
   another look at the queue. A task pushed in between found the flag set and
   waits until somebody pushes, resumes or finishes again.
   The clients inherit this. In a chain the stranded task is a functor that keeps
   the queues before it paused, so that the actions of other chains wait as well,
   and a `pushAndWait()` blocks, until somebody pushes to that queue again. A
   limited queue is more robust, because each action has a copy in every queue: an
   action is lost, and its `pushAndWait()` blocks, only if every queue is stranded;
   with a limit of one that is the same as for a serial queue. `ActionRunsAndReleases`
   and `NothingLeftBehind` state these exceptions (`Overlooked`, `Stranded`); without
   them a `Miss` violates both.
2. **The check of dependencies lets schedules pass that cannot run** (`SS_hang`,
   `throwIfImproperDependencies.cc:494`). A cycle is taken for harmless if no path
   of its first edges is one of its last edges, even when every edge is a data
   dependency, although the comment at line 35 asks for two edges that are path
   dependencies only. Two modules that consume each other's products and stand on
   two paths in opposite orders pass the check; so do two other shapes in
   `Circular`. Each module then waits for the other, and the event never ends.
3. **A job may hang** (`LP_hang`, `EventProcessor.cc:1572`). A stream whose event
   has thrown stops without ending its lumi. If another stream has already
   started the next lumi, this one waits for the first to end, and
   `processLumis()`, after which the main thread would end it, waits for both.
   The proof of `RestsOnlyBlocked` has shown another way, without any failure. With
   two concurrent lumis the loops that push the begins of two lumis to the streams'
   queues overlap (line 1170), and a stream may meet the later lumi first. If it
   then stops there without ending it, because of a file boundary or an output
   limit, the begin of the earlier lumi waits in its paused queue, and
   `processLumis()` waits for ever. `RunsToCompletion` in the configuration of
   `LP_hang` shows it with `ConcurrentLumis = 2`, `MaxFailures = 0` and the source
   `File, Run(1, 1), LumiBlock(1, 1, 1), LumiBlock(1, 2, 1), File, Run(1, 1),
   LumiBlock(1, 2, 1), Event(1, 2, 1)`.
4. **An output limit may end in an exception** (`LP_full`,
   `EventProcessor.cc:1499`). The streams stop for the limit, but the last
   transition stays "event", which the loops of the main thread pass on to
   `runToCompletion()`, where it is a `BadTransition`. With two streams the job may
   also not end at all: if another stream has found the next lumi before the limit
   was reached, the last transition stays "lumi", the streams of the new lumi stop
   at once, and the main thread lets that lumi go on again and again
   (`RunsToCompletion` under `FairSpec` in the configuration of `LP_full`).

Seen while modelling, without a run of their own. Of the queues, lists and lumis,
where the window mostly needs a thread to be delayed for long:
- a paused queue may start one more task (`SerialTaskQueue.cc:77`): the pause
  count is read before the exchange, and a thread between the two starts the next
  task after the running one has paused the queue and finished. Chains and limited
  queues inherit this: their exclusion and their limit are stated under `~late`;
  checking `ResourceExclusive` or `LimitRespected` instead makes TLC produce the
  overlap;
- the functor that begins a stream's lumi holds a copy of the lumi's principal;
  if it returns after the lumi's end, the next lumi may find the pool empty
  (`assert(lbp)`, line 1428). `LP_two` has such functors and therefore does not
  list `PrincipalAvailable`;
- the functor that ends a stream's lumi may keep the run alive until the next
  run is read, which is then refused;
- an exception of the end of a run may be replaced by another one. When a new run
  replaces the old one (`TransitionProcessors.icc:163`) the old run ends inside the
  assignment; what it throws is deferred and the run stays in the cache, where
  `readRun()` finds it and throws "Illegal attempt to insert run into cache /
  Contact a Framework Developer", which is what the job reports. The end of a lumi
  is looked at in the same place (line 157), the end of a run is not.
  `JobLeavesNothingOpen` says that nothing else replaces an exception like this;
- if the first input or output files cannot be opened, nobody closes those that
  were (`FileResources` are made last, line 240), and an exception while closing
  the input keeps the outputs from being closed; after a failure between the files
  the input that is already closed is closed once more;
- the destructor of a `SerialTaskQueue` may return while the last task's
  `execute()` is still in `pickNextTask()`;
- `announce()` reads a node after spawning its task, when the next event's
  `reset()` may already have replaced the array the node was in;
- after a looper has replaced a module, acquirers made earlier and later may
  order two queues differently (`OrderUntilReplaced` is restricted to the
  modules of the configuration);
- the new module may also declare a resource that one other module uses. Only now
  is there a queue for it, and the other module, whose acquirer is not made again,
  does not hold it: the two may run together, although `createAcquirer()` says "The
  other modules using the same resource will not be run until the module that
  acquired the resources completes its task" (`SharedResourcesRegistry.cc:82`).
  Likewise for a legacy module that has come first. `MeetUnlessSharedLate` excludes
  what happens after such a replacement; `ConflictsMeet` in its place is violated.

Of the schedules:
- end paths "are not supposed to stop" for a `SkipEvent` exception, and `Worker.cc`
  keeps it from them so that later output modules still run. This holds for a
  worker that an end path has started. If the module is shared with an ordinary
  path that came first, or is on no path, the end path ends with the exception
  and the event fails (the first conjunct of `OutcomeOfEvent` names both cases);
- the first exception wins. If a `SkipEvent` of one path comes to the waiting task
  before the `Rethrow` of another, `finishedPaths()` clears it and the event is
  taken for a good one; likewise for a reader with several failed inputs (the
  last conjunct of `OutcomeOfEvent`);
- if all readers of a deletable product are given up before its producer has run
  on another path, the resolver is marked deleted, and the producer's put fails
  with "Attempt to insert more than one product" (`ProductResolvers.cc:419`,
  `fails` in `ModuleReturns`);
- an exception of `acquire()` itself that is ignored is followed by `produce()`
  (`Worker.cc:392`), one of the work that it has started elsewhere is not: the
  module counts as passed without having run (`Worker.cc:453`, `Worker.h:932`,
  `AcquireReturns`). A module that selects events never acquires (`Worker.h:873`);
- a module with an `acquire()` whose input has failed in a way that is ignored
  goes on to `produce()` without the `acquire()` (`Worker.cc:402`, `FailPrefetch`);
- the reset of a resolver's waiting tasks at a deletion may come while the put's
  `doneWaiting()` is still in `announce()`;
- the check also refuses schedules that would run: it has end paths wait for the
  trigger results, but end paths start together with the others.

## 6. Not modelled, and why

Of a stream's events: accumulators, products fetched without being declared
(`resolveProduct()`), the products of path status inserters, aliases and products
of earlier processes, input products that are read from a file on request, and
the queue of a shared resource around a module (`STQC` and `SRR` are about those
queues; that a worker holds them only while its module runs is assumed).
A product that may be deleted early is taken to be declared by all who consume
it, as `FWCore/Framework/test/test_readAfterEarlyDelete_fail_cfg.py` demands. The
steps of one task are one step where they touch only the event's own records;
`moduleRan()` and `pathFinished()` are such steps, although each makes several
accesses. Transitions of runs and lumis inside the modules (`GlobalSchedule`) only
appear as the transitions of `LumiProcessing`, each with a begin and an end.

The definitions of these modules stand for a few thousand lines of
`FWCore/Concurrency` and `FWCore/Framework`; as a share of the whole repository,
most of which is physics code in thousands of packages, this is next to nothing.

Reading and writing files, the conditions database, the online system's files
and directories, and message formatting are I/O. Parameter sets, plugins and the
Python configuration run once in one thread before the first transition. The
physics packages are called through `Worker`. Weak memory orders are not
modelled; the primitives above use the sequentially consistent default, except
for the first store into a list node, which no other thread can see yet.

## 7. Plan

Done: the modules above, in this order: serial queue, waiting tasks, chain and
limited queue over the clients' view, registry, lumis and streams, the events of a
stream with the check of dependencies; and the proofs of section 4, with the
safety halves of the liveness properties.

Next, by importance:
1. The end of a stranding: a `Miss` that needs another pick to have met the set
   flag, as in the code, and a `missed` that the next pick takes back.
2. `SingleConsumerQ`: the ring, the pool and the two conditions; type and bound
   invariants for any depth proved.
3. EventSetup: the interval found by several finders, as operators checked
   against a reference definition.

## 8. Running

`tlc -config STQ.cfg MCSerialTaskQueue.tla`, and so on with the module that
`PROJECT.json` names for each run; `tlapm SerialTaskQueueProofs.tla` for the
proofs. The largest run, `LTQ`, has 3.3 million distinct states; the longest, `SS`,
has half a million, but walks each schedule's graph first. Each takes at most about
two minutes on two workers.
