--------------------------- MODULE SerialTaskQueue ---------------------------
(***************************************************************************)
(* edm::SerialTaskQueue (FWCore/Concurrency): a lock-free queue that hands *)
(* its tasks to TBB one at a time.  One action per atomic access, so that  *)
(* the interleavings of pickNextTask() with push(), pause(), resume() and  *)
(* the end of a task are all present.                                      *)
(*                                                                         *)
(* A thread is a TBB worker (or the main thread).  Its position inside the *)
(* queue's code is pc; "idle" means that it is outside of the queue's      *)
(* code: inside the action of running[th] if it runs one, in the scheduler *)
(* or in client code otherwise.                                            *)
(***************************************************************************)
EXTENDS Naturals, Sequences

CONSTANTS Tasks,     \* the functors clients may push
          NoTask,    \* "no functor"
          Threads,   \* TBB worker threads
          MaxPauses  \* bound: pause() is called at most this often

ASSUME TaskAssumption == NoTask \notin Tasks
ASSUME PauseAssumption == MaxPauses \in Nat

VARIABLES tasks,       \* m_tasks
          taskChosen,  \* m_taskChosen
          pauseCount,  \* m_pauseCount
          pauses,      \* number of pause() calls so far
          pc,          \* per thread: next access of the queue's code
          op,          \* per thread: the public operation it is in
          running,     \* per thread: the task whose execute() it is in
          waiting,     \* per thread: the task its pushAndWait() waits for
          status,      \* per task: where it is in its life
          lifetime,    \* the queue object: alive, in its destructor, gone
          missed       \* history: a second clear left a task behind

queueVars == <<tasks, taskChosen, pauseCount>>
vars == <<tasks, taskChosen, pauseCount, pauses, pc, op, running, waiting,
          status, lifetime, missed>>

(* pickNextTask(), access by access: the pause count, the first           *)
(* compare_exchange, try_pop, the clear, empty(), the second               *)
(* compare_exchange, try_pop and clear.                                    *)
PickSteps == {"count", "cas1", "pop1", "clear1", "empty", "cas2", "pop2", "clear2"}
PC == PickSteps \cup {"idle", "dtorEmpty", "dtorFull"}
Ops == {"none", "push", "pushAndWait", "next", "resume", "finish"}
Status == {"new", "queued", "spawned", "running", "finishing", "done"}

Init == /\ tasks = <<>> /\ taskChosen = FALSE /\ pauseCount = 0 /\ pauses = 0
        /\ pc = [th \in Threads |-> "idle"]
        /\ op = [th \in Threads |-> "none"]
        /\ running = [th \in Threads |-> NoTask]
        /\ waiting = [th \in Threads |-> NoTask]
        /\ status = [t \in Tasks |-> "new"]
        /\ lifetime = "alive"
        /\ missed = FALSE

Goto(th, step) == pc' = [pc EXCEPT ![th] = step]
Enter(th, o) == Goto(th, "count") /\ op' = [op EXCEPT ![th] = o]

(* A client may call the queue from anywhere: the action of a running      *)
(* task, an unrelated TBB task, also one that runs on a thread blocked in  *)
(* pushAndWait().  Not once the destructor has begun, though.              *)
MayCall(th) == pc[th] = "idle" /\ lifetime = "alive"

-----------------------------------------------------------------------------
(* push(), pushAndWait() and pushAndGetNextTaskToRun(): the task enters    *)
(* m_tasks and the caller goes on to pickNextTask().  pushAndWait() blocks *)
(* its thread, so only a thread that runs no task of the queue calls it;   *)
(* the task pushAndGetNextTaskToRun() returns is returned from a TBB       *)
(* task's execute(), which is not one of this queue's.                     *)
EnqueueInFront(th, t) == \* mutant: last in, first out
    /\ status[t] = "new"
    /\ tasks' = <<t>> \o tasks
    /\ status' = [status EXCEPT ![t] = "queued"]
    /\ UNCHANGED <<taskChosen, pauseCount, pauses, running, missed>>

Enqueue(th, t) == /\ status[t] = "new"
                  /\ tasks' = Append(tasks, t)
                  /\ status' = [status EXCEPT ![t] = "queued"]
                  /\ UNCHANGED <<taskChosen, pauseCount, pauses, running, missed>>

Push(th, t) == /\ MayCall(th)
               /\ Enqueue(th, t)
               /\ Enter(th, "push")
               /\ UNCHANGED <<waiting, lifetime>>

PushAndGetNext(th, t) == /\ MayCall(th) /\ running[th] = NoTask
                         /\ Enqueue(th, t)
                         /\ Enter(th, "next")
                         /\ UNCHANGED <<waiting, lifetime>>

PushAndWait(th, t) == /\ MayCall(th) /\ running[th] = NoTask /\ waiting[th] = NoTask
                      /\ Enqueue(th, t)
                      /\ Enter(th, "pushAndWait")
                      /\ waiting' = [waiting EXCEPT ![th] = t]
                      /\ UNCHANGED lifetime

Pause(th) == /\ MayCall(th) /\ pauses < MaxPauses
             /\ pauseCount' = pauseCount + 1
             /\ pauses' = pauses + 1
             /\ UNCHANGED <<tasks, taskChosen, pc, op, running, waiting, status,
                            lifetime, missed>>

ResumePicksNothing(th) == \* mutant: the last resume() picks no task
    /\ MayCall(th) /\ pauseCount > 0
    /\ pauseCount' = pauseCount - 1
    /\ UNCHANGED <<tasks, taskChosen, pauses, pc, op, running, waiting, status, lifetime, missed>>

(* Each resume() balances one pause(); only the last one picks a task.     *)
Resume(th) == /\ MayCall(th) /\ pauseCount > 0
              /\ pauseCount' = pauseCount - 1
              /\ IF pauseCount = 1 THEN Enter(th, "resume") ELSE UNCHANGED <<pc, op>>
              /\ UNCHANGED <<tasks, taskChosen, pauses, running, waiting, status,
                             lifetime, missed>>

-----------------------------------------------------------------------------
(* The end of pickNextTask(), seen from the operation that called it.      *)

(* nullptr: the operation returns.  For finishedTask() that is the end of  *)
(* the task's execute().                                                   *)
ReturnNothing(th) ==
    /\ Goto(th, "idle")
    /\ op' = [op EXCEPT ![th] = "none"]
    /\ IF op[th] = "finish"
         THEN /\ status' = [status EXCEPT ![running[th]] = "done"]
              /\ running' = [running EXCEPT ![th] = NoTask]
         ELSE UNCHANGED <<status, running>>

(* A task: push(), pushAndWait() and resume() spawn it; execute() and the  *)
(* caller of pushAndGetNextTaskToRun() return it to TBB, whose scheduler   *)
(* bypass runs it next on the same thread.                                 *)
ReturnTask(th, t) ==
    /\ Goto(th, "idle")
    /\ op' = [op EXCEPT ![th] = "none"]
    /\ CASE op[th] = "finish" ->
              /\ status' = [status EXCEPT ![running[th]] = "done", ![t] = "running"]
              /\ running' = [running EXCEPT ![th] = t]
         [] op[th] = "next" ->
              /\ status' = [status EXCEPT ![t] = "running"]
              /\ running' = [running EXCEPT ![th] = t]
         [] OTHER ->
              /\ status' = [status EXCEPT ![t] = "spawned"]
              /\ UNCHANGED running

ReadPauseCount(th) ==
    /\ pc[th] = "count"
    /\ IF pauseCount = 0 THEN Goto(th, "cas1") /\ UNCHANGED <<op, status, running>>
                         ELSE ReturnNothing(th)
    /\ UNCHANGED <<queueVars, pauses, waiting, lifetime, missed>>

Exchange(th, at, success) == \* mutant: exchange() whose old value nobody looks at
    /\ pc[th] = at
    /\ taskChosen' = TRUE
    /\ Goto(th, success)
    /\ UNCHANGED <<tasks, pauseCount, pauses, op, running, waiting, status, lifetime, missed>>

CompareExchange(th, at, success) ==
    /\ pc[th] = at
    /\ taskChosen' = TRUE
    /\ IF taskChosen THEN ReturnNothing(th)
                     ELSE Goto(th, success) /\ UNCHANGED <<op, status, running>>
    /\ UNCHANGED <<tasks, pauseCount, pauses, waiting, lifetime, missed>>

TryPop(th, at, failure) ==
    /\ pc[th] = at
    /\ IF tasks = <<>>
         THEN Goto(th, failure) /\ UNCHANGED <<op, status, running, tasks>>
         ELSE ReturnTask(th, Head(tasks)) /\ tasks' = Tail(tasks)
    /\ UNCHANGED <<taskChosen, pauseCount, pauses, waiting, lifetime, missed>>

ClearForgotten(th) == \* mutant: m_taskChosen stays set after an empty try_pop
    /\ pc[th] = "clear1"
    /\ Goto(th, "empty")
    /\ UNCHANGED <<queueVars, pauses, op, running, waiting, status, lifetime, missed>>

Clear1(th) == /\ pc[th] = "clear1"
              /\ taskChosen' = FALSE
              /\ Goto(th, "empty")
              /\ UNCHANGED <<tasks, pauseCount, pauses, op, running, waiting, status,
                             lifetime, missed>>

NoSecondLook(th) == \* mutant: pickNextTask() ends after its first clear
    /\ pc[th] = "empty"
    /\ ReturnNothing(th)
    /\ UNCHANGED <<queueVars, pauses, waiting, lifetime, missed>>

TestEmpty(th) == /\ pc[th] = "empty"
                 /\ IF tasks = <<>> THEN ReturnNothing(th)
                                    ELSE Goto(th, "cas2") /\ UNCHANGED <<op, status, running>>
                 /\ UNCHANGED <<queueVars, pauses, waiting, lifetime, missed>>

(* The second clear is not followed by another look at m_tasks.            *)
Clear2(th) == /\ pc[th] = "clear2"
              /\ taskChosen' = FALSE
              /\ missed' = (missed \/ tasks # <<>>)
              /\ ReturnNothing(th)
              /\ UNCHANGED <<tasks, pauseCount, pauses, waiting, lifetime>>

CAS1(th) == CompareExchange(th, "cas1", "pop1")
CAS2(th) == CompareExchange(th, "cas2", "pop2")
Pop1(th) == TryPop(th, "pop1", "clear1")
Pop2(th) == TryPop(th, "pop2", "clear2")

PickNextTask(th) == \/ ReadPauseCount(th) \/ CAS1(th) \/ Pop1(th) \/ Clear1(th)
                    \/ TestEmpty(th) \/ CAS2(th) \/ Pop2(th) \/ Clear2(th)

-----------------------------------------------------------------------------
(* TBB takes a spawned task on any thread that is not busy with another    *)
(* one; a thread blocked in pushAndWait() does so as well.                 *)
RunSpawned(th, t) == /\ pc[th] = "idle" /\ running[th] = NoTask
                     /\ status[t] = "spawned"
                     /\ status' = [status EXCEPT ![t] = "running"]
                     /\ running' = [running EXCEPT ![th] = t]
                     /\ UNCHANGED <<queueVars, pauses, pc, op, waiting, lifetime, missed>>

(* The action returns, or throws and execute() swallows the exception;     *)
(* finishedTask() then clears m_taskChosen and picks the next task.        *)
FinishedTask(th) == /\ pc[th] = "idle" /\ running[th] # NoTask
                    /\ taskChosen' = FALSE
                    /\ status' = [status EXCEPT ![running[th]] = "finishing"]
                    /\ Enter(th, "finish")
                    /\ UNCHANGED <<tasks, pauseCount, pauses, running, waiting,
                                   lifetime, missed>>

(* wait_for_all() returns once execute() of the child has returned.  If it *)
(* was called by the destructor, that is the end of the queue.             *)
WaitForAll(th) == /\ pc[th] = "idle" /\ running[th] = NoTask
                  /\ waiting[th] # NoTask /\ status[waiting[th]] = "done"
                  /\ waiting' = [waiting EXCEPT ![th] = NoTask]
                  /\ lifetime' = IF lifetime = "destroying" THEN "destroyed" ELSE lifetime
                  /\ UNCHANGED <<queueVars, pauses, pc, op, running, status, missed>>

(* ~SerialTaskQueue(): no client is inside an operation any more, but a    *)
(* task may still run or be on its way out of finishedTask().  empty() is  *)
(* read first, m_taskChosen and the pause count after it.                  *)
Destroy(th) == /\ MayCall(th) /\ running[th] = NoTask
               /\ \A o \in Threads : /\ pc[o] = "idle" \/ op[o] = "finish"
                                     /\ waiting[o] = NoTask
               /\ lifetime' = "destroying"
               /\ Goto(th, IF tasks = <<>> THEN "dtorEmpty" ELSE "dtorFull")
               /\ UNCHANGED <<queueVars, pauses, op, running, waiting, status, missed>>

DestructorIgnoresRunning(th) == \* mutant: m_taskChosen is not looked at
    /\ pc[th] \in {"dtorEmpty", "dtorFull"}
    /\ pc[th] = "dtorEmpty" \/ pauseCount # 0
    /\ lifetime' = "destroyed"
    /\ Goto(th, "idle")
    /\ UNCHANGED <<queueVars, pauses, op, running, waiting, status, missed>>

DestructorSkips(th) == /\ \/ pc[th] = "dtorEmpty"
                          \/ pc[th] = "dtorFull" /\ pauseCount # 0
                       /\ ~taskChosen
                       /\ lifetime' = "destroyed"
                       /\ Goto(th, "idle")
                       /\ UNCHANGED <<queueVars, pauses, op, running, waiting, status, missed>>

DestructorWaits(th, t) == /\ \/ pc[th] = "dtorFull" /\ pauseCount = 0
                             \/ pc[th] \in {"dtorEmpty", "dtorFull"} /\ taskChosen
                          /\ Enqueue(th, t)
                          /\ Enter(th, "pushAndWait")
                          /\ waiting' = [waiting EXCEPT ![th] = t]
                          /\ UNCHANGED lifetime

-----------------------------------------------------------------------------
Client(th) == \/ \E t \in Tasks : Push(th, t) \/ PushAndGetNext(th, t) \/ PushAndWait(th, t)
              \/ Pause(th) \/ Resume(th) \/ Destroy(th)

Scheduler(th) == \/ PickNextTask(th) \/ FinishedTask(th) \/ WaitForAll(th)
                 \/ DestructorSkips(th)
                 \/ \E t \in Tasks : RunSpawned(th, t) \/ DestructorWaits(th, t)

Next == \E th \in Threads : Client(th) \/ Scheduler(th)

Spec == Init /\ [][Next]_vars

(* TBB keeps running threads that have something to do, actions end, and   *)
(* every pause() is balanced by a resume(), as its documentation demands.  *)
Fairness == /\ \A th \in Threads : WF_vars(Scheduler(th))
            /\ WF_vars(\E th \in Threads : Resume(th))

FairSpec == Spec /\ Fairness

-----------------------------------------------------------------------------
(* Types of the variables; a thread that is inside finishedTask() has a    *)
(* task, and the operation is "none" exactly outside of pickNextTask().    *)
TypeOK == /\ tasks \in Seq(Tasks)
          /\ taskChosen \in BOOLEAN
          /\ pauseCount \in Nat /\ pauses \in Nat
          /\ pc \in [Threads -> PC]
          /\ op \in [Threads -> Ops]
          /\ running \in [Threads -> Tasks \cup {NoTask}]
          /\ waiting \in [Threads -> Tasks \cup {NoTask}]
          /\ status \in [Tasks -> Status]
          /\ lifetime \in {"alive", "destroying", "destroyed"}
          /\ missed \in BOOLEAN

(* A task occupies the queue from the moment it is popped until its action *)
(* has returned.                                                           *)
Occupies(t) == status[t] \in {"spawned", "running"}

(* The reason for the class: never two tasks of one queue at work, however *)
(* many threads push, resume and finish at once.                           *)
MutualExclusion == \A t, u \in Tasks : Occupies(t) /\ Occupies(u) => t = u

(* Threads between a successful compare_exchange and try_pop's outcome.    *)
Holds(th) == pc[th] \in {"pop1", "clear1", "pop2", "clear2"}

(* m_taskChosen is a lock with a single owner, a picking thread or a task, *)
(* although the thread that sets it, the one that runs the task and the    *)
(* one that spawned it differ.                                             *)
SingleOwner ==
    /\ \A th, o \in Threads : Holds(th) /\ Holds(o) => th = o
    /\ \A th \in Threads, t \in Tasks : ~(Holds(th) /\ Occupies(t))
    /\ taskChosen <=> (\E th \in Threads : Holds(th)) \/ (\E t \in Tasks : Occupies(t))

(* The queue holds every waiting task once.                                *)
QueueHoldsWaiting ==
    /\ \A i \in 1..Len(tasks) : status[tasks[i]] = "queued"
    /\ \A i, j \in 1..Len(tasks) : tasks[i] = tasks[j] => i = j

(* A thread knows which operation it is in, and the task it executes is    *)
(* in its action or, inside finishedTask(), past it.                       *)
ThreadInOperation(th) ==
    /\ op[th] = "none" <=> pc[th] \notin PickSteps
    /\ op[th] = "next" => running[th] = NoTask
    /\ op[th] = "finish" => running[th] # NoTask
    /\ running[th] # NoTask =>
          status[running[th]] = IF op[th] = "finish" THEN "finishing" ELSE "running"

(* No task is executed by two threads.                                     *)
OneThreadPerTask ==
    \A th, o \in Threads : running[th] # NoTask /\ running[th] = running[o] => th = o

(* Who owns m_taskChosen and where every task is: the inductive reason for *)
(* mutual exclusion.                                                       *)
Ownership == /\ MutualExclusion
             /\ SingleOwner
             /\ QueueHoldsWaiting
             /\ \A th \in Threads : ThreadInOperation(th)
             /\ OneThreadPerTask

(* The whole inductive invariant, with the types.                          *)
Protocol == TypeOK /\ Ownership

Picking(th) == pc[th] \in PickSteps

(* No wake-up is lost in a single round of pickNextTask(): a task that     *)
(* waits in a queue which is neither paused nor busy has a thread on its   *)
(* way to it, unless a second clear has overlooked it.                     *)
QueuedHasPicker ==
    (tasks # <<>> /\ pauseCount = 0 /\ ~taskChosen /\ ~missed)
        => \E th \in Threads : Picking(th) \/ pc[th] = "dtorFull"

(* What push() documents: a task runs or waits until the resource becomes  *)
(* available.  A task nobody will come for breaks it.                      *)
NoTaskStranded ==
    (tasks # <<>> /\ pauseCount = 0 /\ ~taskChosen /\ lifetime = "alive")
        => \E th \in Threads : Picking(th)

(* Once the destructor of an unpaused queue has returned every task that   *)
(* was ever pushed has run its action.                                     *)
DestroyedAfterLastAction ==
    (lifetime = "destroyed" /\ pauseCount = 0)
        => \A t \in Tasks : status[t] \in {"new", "finishing", "done"}

(* The destructor has taken, or is about to take, the queue away while it  *)
(* is paused: nobody is left to resume it.                                 *)
AbandonedPaused == lifetime # "alive" /\ pauseCount > 0

(* Every pushed task is eventually run, provided pauses are resumed, and   *)
(* whoever waits for one in pushAndWait() or the destructor returns: the   *)
(* only exceptions are a task overlooked by a second clear and the         *)
(* destruction of a paused queue.                                          *)
PushedTaskRuns ==
    /\ \A t \in Tasks : status[t] = "queued" ~> (status[t] = "done" \/ missed \/ AbandonedPaused)
    /\ \A th \in Threads : waiting[th] # NoTask ~> (waiting[th] = NoTask \/ missed \/ AbandonedPaused)

-----------------------------------------------------------------------------
(* Refinement: the abstract executor's current task is the one that        *)
(* occupies the queue.                                                     *)
Current == IF \E t \in Tasks : Occupies(t)
             THEN CHOOSE t \in Tasks : Occupies(t)
             ELSE NoTask

Executor == INSTANCE SerialExecutor
              WITH pending <- tasks, current <- Current,
                   finished <- {t \in Tasks : status[t] \in {"finishing", "done"}}

(* Tasks are run in push order, one at a time and once each, whatever the  *)
(* threads do.                                                             *)
ImplementsExecutor == Executor!Spec
=============================================================================
