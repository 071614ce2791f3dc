------------------------ MODULE SerialTaskQueueProofs ------------------------
(***************************************************************************)
(* Proofs about SerialTaskQueue for any number of threads, tasks and       *)
(* pauses: its types, that no two tasks are ever at work at once, what the *)
(* destructor waits for, that nothing waits at rest, and both refinements. *)
(***************************************************************************)
EXTENDS SerialTaskQueueClientView, FiniteSetTheorems, TLAPS

(* What the sequence operators do to a non-empty queue. *)
LEMMA PopFacts ==
  ASSUME NEW S, NEW s \in Seq(S), s # <<>>
  PROVE  /\ Head(s) \in S /\ Head(s) = s[1] /\ Tail(s) \in Seq(S)
         /\ Len(s) \in Nat /\ Len(s) > 0
         /\ Len(Tail(s)) = Len(s) - 1
         /\ \A i \in 1..Len(s) - 1 : Tail(s)[i] = s[i + 1]
  OBVIOUS

(* push() adds one task at the end of the sequence.                        *)
LEMMA PushFacts ==
  ASSUME NEW S, NEW s \in Seq(S), NEW e \in S
  PROVE  /\ Append(s, e) \in Seq(S)
         /\ Len(s) \in Nat
         /\ Len(Append(s, e)) = Len(s) + 1
         /\ Append(s, e)[Len(s) + 1] = e
         /\ \A i \in 1..Len(s) : Append(s, e)[i] = s[i]
  OBVIOUS

-----------------------------------------------------------------------------
(* Every variable keeps its type, whatever the threads do.                 *)
LEMMA TypeInit == Init => TypeOK
<1> SUFFICES ASSUME Init PROVE TypeOK
  OBVIOUS
<1>1. /\ taskChosen \in BOOLEAN
      /\ missed \in BOOLEAN
      /\ lifetime \in {"alive", "destroying", "destroyed"}
  BY DEF Init
<1>4. pauseCount \in Nat /\ pauses \in Nat
  BY DEF Init
<1>5. tasks \in Seq(Tasks)
  BY DEF Init
<1>2. /\ pc \in [Threads -> PC]
      /\ op \in [Threads -> Ops]
      /\ status \in [Tasks -> Status]
  BY DEF Init, PC, PickSteps, Ops, Status
<1>3. /\ running \in [Threads -> Tasks \cup {NoTask}]
      /\ waiting \in [Threads -> Tasks \cup {NoTask}]
  BY DEF Init
<1> QED BY <1>1, <1>2, <1>3, <1>4, <1>5 DEF TypeOK

(* Every access keeps the types.                                           *)
LEMMA TypeNext == TypeOK /\ [Next]_vars => TypeOK'
<1> SUFFICES ASSUME TypeOK, [Next]_vars PROVE TypeOK'
  OBVIOUS
<1> USE DEF TypeOK, PC, PickSteps, Ops, Status
<1>1. CASE UNCHANGED vars
  BY <1>1 DEF vars
<1>2. ASSUME NEW th \in Threads, Client(th)
      PROVE  TypeOK'
  <2> USE DEF MayCall, Enqueue, Enter, Goto
  <2>1. ASSUME NEW t \in Tasks, Push(th, t) PROVE TypeOK'
    BY <2>1, PushFacts DEF Push
  <2>2. ASSUME NEW t \in Tasks, PushAndGetNext(th, t) PROVE TypeOK'
    BY <2>2, PushFacts DEF PushAndGetNext
  <2>3. ASSUME NEW t \in Tasks, PushAndWait(th, t) PROVE TypeOK'
    BY <2>3, PushFacts DEF PushAndWait
  <2>4. CASE Pause(th)
    BY <2>4 DEF Pause
  <2>5. CASE Resume(th)
    BY <2>5 DEF Resume
  <2>6. CASE Destroy(th)
    BY <2>6 DEF Destroy, queueVars
  <2> QED BY <1>2, <2>1, <2>2, <2>3, <2>4, <2>5, <2>6 DEF Client
<1>3. ASSUME NEW th \in Threads, Scheduler(th)
      PROVE  TypeOK'
  <2>1. ReturnNothing(th) => pc' \in [Threads -> PC] /\ op' \in [Threads -> Ops]
                             /\ status' \in [Tasks -> Status]
                             /\ running' \in [Threads -> Tasks \cup {NoTask}]
    <3> SUFFICES ASSUME ReturnNothing(th)
                 PROVE  pc' \in [Threads -> PC] /\ op' \in [Threads -> Ops]
                        /\ status' \in [Tasks -> Status]
                        /\ running' \in [Threads -> Tasks \cup {NoTask}]
      OBVIOUS
    <3>1. pc' \in [Threads -> PC] /\ op' \in [Threads -> Ops]
      BY DEF ReturnNothing, Goto
    <3>2. CASE op[th] = "finish"
      BY <3>1, <3>2 DEF ReturnNothing
    <3>3. CASE op[th] # "finish"
      BY <3>1, <3>3 DEF ReturnNothing
    <3> QED BY <3>2, <3>3
  <2>2. ASSUME NEW t \in Tasks, ReturnTask(th, t)
        PROVE  pc' \in [Threads -> PC] /\ op' \in [Threads -> Ops]
               /\ status' \in [Tasks -> Status]
               /\ running' \in [Threads -> Tasks \cup {NoTask}]
    <3>1. pc' \in [Threads -> PC] /\ op' \in [Threads -> Ops]
      BY <2>2 DEF ReturnTask, Goto
    <3>2. CASE op[th] = "finish"
      BY <2>2, <3>1, <3>2 DEF ReturnTask
    <3>3. CASE op[th] = "next"
      BY <2>2, <3>1, <3>3 DEF ReturnTask
    <3>4. CASE op[th] \notin {"finish", "next"}
      BY <2>2, <3>1, <3>4 DEF ReturnTask
    <3> QED BY <3>2, <3>3, <3>4
  <2>3. CASE ReadPauseCount(th)
    BY <2>1, <2>3 DEF ReadPauseCount, Goto, queueVars
  <2>4. CASE CAS1(th) \/ CAS2(th)
    BY <2>1, <2>4 DEF CAS1, CAS2, CompareExchange, Goto
  <2>5. CASE Pop1(th) \/ Pop2(th)
    <3>1. CASE tasks = <<>>
      BY <2>5, <3>1 DEF Pop1, Pop2, TryPop, Goto
    <3>2. CASE tasks # <<>>
      <4>1. Head(tasks) \in Tasks /\ Tail(tasks) \in Seq(Tasks)
        BY <3>2, PopFacts
      <4>2. ReturnTask(th, Head(tasks)) /\ tasks' = Tail(tasks)
        BY <2>5, <3>2 DEF Pop1, Pop2, TryPop
      <4>3. UNCHANGED <<taskChosen, pauseCount, pauses, waiting, lifetime, missed>>
        BY <2>5 DEF Pop1, Pop2, TryPop
      <4> QED BY <2>2, <4>1, <4>2, <4>3
    <3> QED BY <3>1, <3>2
  <2>6. CASE Clear1(th)
    BY <2>6 DEF Clear1, Goto
  <2>7. CASE TestEmpty(th)
    BY <2>1, <2>7 DEF TestEmpty, Goto, queueVars
  <2>8. CASE Clear2(th)
    BY <2>1, <2>8 DEF Clear2
  <2>9. CASE FinishedTask(th)
    BY <2>9 DEF FinishedTask, Enter, Goto
  <2>10. CASE WaitForAll(th)
    BY <2>10 DEF WaitForAll, queueVars
  <2>11. CASE DestructorSkips(th)
    BY <2>11 DEF DestructorSkips, Goto, queueVars
  <2>12. ASSUME NEW t \in Tasks, RunSpawned(th, t) PROVE TypeOK'
    BY <2>12 DEF RunSpawned, queueVars
  <2>13. ASSUME NEW t \in Tasks, DestructorWaits(th, t) PROVE TypeOK'
    BY <2>13, PushFacts DEF DestructorWaits, Enqueue, Enter, Goto
  <2> QED BY <1>3, <2>3, <2>4, <2>5, <2>6, <2>7, <2>8, <2>9, <2>10, <2>11, <2>12, <2>13
          DEF Scheduler, PickNextTask
<1> QED BY <1>1, <1>2, <1>3 DEF Next

(* The type invariant of edm::SerialTaskQueue holds in every reachable     *)
(* state.                                                                  *)
THEOREM TypeCorrect == Spec => []TypeOK
  BY TypeInit, TypeNext, PTL DEF Spec

-----------------------------------------------------------------------------
(* Ownership is inductive relative to the types.                           *)
LEMMA OwnershipInit == Init => Ownership
  BY DEF Init, Ownership, MutualExclusion, SingleOwner, Occupies, Holds, QueueHoldsWaiting,
         ThreadInOperation, OneThreadPerTask, PickSteps

(* push() adds a task that was nowhere else.                               *)
LEMMA EnqueueOwnership ==
  ASSUME TypeOK, Ownership, NEW th \in Threads, NEW t \in Tasks, Enqueue(th, t),
         NEW kind \in {"push", "next", "pushAndWait"}, Enter(th, kind),
         pc[th] \notin PickSteps, kind = "next" => running[th] = NoTask
  PROVE  Ownership'
<1> USE DEF TypeOK, Ownership, MutualExclusion, SingleOwner, Occupies, Holds, QueueHoldsWaiting,
            ThreadInOperation, OneThreadPerTask, PC, PickSteps, Enqueue, Enter, Goto, Ops
<1>1. MutualExclusion'
  BY PushFacts, TaskAssumption DEF TypeOK
<1>2. SingleOwner'
  BY PushFacts, TaskAssumption DEF TypeOK
<1>3. QueueHoldsWaiting'
  BY PushFacts, TaskAssumption DEF TypeOK
<1>4. (\A o \in Threads : ThreadInOperation(o))'
  BY PushFacts, TaskAssumption DEF TypeOK
<1>5. OneThreadPerTask'
  BY PushFacts, TaskAssumption DEF TypeOK
<1> QED BY <1>1, <1>2, <1>3, <1>4, <1>5

(* A spawned task is the one that holds m_taskChosen.                      *)
LEMMA RunSpawnedOwnership ==
  ASSUME TypeOK, Ownership, NEW th \in Threads, NEW t \in Tasks, RunSpawned(th, t)
  PROVE  Ownership'
<1> USE DEF TypeOK, Ownership, MutualExclusion, SingleOwner, Occupies, Holds, QueueHoldsWaiting,
            ThreadInOperation, OneThreadPerTask, PC, PickSteps, RunSpawned, queueVars
<1>1. MutualExclusion'
  BY TaskAssumption DEF TypeOK
<1>2. SingleOwner'
  BY TaskAssumption DEF TypeOK
<1>3. QueueHoldsWaiting'
  BY TaskAssumption DEF TypeOK
<1>4. (\A o \in Threads : ThreadInOperation(o))'
  BY TaskAssumption DEF TypeOK
<1>5. OneThreadPerTask'
  BY TaskAssumption DEF TypeOK
<1> QED BY <1>1, <1>2, <1>3, <1>4, <1>5

(* The thread that ends a task runs it, and clears m_taskChosen.           *)
LEMMA FinishedTaskOwnership ==
  ASSUME TypeOK, Ownership, NEW th \in Threads, FinishedTask(th)
  PROVE  Ownership'
<1> USE DEF TypeOK, Ownership, MutualExclusion, SingleOwner, Occupies, Holds, QueueHoldsWaiting,
            ThreadInOperation, OneThreadPerTask, PC, PickSteps, FinishedTask, Enter, Goto
<1>1. MutualExclusion'
  BY TaskAssumption DEF TypeOK
<1>2. SingleOwner'
  BY TaskAssumption DEF TypeOK
<1>3. QueueHoldsWaiting'
  BY TaskAssumption DEF TypeOK
<1>4. (\A o \in Threads : ThreadInOperation(o))'
  BY TaskAssumption DEF TypeOK
<1>5. OneThreadPerTask'
  BY TaskAssumption DEF TypeOK
<1> QED BY <1>1, <1>2, <1>3, <1>4, <1>5

(* Reading m_pauseCount changes no owner.                                  *)
LEMMA ReadPauseCountOwnership ==
  ASSUME TypeOK, Ownership, NEW th \in Threads, ReadPauseCount(th)
  PROVE  Ownership'
<1> USE DEF TypeOK, Ownership, MutualExclusion, SingleOwner, Occupies, Holds, QueueHoldsWaiting,
            ThreadInOperation, OneThreadPerTask, PC, PickSteps, ReadPauseCount, ReturnNothing, Goto, queueVars
<1>1. MutualExclusion'
  BY TaskAssumption DEF TypeOK
<1>2. SingleOwner'
  BY TaskAssumption DEF TypeOK
<1>3. QueueHoldsWaiting'
  BY TaskAssumption DEF TypeOK
<1>4. (\A o \in Threads : ThreadInOperation(o))'
  BY TaskAssumption DEF TypeOK
<1>5. OneThreadPerTask'
  BY TaskAssumption DEF TypeOK
<1> QED BY <1>1, <1>2, <1>3, <1>4, <1>5

(* A successful exchange makes the thread the only owner.                  *)
LEMMA CompareExchangeOwnership ==
  ASSUME TypeOK, Ownership, NEW th \in Threads, CAS1(th) \/ CAS2(th)
  PROVE  Ownership'
<1> USE DEF TypeOK, Ownership, MutualExclusion, SingleOwner, Occupies, Holds, QueueHoldsWaiting,
            ThreadInOperation, OneThreadPerTask, PC, PickSteps, CAS1, CAS2, CompareExchange, ReturnNothing, Goto
<1>1. MutualExclusion'
  BY TaskAssumption DEF TypeOK
<1>2. SingleOwner'
  BY TaskAssumption DEF TypeOK
<1>3. QueueHoldsWaiting'
  BY TaskAssumption DEF TypeOK
<1>4. (\A o \in Threads : ThreadInOperation(o))'
  BY TaskAssumption DEF TypeOK
<1>5. OneThreadPerTask'
  BY TaskAssumption DEF TypeOK
<1> QED BY <1>1, <1>2, <1>3, <1>4, <1>5

(* A thread that clears m_taskChosen held it.                              *)
LEMMA ClearOwnership ==
  ASSUME TypeOK, Ownership, NEW th \in Threads, Clear1(th) \/ Clear2(th)
  PROVE  Ownership'
<1> USE DEF TypeOK, Ownership, MutualExclusion, SingleOwner, Occupies, Holds, QueueHoldsWaiting,
            ThreadInOperation, OneThreadPerTask, PC, PickSteps, Clear1, Clear2, ReturnNothing, Goto
<1>1. MutualExclusion'
  BY TaskAssumption DEF TypeOK
<1>2. SingleOwner'
  BY TaskAssumption DEF TypeOK
<1>3. QueueHoldsWaiting'
  BY TaskAssumption DEF TypeOK
<1>4. (\A o \in Threads : ThreadInOperation(o))'
  BY TaskAssumption DEF TypeOK
<1>5. OneThreadPerTask'
  BY TaskAssumption DEF TypeOK
<1> QED BY <1>1, <1>2, <1>3, <1>4, <1>5

(* Reading whether the queue is empty changes no owner.                    *)
LEMMA TestEmptyOwnership ==
  ASSUME TypeOK, Ownership, NEW th \in Threads, TestEmpty(th)
  PROVE  Ownership'
<1> USE DEF TypeOK, Ownership, MutualExclusion, SingleOwner, Occupies, Holds, QueueHoldsWaiting,
            ThreadInOperation, OneThreadPerTask, PC, PickSteps, TestEmpty, ReturnNothing, Goto, queueVars
<1>1. MutualExclusion'
  BY TaskAssumption DEF TypeOK
<1>2. SingleOwner'
  BY TaskAssumption DEF TypeOK
<1>3. QueueHoldsWaiting'
  BY TaskAssumption DEF TypeOK
<1>4. (\A o \in Threads : ThreadInOperation(o))'
  BY TaskAssumption DEF TypeOK
<1>5. OneThreadPerTask'
  BY TaskAssumption DEF TypeOK
<1> QED BY <1>1, <1>2, <1>3, <1>4, <1>5

(* A try_pop() that finds nothing leaves the owner as it is.               *)
LEMMA MissOwnership ==
  ASSUME TypeOK, Ownership, NEW th \in Threads, Pop1(th) \/ Pop2(th), tasks = <<>>
  PROVE  Ownership'
<1> USE DEF TypeOK, Ownership, MutualExclusion, SingleOwner, Occupies, Holds, QueueHoldsWaiting,
            ThreadInOperation, OneThreadPerTask, PC, PickSteps, Pop1, Pop2, TryPop, Goto
<1>1. MutualExclusion'
  BY TaskAssumption DEF TypeOK
<1>2. SingleOwner'
  BY TaskAssumption DEF TypeOK
<1>3. QueueHoldsWaiting'
  BY TaskAssumption DEF TypeOK
<1>4. (\A o \in Threads : ThreadInOperation(o))'
  BY TaskAssumption DEF TypeOK
<1>5. OneThreadPerTask'
  BY TaskAssumption DEF TypeOK
<1> QED BY <1>1, <1>2, <1>3, <1>4, <1>5

(* A popped task takes over m_taskChosen from the thread that chose it.    *)
LEMMA PopOwnership ==
  ASSUME TypeOK, Ownership, NEW th \in Threads, Pop1(th) \/ Pop2(th), tasks # <<>>
  PROVE  Ownership'
<1> PICK t \in Tasks : t = Head(tasks)
  BY PopFacts DEF TypeOK
<1>1. /\ tasks' = Tail(tasks) /\ Len(tasks) \in Nat /\ Len(tasks) > 0
      /\ t = tasks[1]
      /\ Len(Tail(tasks)) = Len(tasks) - 1
      /\ \A i \in 1..Len(tasks) - 1 : Tail(tasks)[i] = tasks[i + 1]
  BY PopFacts DEF Pop1, Pop2, TryPop, TypeOK
<1>2. status[t] = "queued"
  BY <1>1 DEF Ownership, QueueHoldsWaiting
<1>3. /\ Holds(th)
      /\ pc' = [pc EXCEPT ![th] = "idle"] /\ op' = [op EXCEPT ![th] = "none"]
      /\ taskChosen' = taskChosen
      /\ ReturnTask(th, t)
  BY DEF Pop1, Pop2, TryPop, ReturnTask, Goto, Holds
<1>4. /\ status'[t] \in {"running", "spawned"}
      /\ \A u \in Tasks \ {t} : status'[u] = status[u] \/ (status[u] = "finishing" /\ status'[u] = "done")
      /\ \A o \in Threads \ {th} : running'[o] = running[o]
      /\ \/ running'[th] = t /\ status'[t] = "running"
         \/ running'[th] = running[th] /\ op[th] \notin {"finish", "next"} /\ status'[t] = "spawned"
  <2>1. CASE op[th] = "finish"
    <3>1. /\ status' = [status EXCEPT ![running[th]] = "done", ![t] = "running"]
          /\ running' = [running EXCEPT ![th] = t]
      BY <1>3, <2>1 DEF ReturnTask
    <3>2. running[th] \in Tasks /\ status[running[th]] = "finishing"
      BY <2>1 DEF TypeOK, Ownership, ThreadInOperation
    <3>3. status \in [Tasks -> Status] /\ running \in [Threads -> Tasks \cup {NoTask}]
      BY DEF TypeOK
    <3>4. status'[t] = "running"
      BY <3>1, <3>3
    <3>5. \A u \in Tasks \ {t} : status'[u] = status[u] \/ (status[u] = "finishing" /\ status'[u] = "done")
      BY <3>1, <3>2, <3>3
    <3>6. running'[th] = t /\ \A o \in Threads \ {th} : running'[o] = running[o]
      BY <3>1, <3>3
    <3> QED BY <3>4, <3>5, <3>6
  <2>2. CASE op[th] = "next"
    <3>1. /\ status' = [status EXCEPT ![t] = "running"]
          /\ running' = [running EXCEPT ![th] = t]
      BY <1>3, <2>2 DEF ReturnTask
    <3>2. status \in [Tasks -> Status] /\ running \in [Threads -> Tasks \cup {NoTask}]
      BY DEF TypeOK
    <3> QED BY <3>1, <3>2
  <2>3. CASE op[th] \notin {"finish", "next"}
    <3>1. /\ status' = [status EXCEPT ![t] = "spawned"]
          /\ running' = running
      BY <1>3, <2>3 DEF ReturnTask
    <3>2. status \in [Tasks -> Status] /\ running \in [Threads -> Tasks \cup {NoTask}]
      BY DEF TypeOK
    <3> QED BY <2>3, <3>1, <3>2
  <2> QED BY <2>1, <2>2, <2>3
<1>5. running[th] # NoTask /\ op[th] # "finish" => status[running[th]] = "running"
  BY DEF Ownership, ThreadInOperation
<1> USE DEF Occupies, Holds
<1>6. MutualExclusion'
  BY <1>1, <1>3, <1>4 DEF Ownership, SingleOwner, MutualExclusion
<1>7. SingleOwner'
  <2>1. /\ \A o \in Threads : ~Holds(o)'
        /\ Occupies(t)'
        /\ taskChosen'
    BY <1>3, <1>4 DEF TypeOK, Ownership, SingleOwner
  <2> QED BY <1>1, <2>1 DEF SingleOwner
<1>8. QueueHoldsWaiting'
  <2>1. \A i \in 1..Len(tasks)' : /\ i + 1 \in 1..Len(tasks) /\ tasks'[i] = tasks[i + 1]
                                  /\ tasks'[i] # t /\ tasks'[i] \in Tasks
    BY <1>1 DEF Ownership, QueueHoldsWaiting, TypeOK
  <2>2. ASSUME NEW i \in 1..Len(tasks)' PROVE status'[tasks'[i]] = "queued"
    <3>1. status[tasks[i + 1]] = "queued"
      BY <2>1 DEF Ownership, QueueHoldsWaiting
    <3> QED BY <1>4, <2>1, <3>1
  <2>3. \A i, j \in 1..Len(tasks)' : tasks'[i] = tasks'[j] => i = j
    BY <1>1, <2>1 DEF Ownership, QueueHoldsWaiting
  <2> QED BY <2>2, <2>3 DEF QueueHoldsWaiting
<1>9. \A o \in Threads : ThreadInOperation(o)'
  BY <1>1, <1>2, <1>3, <1>4, <1>5, TaskAssumption
     DEF TypeOK, Ownership, ThreadInOperation, OneThreadPerTask, PickSteps, ReturnTask
<1>10. OneThreadPerTask'
  BY <1>1, <1>2, <1>3, <1>4, <1>5 DEF TypeOK, Ownership, ThreadInOperation, OneThreadPerTask
<1> QED BY <1>6, <1>7, <1>8, <1>9, <1>10 DEF Ownership

(* Ownership is kept by every step.                                        *)
LEMMA OwnershipNext == TypeOK /\ Ownership /\ [Next]_vars => Ownership'
<1> SUFFICES ASSUME TypeOK, Ownership, [Next]_vars PROVE Ownership'
  OBVIOUS
<1> DEFINE Frame == UNCHANGED <<tasks, taskChosen, status, running>>
           Quiet(th) == /\ Frame
                        /\ op' = op
                        /\ \A o \in Threads \ {th} : pc'[o] = pc[o]
                        /\ pc[th] \notin PickSteps /\ pc'[th] \notin PickSteps
<1>1. ASSUME NEW th \in Threads, Quiet(th)
      PROVE  Ownership'
  BY <1>1 DEF Ownership, MutualExclusion, SingleOwner, Occupies, Holds, QueueHoldsWaiting,
              ThreadInOperation, OneThreadPerTask, PickSteps
<1>2. CASE UNCHANGED vars
  BY <1>2 DEF vars, Ownership, MutualExclusion, SingleOwner, Occupies, Holds, QueueHoldsWaiting,
              ThreadInOperation, OneThreadPerTask, PickSteps
<1>3. ASSUME NEW th \in Threads, Client(th)
      PROVE  Ownership'
  <2>1. ASSUME NEW t \in Tasks, Push(th, t) \/ PushAndGetNext(th, t) \/ PushAndWait(th, t)
        PROVE  Ownership'
    <3>1. pc[th] \notin PickSteps
      BY <2>1 DEF Push, PushAndGetNext, PushAndWait, MayCall, PickSteps
    <3> QED BY <2>1, <3>1, EnqueueOwnership DEF Push, PushAndGetNext, PushAndWait
  <2>2. CASE Pause(th)
    <3>1. Quiet(th)
      BY <2>2 DEF Pause, MayCall, PickSteps
    <3> QED BY <1>1, <3>1
  <2>3. CASE Resume(th)
    BY <2>3 DEF Resume, MayCall, Enter, Goto, TypeOK, PC, Ops,
                Ownership, MutualExclusion, SingleOwner, Occupies, Holds, QueueHoldsWaiting,
                ThreadInOperation, OneThreadPerTask, PickSteps
  <2>4. CASE Destroy(th)
    <3>1. Quiet(th)
      BY <2>4 DEF Destroy, MayCall, Goto, queueVars, TypeOK, PickSteps
    <3> QED BY <1>1, <3>1
  <2> QED BY <1>3, <2>1, <2>2, <2>3, <2>4 DEF Client
<1>4. ASSUME NEW th \in Threads, Scheduler(th)
      PROVE  Ownership'
  <2>1. CASE PickNextTask(th)
    BY <2>1, ReadPauseCountOwnership, CompareExchangeOwnership, ClearOwnership,
       TestEmptyOwnership, MissOwnership, PopOwnership DEF PickNextTask
  <2>2. CASE WaitForAll(th)
    <3>1. Quiet(th)
      BY <2>2 DEF WaitForAll, queueVars, PickSteps
    <3> QED BY <1>1, <3>1
  <2>3. CASE DestructorSkips(th)
    <3>1. Quiet(th)
      BY <2>3 DEF DestructorSkips, Goto, queueVars, TypeOK, PickSteps
    <3> QED BY <1>1, <3>1
  <2>4. ASSUME NEW t \in Tasks, DestructorWaits(th, t) PROVE Ownership'
    <3>1. pc[th] \notin PickSteps
      BY <2>4 DEF DestructorWaits, PickSteps
    <3> QED BY <2>4, <3>1, EnqueueOwnership DEF DestructorWaits
  <2> QED BY <1>4, <2>1, <2>2, <2>3, <2>4, FinishedTaskOwnership, RunSpawnedOwnership
          DEF Scheduler
<1> QED BY <1>2, <1>3, <1>4 DEF Next

(* At no time are two tasks of one queue at work, and m_taskChosen has a   *)
(* single owner.                                                           *)
THEOREM OwnershipCorrect == Spec => []Ownership
  BY TypeInit, TypeNext, OwnershipInit, OwnershipNext, PTL DEF Spec

(* The inductive invariant as a whole.                                     *)
THEOREM ProtocolCorrect == Spec => []Protocol
  BY TypeCorrect, OwnershipCorrect, PTL DEF Protocol

(* Never two tasks of one queue at work.                                   *)
THEOREM MutualExclusionCorrect == Spec => []MutualExclusion
<1>1. Ownership => MutualExclusion
  BY DEF Ownership
<1> QED BY <1>1, OwnershipCorrect, PTL

-----------------------------------------------------------------------------
(* A task that waits in a queue which is neither paused nor taken has a    *)
(* thread on its way to it, unless a second clear has overlooked it.       *)
LEMMA QueuedHasPickerNext ==
  TypeOK /\ Ownership /\ QueuedHasPicker /\ [Next]_vars => QueuedHasPicker'
<1> SUFFICES ASSUME TypeOK, Ownership, QueuedHasPicker, [Next]_vars,
                    tasks' # <<>>, pauseCount' = 0, ~taskChosen', ~missed'
             PROVE  \E th \in Threads : (Picking(th) \/ pc[th] = "dtorFull")'
  BY DEF QueuedHasPicker
<1> USE DEF Picking, PickSteps
<1>1. CASE UNCHANGED vars
  BY <1>1 DEF vars, QueuedHasPicker
<1>2. ASSUME NEW th \in Threads, Client(th)
      PROVE  \E o \in Threads : (Picking(o) \/ pc[o] = "dtorFull")'
  BY <1>2 DEF Client, Push, PushAndGetNext, PushAndWait, Pause, Resume, Destroy, MayCall,
              Enqueue, Enter, Goto, queueVars, TypeOK, PC, QueuedHasPicker
<1>3. ASSUME NEW th \in Threads, Scheduler(th)
      PROVE  \E o \in Threads : (Picking(o) \/ pc[o] = "dtorFull")'
  <2>1. CASE ReadPauseCount(th) \/ CAS1(th) \/ CAS2(th) \/ TestEmpty(th)
    BY <2>1 DEF ReadPauseCount, CAS1, CAS2, CompareExchange, TestEmpty, Goto, queueVars,
                TypeOK, PC, QueuedHasPicker
  <2>2. CASE Pop1(th) \/ Pop2(th)
    <3>1. Holds(th) /\ taskChosen' = taskChosen
      BY <2>2 DEF Pop1, Pop2, TryPop, Holds
    <3> QED BY <3>1 DEF Ownership, SingleOwner
  <2>3. CASE Clear1(th) \/ FinishedTask(th)
    BY <2>3 DEF Clear1, FinishedTask, Enter, Goto, TypeOK, PC
  <2>4. CASE Clear2(th)
    BY <2>4 DEF Clear2
  <2>5. CASE WaitForAll(th) \/ \E t \in Tasks : RunSpawned(th, t)
    BY <2>5 DEF WaitForAll, RunSpawned, queueVars, QueuedHasPicker
  <2>6. CASE DestructorSkips(th)
    BY <2>6 DEF DestructorSkips, Goto, queueVars, TypeOK, PC, QueuedHasPicker
  <2>7. CASE \E t \in Tasks : DestructorWaits(th, t)
    BY <2>7 DEF DestructorWaits, Enqueue, Enter, Goto, TypeOK, PC
  <2> QED BY <1>3, <2>1, <2>2, <2>3, <2>4, <2>5, <2>6, <2>7 DEF Scheduler, PickNextTask
<1> QED BY <1>1, <1>2, <1>3 DEF Next

(* No wake-up is lost in a single round of pickNextTask().                 *)
THEOREM QueuedHasPickerCorrect == Spec => []QueuedHasPicker
<1>1. Init => QueuedHasPicker
  BY DEF Init, QueuedHasPicker
<1> QED BY <1>1, TypeInit, TypeNext, OwnershipInit, OwnershipNext, QueuedHasPickerNext, PTL DEF Spec

-----------------------------------------------------------------------------
(* The refinement: what the abstract executor sees of a step.              *)
LEMMA CurrentFacts ==
  ASSUME MutualExclusion
  PROVE  /\ \A t \in Tasks : Occupies(t) => Current = t
         /\ (\A t \in Tasks : ~Occupies(t)) => Current = NoTask
  BY DEF MutualExclusion, Current

Finished == {t \in Tasks : status[t] \in {"finishing", "done"}}

(* A queue without owner runs no task.                                     *)
LEMMA NoOccupantCurrent ==
  ASSUME TypeOK, Ownership, NEW th \in Threads, Holds(th)
  PROVE  Current = NoTask
  BY CurrentFacts DEF Ownership, SingleOwner

(* A step that moves no task between the stages the executor sees stutters. *)
LEMMA SameStages ==
  ASSUME tasks' = tasks,
         \A t \in Tasks : (Occupies(t)' <=> Occupies(t)) /\ ((t \in Finished)' <=> t \in Finished)
  PROVE  UNCHANGED Executor!vars
<1>1. Current' = Current
  <2>1. (\E t \in Tasks : Occupies(t)') <=> (\E t \in Tasks : Occupies(t))
    OBVIOUS
  <2>2. (CHOOSE t \in Tasks : Occupies(t)') = (CHOOSE t \in Tasks : Occupies(t))
    OBVIOUS
  <2> QED BY <2>1, <2>2, Zenon DEF Current
<1>2. Finished' = Finished
  BY DEF Finished
<1> QED BY <1>1, <1>2 DEF Executor!vars, Finished

(* push() is the executor's Submit.                                        *)
LEMMA EnqueueSubmits ==
  ASSUME TypeOK, Ownership, NEW th \in Threads, NEW t \in Tasks, Enqueue(th, t)
  PROVE  Executor!Submit(t)
<1>1. status[t] = "new" /\ status' = [status EXCEPT ![t] = "queued"] /\ tasks' = Append(tasks, t)
  BY DEF Enqueue
<1>2. \A u \in Tasks : (Occupies(u)' <=> Occupies(u)) /\ ((u \in Finished)' <=> u \in Finished)
  BY <1>1 DEF TypeOK, Occupies, Finished
<1>3. Current' = Current /\ Finished' = Finished
  BY <1>2 DEF Current, Finished
<1>4. Current # t
  BY <1>1, TaskAssumption DEF Current, Occupies
<1>5. \A i \in 1..Len(tasks) : tasks[i] # t
  BY <1>1 DEF Ownership, QueueHoldsWaiting
<1> QED BY <1>1, <1>3, <1>4, <1>5 DEF Executor!Submit, Finished

(* A successful try_pop() is its Choose.                                   *)
LEMMA PopChooses ==
  ASSUME TypeOK, TypeOK', Ownership, Ownership', NEW th \in Threads, Pop1(th) \/ Pop2(th), tasks # <<>>
  PROVE  Executor!Choose
<1> PICK t \in Tasks : t = Head(tasks)
  BY PopFacts DEF TypeOK
<1>1. tasks' = Tail(tasks) /\ Holds(th) /\ ReturnTask(th, t)
  BY DEF Pop1, Pop2, TryPop, Holds
<1>2. Current = NoTask
  BY <1>1, NoOccupantCurrent
<1>3. status[t] = "queued"
  BY PopFacts DEF TypeOK, Ownership, QueueHoldsWaiting
<1>4. Occupies(t)' /\ Finished' = Finished
  <2> USE DEF Occupies, Finished
  <2>1. status \in [Tasks -> Status]
    BY DEF TypeOK
  <2>2. CASE op[th] = "finish"
    <3>1. status' = [status EXCEPT ![running[th]] = "done", ![t] = "running"]
      BY <1>1, <2>2 DEF ReturnTask
    <3>2. running[th] \in Tasks /\ status[running[th]] = "finishing"
      BY <2>2 DEF TypeOK, Ownership, ThreadInOperation
    <3> QED BY <1>3, <2>1, <3>1, <3>2
  <2>3. CASE op[th] = "next"
    <3>1. status' = [status EXCEPT ![t] = "running"]
      BY <1>1, <2>3 DEF ReturnTask
    <3> QED BY <1>3, <2>1, <3>1
  <2>4. CASE op[th] \notin {"finish", "next"}
    <3>1. status' = [status EXCEPT ![t] = "spawned"]
      BY <1>1, <2>4 DEF ReturnTask
    <3> QED BY <1>3, <2>1, <3>1
  <2> QED BY <2>2, <2>3, <2>4
<1>5. Current' = t
  BY <1>4 DEF Ownership, MutualExclusion, Current
<1> QED BY <1>1, <1>2, <1>4, <1>5 DEF Executor!Choose, Finished

(* The end of an action is its Complete.                                   *)
LEMMA FinishCompletes ==
  ASSUME TypeOK, Ownership, Ownership', NEW th \in Threads, FinishedTask(th)
  PROVE  Executor!Complete
<1> DEFINE t == running[th]
<1>1. t \in Tasks /\ op[th] # "finish" /\ status[t] = "running"
  BY DEF FinishedTask, TypeOK, Ownership, ThreadInOperation, PickSteps
<1>2. /\ status' = [status EXCEPT ![t] = "finishing"]
      /\ tasks' = tasks
      /\ taskChosen' = FALSE
  BY DEF FinishedTask
<1>3. Current = t
  BY <1>1, CurrentFacts DEF Ownership, Occupies
<1>4. Current' = NoTask
  BY <1>2 DEF Ownership, SingleOwner, Current
<1>5. Finished' = Finished \cup {t}
  BY <1>1, <1>2 DEF TypeOK, Finished
<1> QED BY <1>1, <1>2, <1>3, <1>4, <1>5, TaskAssumption DEF Executor!Complete, Finished

(* A return from pickNextTask() without a task is no step of it.           *)
LEMMA ReturnStutters ==
  ASSUME TypeOK, Ownership, NEW th \in Threads, ReturnNothing(th), tasks' = tasks
  PROVE  UNCHANGED Executor!vars
<1>1. CASE op[th] = "finish"
  <2>1. /\ running[th] \in Tasks /\ status[running[th]] = "finishing"
        /\ status' = [status EXCEPT ![running[th]] = "done"]
    BY <1>1 DEF ReturnNothing, TypeOK, Ownership, ThreadInOperation
  <2> QED BY <2>1, SameStages DEF TypeOK, Occupies, Finished
<1>2. CASE op[th] # "finish"
  BY <1>2, SameStages DEF ReturnNothing, Occupies, Finished
<1> QED BY <1>1, <1>2

(* Every step of the queue is one of the executor, or changes nothing it   *)
(* sees.                                                                   *)
LEMMA StepRefines ==
  ASSUME TypeOK, TypeOK', Ownership, Ownership', [Next]_vars
  PROVE  [Executor!Next]_(Executor!vars)
<1>1. ASSUME UNCHANGED <<tasks, status>>
      PROVE  UNCHANGED Executor!vars
  BY <1>1, SameStages DEF Occupies, Finished
<1>2. CASE UNCHANGED vars
  BY <1>1, <1>2 DEF vars
<1>3. ASSUME NEW th \in Threads, Client(th)
      PROVE  [Executor!Next]_(Executor!vars)
  <2>1. CASE \E t \in Tasks : Push(th, t) \/ PushAndGetNext(th, t) \/ PushAndWait(th, t)
    BY <2>1, EnqueueSubmits DEF Push, PushAndGetNext, PushAndWait, Executor!Next
  <2>2. CASE Pause(th) \/ Resume(th) \/ Destroy(th)
    BY <1>1, <2>2 DEF Pause, Resume, Destroy, queueVars
  <2> QED BY <1>3, <2>1, <2>2 DEF Client
<1>4. ASSUME NEW th \in Threads, ReturnNothing(th), tasks' = tasks
      PROVE  UNCHANGED Executor!vars
  BY <1>4, ReturnStutters
<1>5. ASSUME NEW th \in Threads, Scheduler(th)
      PROVE  [Executor!Next]_(Executor!vars)
  <2>1. CASE ReadPauseCount(th) \/ CAS1(th) \/ CAS2(th) \/ TestEmpty(th) \/ Clear1(th) \/ Clear2(th)
    BY <1>1, <1>4, <2>1 DEF ReadPauseCount, CAS1, CAS2, CompareExchange, TestEmpty, Clear1, Clear2,
                            queueVars
  <2>2. CASE (Pop1(th) \/ Pop2(th)) /\ tasks = <<>>
    BY <1>1, <2>2 DEF Pop1, Pop2, TryPop
  <2>3. CASE (Pop1(th) \/ Pop2(th)) /\ tasks # <<>>
    BY <2>3, PopChooses DEF Executor!Next
  <2>4. CASE FinishedTask(th)
    BY <2>4, FinishCompletes DEF Executor!Next
  <2>5. CASE WaitForAll(th) \/ DestructorSkips(th)
    BY <1>1, <2>5 DEF WaitForAll, DestructorSkips, queueVars
  <2>6. ASSUME NEW t \in Tasks, RunSpawned(th, t)
        PROVE  UNCHANGED Executor!vars
    BY <2>6, SameStages DEF RunSpawned, queueVars, TypeOK, Occupies, Finished
  <2>7. CASE \E t \in Tasks : DestructorWaits(th, t)
    BY <2>7, EnqueueSubmits DEF DestructorWaits, Executor!Next
  <2> QED BY <1>5, <2>1, <2>2, <2>3, <2>4, <2>5, <2>6, <2>7 DEF Scheduler, PickNextTask
<1> QED BY <1>2, <1>3, <1>5 DEF Next

(* The queue implements the serial executor: tasks are chosen in push      *)
(* order, one at a time, once each.                                        *)
THEOREM ImplementsExecutorCorrect == Spec => ImplementsExecutor
<1>1. Init => Executor!Init
  BY DEF Init, Executor!Init, Current, Occupies
<1>2. TypeOK /\ TypeOK' /\ Ownership /\ Ownership' /\ [Next]_vars => [Executor!Next]_(Executor!vars)
  BY StepRefines
<1> QED BY <1>1, <1>2, TypeCorrect, OwnershipCorrect, PTL DEF Spec, ImplementsExecutor, Executor!Spec

-----------------------------------------------------------------------------
(* The destructor.  Nobody pushes any more once it has begun, so that the  *)
(* empty task it may push and wait for is the last one of the queue.       *)
InDestructor(th) == pc[th] \in {"dtorEmpty", "dtorFull"}

Uninvolved(th) == ~InDestructor(th) /\ waiting[th] = NoTask

(* Nobody comes after task w, and once its action is over nobody acts.     *)
LastTask(w) ==
    \/ /\ status[w] = "queued"
       /\ Len(tasks) > 0 /\ tasks[Len(tasks)] = w
    \/ /\ tasks = <<>>
       /\ \/ Occupies(w)
          \/ status[w] \in {"finishing", "done"} /\ \A t \in Tasks : ~Occupies(t)

(* The thread in the destructor: before its decision, or waiting.          *)
Destroys(th) ==
    \/ /\ InDestructor(th) /\ waiting[th] = NoTask
       /\ pc[th] = "dtorEmpty" => tasks = <<>>
    \/ /\ ~InDestructor(th) /\ waiting[th] \in Tasks
       /\ LastTask(waiting[th])

QueuedIsHeld == \A t \in Tasks : status[t] = "queued" => \E i \in 1..Len(tasks) : tasks[i] = t

Destruction ==
    /\ lifetime = "alive" => \A th \in Threads : ~InDestructor(th)
    /\ lifetime = "destroying" =>
          \E th \in Threads : Destroys(th) /\ \A o \in Threads : o # th => Uninvolved(o)
    /\ lifetime = "destroyed" =>
          /\ \A th \in Threads : Uninvolved(th)
          /\ pauseCount = 0 => tasks = <<>> /\ \A t \in Tasks : ~Occupies(t)

(* A step of pickNextTask() makes no new task wait, and takes the front    *)
(* one at most.                                                            *)
LEMMA PickEffects ==
  ASSUME TypeOK, Ownership, NEW th \in Threads, PickNextTask(th)
  PROVE  /\ UNCHANGED <<pauseCount, waiting, lifetime>>
         /\ \A o \in Threads : InDestructor(o)' <=> InDestructor(o)
         /\ \/ /\ tasks' = tasks
               /\ \A t \in Tasks : status'[t] = status[t] \/ (status[t] = "finishing" /\ status'[t] = "done")
            \/ /\ tasks # <<>> /\ tasks' = Tail(tasks)
               /\ \E h \in Tasks :
                     /\ h = Head(tasks) /\ Occupies(h)'
                     /\ \A t \in Tasks \ {h} :
                           status'[t] = status[t] \/ (status[t] = "finishing" /\ status'[t] = "done")
<1>1. status \in [Tasks -> Status] /\ pc \in [Threads -> PC] /\ running \in [Threads -> Tasks \cup {NoTask}]
  BY DEF TypeOK
<1>2. op[th] = "finish" => running[th] \in Tasks /\ status[running[th]] = "finishing"
  BY <1>1 DEF Ownership, ThreadInOperation
<1>3. UNCHANGED <<pauseCount, waiting, lifetime>>
  BY DEF PickNextTask, ReadPauseCount, CAS1, CAS2, CompareExchange, Pop1, Pop2, TryPop, Clear1,
         TestEmpty, Clear2, queueVars
<1>4. \E step \in PC \ {"dtorEmpty", "dtorFull"} : pc' = [pc EXCEPT ![th] = step]
  BY DEF PickNextTask, ReadPauseCount, CAS1, CAS2, CompareExchange, Pop1, Pop2, TryPop, Clear1,
         TestEmpty, Clear2, ReturnNothing, ReturnTask, Goto, PC, PickSteps
<1>5. ~InDestructor(th)
  BY DEF PickNextTask, ReadPauseCount, CAS1, CAS2, CompareExchange, Pop1, Pop2, TryPop, Clear1,
         TestEmpty, Clear2, InDestructor
<1>6. \A o \in Threads : InDestructor(o)' <=> InDestructor(o)
  BY <1>1, <1>4, <1>5 DEF InDestructor
<1>7. CASE (Pop1(th) \/ Pop2(th)) /\ tasks # <<>>
  <2>1. tasks' = Tail(tasks) /\ ReturnTask(th, Head(tasks)) /\ Head(tasks) \in Tasks
    BY <1>7, PopFacts DEF Pop1, Pop2, TryPop, TypeOK
  <2>2. PICK t \in Tasks : t = Head(tasks)
    BY <2>1
  <2>3. ReturnTask(th, t)
    BY <2>1, <2>2
  <2>4. /\ Occupies(t)'
        /\ \A u \in Tasks \ {t} : status'[u] = status[u] \/ (status[u] = "finishing" /\ status'[u] = "done")
    <3>1. CASE op[th] = "finish"
      <4>1. status' = [status EXCEPT ![running[th]] = "done", ![t] = "running"]
        BY <2>3, <3>1 DEF ReturnTask
      <4> QED BY <4>1, <3>1, <1>1, <1>2 DEF Occupies
    <3>2. CASE op[th] # "finish"
      <4>1. \E x \in {"running", "spawned"} : status' = [status EXCEPT ![t] = x]
        BY <2>3, <3>2 DEF ReturnTask
      <4> QED BY <4>1, <1>1 DEF Occupies
    <3> QED BY <3>1, <3>2
  <2> QED BY <1>3, <1>6, <1>7, <2>1, <2>2, <2>4
<1>8. CASE ~((Pop1(th) \/ Pop2(th)) /\ tasks # <<>>)
  <2>1. tasks' = tasks /\ (status' = status \/ ReturnNothing(th))
    BY <1>8 DEF PickNextTask, ReadPauseCount, CAS1, CAS2, CompareExchange, Pop1, Pop2, TryPop, Clear1,
         TestEmpty, Clear2, queueVars
  <2>2. ASSUME NEW t \in Tasks
        PROVE  status'[t] = status[t] \/ (status[t] = "finishing" /\ status'[t] = "done")
    <3>1. CASE op[th] = "finish" /\ ReturnNothing(th)
      <4>1. status' = [status EXCEPT ![running[th]] = "done"]
        BY <3>1 DEF ReturnNothing
      <4> QED BY <3>1, <4>1, <1>1, <1>2
    <3>2. CASE status' = status
      BY <3>2
    <3> QED BY <2>1, <3>1, <3>2 DEF ReturnNothing
  <2> QED BY <1>3, <1>6, <2>1, <2>2
<1> QED BY <1>7, <1>8

(* A waiting task is in m_tasks.                                           *)
LEMMA QueuedIsHeldNext == TypeOK /\ Ownership /\ QueuedIsHeld /\ [Next]_vars => QueuedIsHeld'
<1> SUFFICES ASSUME TypeOK, Ownership, QueuedIsHeld, [Next]_vars PROVE QueuedIsHeld'
  OBVIOUS
<1>0. status \in [Tasks -> Status] /\ tasks \in Seq(Tasks)
  BY DEF TypeOK
<1>1. ASSUME tasks' = tasks, \A t \in Tasks : status'[t] = "queued" => status[t] = "queued"
      PROVE  QueuedIsHeld'
  BY <1>1 DEF QueuedIsHeld
<1>2. ASSUME NEW th \in Threads, NEW t \in Tasks, Enqueue(th, t)
      PROVE  QueuedIsHeld'
  <2>1. tasks' = Append(tasks, t) /\ status' = [status EXCEPT ![t] = "queued"]
    BY <1>2 DEF Enqueue
  <2>2. /\ Len(tasks') = Len(tasks) + 1 /\ Len(tasks) \in Nat /\ tasks'[Len(tasks) + 1] = t
        /\ \A i \in 1..Len(tasks) : tasks'[i] = tasks[i]
    BY <1>0, <2>1, PushFacts
  <2> SUFFICES ASSUME NEW u \in Tasks, status'[u] = "queued" PROVE \E i \in 1..Len(tasks') : tasks'[i] = u
    BY DEF QueuedIsHeld
  <2>3. CASE u = t
    BY <2>2, <2>3
  <2>4. CASE u # t
    <3>1. status[u] = "queued"
      BY <1>0, <2>1, <2>4
    <3>2. PICK i \in 1..Len(tasks) : tasks[i] = u
      BY <3>1 DEF QueuedIsHeld
    <3> QED BY <2>2, <3>2
  <2> QED BY <2>3, <2>4
<1>3. ASSUME NEW th \in Threads, PickNextTask(th)
      PROVE  QueuedIsHeld'
  <2>1. CASE tasks' = tasks /\ \A t \in Tasks : status'[t] = status[t] \/ status'[t] = "done"
    BY <1>1, <2>1
  <2>2. ASSUME NEW h \in Tasks, tasks # <<>>, tasks' = Tail(tasks), h = Head(tasks), Occupies(h)',
               \A t \in Tasks \ {h} : status'[t] = status[t] \/ status'[t] = "done"
        PROVE  QueuedIsHeld'
    <3>1. /\ Head(tasks) = tasks[1] /\ Len(tasks) \in Nat /\ Len(tasks') = Len(tasks) - 1
          /\ \A i \in 1..Len(tasks) - 1 : tasks'[i] = tasks[i + 1]
      BY <1>0, <2>2, PopFacts
    <3> SUFFICES ASSUME NEW u \in Tasks, status'[u] = "queued" PROVE \E i \in 1..Len(tasks') : tasks'[i] = u
      BY DEF QueuedIsHeld
    <3>2. u # h /\ status[u] = "queued"
      BY <2>2 DEF Occupies
    <3>3. PICK i \in 1..Len(tasks) : tasks[i] = u
      BY <3>2 DEF QueuedIsHeld
    <3>4. i # 1
      BY <2>2, <3>1, <3>2, <3>3
    <3>5. i - 1 \in 1..Len(tasks) - 1 /\ (i - 1) + 1 = i
      BY <3>1, <3>4
    <3>6. i - 1 \in 1..Len(tasks') /\ tasks'[i - 1] = u
      BY <3>1, <3>3, <3>5
    <3> QED BY <3>6
  <2> QED BY <1>3, <2>1, <2>2, PickEffects
<1>4. CASE UNCHANGED vars
  BY <1>1, <1>4 DEF vars
<1>5. ASSUME NEW th \in Threads, Client(th)
      PROVE  QueuedIsHeld'
  <2>1. CASE \E t \in Tasks : Push(th, t) \/ PushAndGetNext(th, t) \/ PushAndWait(th, t)
    BY <1>2, <2>1 DEF Push, PushAndGetNext, PushAndWait
  <2>2. CASE Pause(th) \/ Resume(th) \/ Destroy(th)
    BY <1>1, <2>2 DEF Pause, Resume, Destroy, queueVars
  <2> QED BY <1>5, <2>1, <2>2 DEF Client
<1>6. ASSUME NEW th \in Threads, Scheduler(th)
      PROVE  QueuedIsHeld'
  <2>1. CASE FinishedTask(th)
    BY <1>0, <1>1, <2>1 DEF FinishedTask
  <2>2. CASE WaitForAll(th) \/ DestructorSkips(th)
    BY <1>1, <2>2 DEF WaitForAll, DestructorSkips, queueVars
  <2>3. CASE \E t \in Tasks : RunSpawned(th, t)
    BY <1>0, <1>1, <2>3 DEF RunSpawned, queueVars
  <2>4. CASE \E t \in Tasks : DestructorWaits(th, t)
    BY <1>2, <2>4 DEF DestructorWaits
  <2> QED BY <1>3, <1>6, <2>1, <2>2, <2>3, <2>4 DEF Scheduler
<1> QED BY <1>4, <1>5, <1>6 DEF Next

(* What the destructor has found out, or waits for, stays true.            *)
LEMMA DestructionNext ==
  TypeOK /\ Ownership /\ Ownership' /\ QueuedIsHeld /\ Destruction /\ [Next]_vars => Destruction'
<1> SUFFICES ASSUME TypeOK, Ownership, Ownership', QueuedIsHeld, Destruction, [Next]_vars PROVE Destruction'
  OBVIOUS
<1>0. /\ status \in [Tasks -> Status] /\ tasks \in Seq(Tasks) /\ pc \in [Threads -> PC]
      /\ waiting \in [Threads -> Tasks \cup {NoTask}]
      /\ lifetime \in {"alive", "destroying", "destroyed"} /\ pauseCount \in Nat
  BY DEF TypeOK
(* Steps that leave the threads in the destructor where they are. *)
<1>1. ASSUME lifetime' = lifetime, pauseCount' = pauseCount, waiting' = waiting,
             \A o \in Threads : InDestructor(o)' <=> InDestructor(o),
             \A o \in Threads : pc'[o] = "dtorEmpty" => pc[o] = "dtorEmpty",
             tasks = <<>> => tasks' = <<>>,
             tasks = <<>> => \A t \in Tasks : Occupies(t)' => Occupies(t),
             \A w \in Tasks : LastTask(w) => LastTask(w)'
      PROVE  Destruction'
  <2>1. ASSUME NEW th \in Threads PROVE (Uninvolved(th) => Uninvolved(th)') /\ (Destroys(th) => Destroys(th)')
    <3>1. Uninvolved(th) => Uninvolved(th)'
      BY <1>1 DEF Uninvolved
    <3>2. Destroys(th) => Destroys(th)'
      <4>1. PICK w : w = waiting[th]
        OBVIOUS
      <4>2. waiting'[th] = w
        BY <1>1, <4>1
      <4>3. CASE InDestructor(th)
        BY <1>1, <4>3 DEF Destroys
      <4>4. CASE ~InDestructor(th) /\ Destroys(th)
        <5>1. w \in Tasks /\ LastTask(w)'
          BY <1>1, <4>1, <4>4 DEF Destroys
        <5>2. LastTask(waiting[th])'
          BY <4>2, <5>1 DEF LastTask, Occupies
        <5> QED BY <1>1, <4>2, <4>4, <5>1, <5>2 DEF Destroys
      <4> QED BY <4>3, <4>4
    <3> QED BY <3>1, <3>2
  <2>2. lifetime' = "alive" => \A th \in Threads : ~InDestructor(th)'
    BY <1>1 DEF Destruction
  <2>3. lifetime' = "destroying" =>
          \E th \in Threads : Destroys(th)' /\ \A o \in Threads : o # th => Uninvolved(o)'
    BY <1>1, <2>1 DEF Destruction
  <2>4. lifetime' = "destroyed" =>
          /\ \A th \in Threads : Uninvolved(th)'
          /\ pauseCount' = 0 => tasks' = <<>> /\ \A t \in Tasks : ~Occupies(t)'
    BY <1>1, <2>1 DEF Destruction
  <2> QED BY <2>2, <2>3, <2>4 DEF Destruction
(* While the queue is alive only Destroy matters. *)
<1>2. ASSUME lifetime = "alive", lifetime' = "alive", \A o \in Threads : InDestructor(o)' <=> InDestructor(o)
      PROVE  Destruction'
  BY <1>2 DEF Destruction
<1>3. CASE UNCHANGED vars
  BY <1>1, <1>3 DEF vars, InDestructor, LastTask, Occupies
<1>4. ASSUME NEW th \in Threads, Client(th)
      PROVE  Destruction'
  <2>1. CASE \E t \in Tasks : Push(th, t) \/ PushAndGetNext(th, t) \/ PushAndWait(th, t)
    BY <1>0, <1>2, <2>1 DEF Push, PushAndGetNext, PushAndWait, MayCall, Enter, Goto, InDestructor
  <2>2. CASE Pause(th) \/ Resume(th)
    BY <1>0, <1>2, <2>2 DEF Pause, Resume, MayCall, Enter, Goto, InDestructor
  <2>3. CASE Destroy(th)
    <3>1. /\ lifetime' = "destroying" /\ tasks' = tasks /\ waiting' = waiting
          /\ pc' = [pc EXCEPT ![th] = IF tasks = <<>> THEN "dtorEmpty" ELSE "dtorFull"]
          /\ \A o \in Threads : waiting[o] = NoTask /\ ~InDestructor(o)
      BY <2>3 DEF Destroy, MayCall, Goto, queueVars, Destruction
    <3>2. \A o \in Threads : o # th => Uninvolved(o)'
      BY <1>0, <3>1 DEF Uninvolved, InDestructor
    <3>3. Destroys(th)'
      BY <1>0, <3>1 DEF Destroys, InDestructor
    <3> QED BY <3>1, <3>2, <3>3 DEF Destruction
  <2> QED BY <1>4, <2>1, <2>2, <2>3 DEF Client
<1>5. ASSUME NEW th \in Threads, Scheduler(th)
      PROVE  Destruction'
  <2>1. CASE PickNextTask(th)
    <3>1. UNCHANGED <<pauseCount, waiting, lifetime>> /\ \A o \in Threads : InDestructor(o)' <=> InDestructor(o)
      BY <2>1, PickEffects
    <3>2. \A o \in Threads : pc'[o] = "dtorEmpty" => pc[o] = "dtorEmpty"
      <4>1. \A o \in Threads : o # th => pc'[o] = pc[o]
        BY <1>0, <2>1 DEF PickNextTask, ReadPauseCount, CAS1, CAS2, CompareExchange, Pop1, Pop2, TryPop,
             Clear1, TestEmpty, Clear2, ReturnNothing, ReturnTask, Goto
      <4>2. ~InDestructor(th)
        BY <2>1 DEF PickNextTask, ReadPauseCount, CAS1, CAS2, CompareExchange, Pop1, Pop2, TryPop,
             Clear1, TestEmpty, Clear2, InDestructor
      <4> QED BY <3>1, <4>1, <4>2 DEF InDestructor
    <3>3. CASE tasks' = tasks /\ \A t \in Tasks : status'[t] = status[t] \/ (status[t] = "finishing" /\ status'[t] = "done")
      <4>1. \A t \in Tasks : Occupies(t)' => Occupies(t)
        BY <3>3 DEF Occupies
      <4>2. \A w \in Tasks : LastTask(w) => LastTask(w)'
        <5> SUFFICES ASSUME NEW w \in Tasks, LastTask(w) PROVE LastTask(w)'
          OBVIOUS
        <5>1. CASE status[w] = "queued"
          BY <3>3, <5>1 DEF LastTask, Occupies
        <5>2. CASE Occupies(w)
          BY <3>3, <5>2 DEF LastTask, Occupies
        <5>3. CASE status[w] \in {"finishing", "done"}
          BY <3>3, <4>1, <5>3 DEF LastTask, Occupies
        <5> QED BY <5>1, <5>2, <5>3 DEF LastTask
      <4> QED BY <1>1, <3>1, <3>2, <3>3, <4>1, <4>2
    <3>4. ASSUME NEW h \in Tasks, tasks # <<>>, tasks' = Tail(tasks), h = Head(tasks), Occupies(h)',
                 \A t \in Tasks \ {h} : status'[t] = status[t] \/ (status[t] = "finishing" /\ status'[t] = "done")
          PROVE  Destruction'
      <4>1. /\ Head(tasks) = tasks[1] /\ Len(tasks) \in Nat /\ Len(tasks) > 0 /\ Len(tasks') = Len(tasks) - 1
            /\ \A i \in 1..Len(tasks) - 1 : tasks'[i] = tasks[i + 1] /\ tasks' \in Seq(Tasks)
        BY <1>0, <3>4, PopFacts
      <4>2. \A w \in Tasks : LastTask(w) => LastTask(w)'
        <5> SUFFICES ASSUME NEW w \in Tasks, LastTask(w) PROVE LastTask(w)'
          OBVIOUS
        <5>1. status[w] = "queued" /\ tasks[Len(tasks)] = w
          BY <3>4 DEF LastTask
        <5>2. CASE Len(tasks) = 1
          <6>1. w = h
            BY <3>4, <4>1, <5>1, <5>2
          <6>2. tasks' = <<>>
            BY <1>0, <3>4, <4>1, <5>2
          <6> QED BY <3>4, <6>1, <6>2 DEF LastTask
        <5>3. CASE Len(tasks) # 1
          <6>1. Len(tasks) \in 1..Len(tasks) /\ 1 \in 1..Len(tasks) /\ Len(tasks) - 1 \in 1..Len(tasks) - 1
                /\ (Len(tasks) - 1) + 1 = Len(tasks)
            BY <4>1, <5>3
          <6>2. w # h
            BY <3>4, <4>1, <5>1, <5>3, <6>1 DEF Ownership, QueueHoldsWaiting
          <6>3. tasks'[Len(tasks')] = w /\ Len(tasks') > 0
            BY <4>1, <5>1, <6>1
          <6>4. status'[w] = "queued"
            BY <3>4, <5>1, <6>2
          <6> QED BY <6>3, <6>4 DEF LastTask
        <5> QED BY <5>2, <5>3
      <4> QED BY <1>1, <3>1, <3>2, <3>4, <4>2
    <3> QED BY <2>1, <3>3, <3>4, PickEffects
  <2>2. CASE FinishedTask(th)
    <3>1. /\ running[th] \in Tasks /\ status' = [status EXCEPT ![running[th]] = "finishing"]
          /\ tasks' = tasks /\ pc' = [pc EXCEPT ![th] = "count"] /\ pc[th] = "idle"
          /\ UNCHANGED <<lifetime, pauseCount, waiting>> /\ taskChosen' = FALSE
      BY <2>2 DEF FinishedTask, Enter, Goto, TypeOK
    <3>2. \A o \in Threads : (InDestructor(o)' <=> InDestructor(o)) /\ (pc'[o] = "dtorEmpty" => pc[o] = "dtorEmpty")
      BY <1>0, <3>1 DEF InDestructor
    <3>3. \A t \in Tasks : ~Occupies(t)'
      BY <3>1 DEF Ownership, SingleOwner
    <3>4. \A w \in Tasks : LastTask(w) => LastTask(w)'
      <4> SUFFICES ASSUME NEW w \in Tasks, LastTask(w) PROVE LastTask(w)'
        OBVIOUS
      <4>1. w # running[th] => status'[w] = status[w]
        BY <1>0, <3>1
      <4>2. w = running[th] => status'[w] = "finishing" /\ status[w] # "queued"
        BY <1>0, <2>2, <3>1 DEF FinishedTask, Ownership, ThreadInOperation
      <4>3. Occupies(w) => w = running[th]
        BY <3>3, <4>1 DEF Occupies
      <4> QED BY <3>1, <3>3, <4>1, <4>2, <4>3 DEF LastTask
    <3> QED BY <1>1, <3>1, <3>2, <3>3, <3>4
  <2>3. ASSUME NEW t \in Tasks, RunSpawned(th, t)
        PROVE  Destruction'
    <3>1. /\ status[t] = "spawned" /\ status' = [status EXCEPT ![t] = "running"] /\ tasks' = tasks
          /\ UNCHANGED <<lifetime, pauseCount, waiting, pc>>
      BY <2>3 DEF RunSpawned, queueVars
    <3>2. \A u \in Tasks : (Occupies(u)' <=> Occupies(u)) /\ (u # t => status'[u] = status[u])
      BY <1>0, <3>1 DEF Occupies
    <3>3. \A w \in Tasks : LastTask(w) => LastTask(w)'
      BY <1>0, <3>1, <3>2 DEF LastTask, Occupies
    <3> QED BY <1>1, <3>1, <3>2, <3>3 DEF InDestructor
  <2>4. CASE WaitForAll(th)
    <3>1. /\ waiting[th] \in Tasks /\ status[waiting[th]] = "done" /\ waiting' = [waiting EXCEPT ![th] = NoTask]
          /\ pc[th] = "idle" /\ UNCHANGED <<pc, tasks, status, pauseCount>>
          /\ lifetime' = IF lifetime = "destroying" THEN "destroyed" ELSE lifetime
      BY <1>0, <2>4 DEF WaitForAll, queueVars
    <3>2. CASE lifetime = "alive"
      BY <1>2, <3>1, <3>2 DEF InDestructor
    <3>3. CASE lifetime = "destroying"
      <4>1. PICK d \in Threads : Destroys(d) /\ \A o \in Threads : o # d => Uninvolved(o)
        BY <3>3 DEF Destruction
      <4>2. th = d
        BY <3>1, <4>1, TaskAssumption DEF Uninvolved
      <4>3. LastTask(waiting[th]) /\ ~InDestructor(th)
        BY <3>1, <4>1, <4>2, TaskAssumption DEF Destroys
      <4>4. tasks = <<>> /\ \A t \in Tasks : ~Occupies(t)
        BY <3>1, <4>3 DEF LastTask, Occupies
      <4>5. tasks' = <<>> /\ \A t \in Tasks : ~Occupies(t)'
        BY <3>1, <4>4 DEF Occupies
      <4>6. \A o \in Threads : Uninvolved(o)'
        BY <1>0, <3>1, <4>1, <4>2, <4>3 DEF Uninvolved, InDestructor
      <4> QED BY <3>1, <3>3, <4>5, <4>6 DEF Destruction
    <3>4. CASE lifetime = "destroyed"
      BY <3>1, <3>4, TaskAssumption DEF Destruction, Uninvolved
    <3> QED BY <1>0, <3>2, <3>3, <3>4
  <2>5. CASE DestructorSkips(th)
    <3>1. /\ InDestructor(th) /\ ~taskChosen /\ (pc[th] = "dtorEmpty" \/ pauseCount # 0)
          /\ lifetime' = "destroyed" /\ pc' = [pc EXCEPT ![th] = "idle"]
          /\ UNCHANGED <<tasks, pauseCount, waiting, status>>
      BY <2>5 DEF DestructorSkips, Goto, queueVars, InDestructor
    <3>2. lifetime = "destroying"
      BY <1>0, <3>1 DEF Destruction, Uninvolved, InDestructor
    <3>3. PICK d \in Threads : Destroys(d) /\ \A o \in Threads : o # d => Uninvolved(o)
      BY <3>2 DEF Destruction
    <3>4. th = d
      BY <2>5, <3>3 DEF DestructorSkips, Uninvolved, InDestructor
    <3>5. \A o \in Threads : Uninvolved(o)'
      BY <1>0, <3>1, <3>3, <3>4 DEF Uninvolved, Destroys, InDestructor
    <3>6. ASSUME pauseCount = 0 PROVE tasks = <<>> /\ \A t \in Tasks : ~Occupies(t)
      <4>1. pc[th] = "dtorEmpty"
        BY <3>1, <3>6
      <4>2. tasks = <<>>
        BY <3>3, <3>4, <4>1 DEF Destroys, InDestructor
      <4> QED BY <3>1, <4>2 DEF Ownership, SingleOwner
    <3>7. pauseCount' = 0 => tasks' = <<>> /\ \A t \in Tasks : ~Occupies(t)'
      BY <3>1, <3>6 DEF Occupies
    <3> QED BY <3>1, <3>5, <3>7 DEF Destruction
  <2>6. ASSUME NEW t \in Tasks, DestructorWaits(th, t)
        PROVE  Destruction'
    <3>1. /\ InDestructor(th) /\ waiting' = [waiting EXCEPT ![th] = t] /\ lifetime' = lifetime
          /\ tasks' = Append(tasks, t) /\ status' = [status EXCEPT ![t] = "queued"]
          /\ pc' = [pc EXCEPT ![th] = "count"]
      BY <2>6 DEF DestructorWaits, Enqueue, Enter, Goto, InDestructor
    <3>2. lifetime = "destroying"
      BY <1>0, <3>1 DEF Destruction, Uninvolved
    <3>3. PICK d \in Threads : Destroys(d) /\ \A o \in Threads : o # d => Uninvolved(o)
      BY <3>2 DEF Destruction
    <3>4. th = d
      BY <3>1, <3>3 DEF Uninvolved
    <3>5. Len(tasks') = Len(tasks) + 1 /\ Len(tasks) \in Nat /\ tasks'[Len(tasks) + 1] = t
      BY <1>0, <3>1, PushFacts
    <3>6. waiting'[th] = t /\ status'[t] = "queued" /\ tasks'[Len(tasks')] = t /\ Len(tasks') > 0
      BY <1>0, <3>1, <3>5
    <3>7. LastTask(waiting[th])'
      BY <3>6 DEF LastTask
    <3>8. Destroys(th)'
      BY <1>0, <3>1, <3>6, <3>7 DEF Destroys, InDestructor
    <3>9. \A o \in Threads : o # th => Uninvolved(o)'
      BY <1>0, <3>1, <3>3, <3>4 DEF Uninvolved, InDestructor
    <3> QED BY <3>1, <3>2, <3>8, <3>9 DEF Destruction
  <2> QED BY <1>5, <2>1, <2>2, <2>3, <2>4, <2>5, <2>6 DEF Scheduler
<1> QED BY <1>3, <1>4, <1>5 DEF Next

(* When the destructor of a queue that is not paused returns, every task   *)
(* that was ever pushed has run its action.                                *)
THEOREM DestroyedAfterLastActionCorrect == Spec => []DestroyedAfterLastAction
<1>1. Init => QueuedIsHeld /\ Destruction
  BY DEF Init, QueuedIsHeld, Destruction, InDestructor
<1>2. TypeOK /\ QueuedIsHeld /\ Destruction => DestroyedAfterLastAction
  <2> SUFFICES ASSUME TypeOK, QueuedIsHeld, Destruction, lifetime = "destroyed", pauseCount = 0,
                      NEW t \in Tasks
               PROVE  status[t] \in {"new", "finishing", "done"}
    BY DEF DestroyedAfterLastAction
  <2>1. tasks = <<>> /\ ~Occupies(t)
    BY DEF Destruction
  <2>2. status[t] # "queued"
    BY <2>1 DEF QueuedIsHeld
  <2> QED BY <2>1, <2>2 DEF TypeOK, Status, Occupies
<1> QED BY <1>1, <1>2, TypeInit, TypeNext, OwnershipInit, OwnershipNext, QueuedIsHeldNext, DestructionNext,
           PTL DEF Spec

-----------------------------------------------------------------------------
(* The clients' view: picks that have not read the pause count, and picks  *)
(* that have found it zero, are counted.                                   *)
Asked == Count({"count"})
Passed == Count(PickSteps \ {"count"})

(* How a thread that goes to another step changes a count.                 *)
LEMMA CountAfter ==
  ASSUME TypeOK, NEW th \in Threads, NEW step, pc' = [pc EXCEPT ![th] = step], NEW S
  PROVE  /\ Count(S) \in Nat
         /\ step \in S /\ pc[th] \notin S => Count(S)' = Count(S) + 1
         /\ step \notin S /\ pc[th] \in S => Count(S)' = Count(S) - 1 /\ Count(S) > 0
         /\ (step \in S <=> pc[th] \in S) => Count(S)' = Count(S)
<1> PICK In : In = {o \in Threads : pc[o] \in S}
  OBVIOUS
<1> PICK After : After = {o \in Threads : pc'[o] \in S}
  OBVIOUS
<1>1. pc \in [Threads -> PC]
  BY DEF TypeOK
<1>2. IsFiniteSet(In) /\ Cardinality(In) \in Nat
  <2>1. In \subseteq Threads
    OBVIOUS
  <2> QED BY <2>1, ThreadsAssumption, FS_Subset, FS_CardinalityType
<1>3. Count(S) = Cardinality(In) /\ Count(S)' = Cardinality(After)
  BY DEF Count
<1>4. CASE step \in S /\ pc[th] \notin S
  <2>1. After = In \cup {th} /\ th \notin In
    BY <1>1, <1>4
  <2>2. Cardinality(In \cup {th}) = Cardinality(In) + 1
    BY <1>2, <2>1, FS_AddElement
  <2> QED BY <1>2, <1>3, <1>4, <2>1, <2>2
<1>5. CASE step \notin S /\ pc[th] \in S
  <2>1. After = In \ {th} /\ th \in In
    BY <1>1, <1>5
  <2>2. Cardinality(In \ {th}) = Cardinality(In) - 1
    BY <1>2, <2>1, FS_RemoveElement
  <2>3. Cardinality(In) # 0
    BY <1>2, <2>1, FS_EmptySet
  <2>4. PICK n \in Nat : n = Cardinality(In)
    BY <1>2
  <2>5. Count(S) = n /\ Count(S)' = n - 1 /\ n > 0
    <3>1. Cardinality(After) = n - 1
      BY <2>1, <2>2, <2>4
    <3>2. n > 0
      BY <2>3, <2>4
    <3> QED BY <1>3, <2>4, <3>1, <3>2
  <2> QED BY <1>5, <2>5
<1>6. CASE step \in S <=> pc[th] \in S
  <2>1. After = In
    BY <1>1, <1>6
  <2> QED BY <1>2, <1>3, <1>6, <2>1
<1> QED BY <1>4, <1>5, <1>6

(* The same for the two counts of the view.                                *)
LEMMA ViewCounts ==
  ASSUME TypeOK, NEW th \in Threads, NEW step \in PC, pc' = [pc EXCEPT ![th] = step]
  PROVE  LET before == PickSteps \ {"count"}
         IN  /\ Asked \in Nat /\ Passed \in Nat
             /\ step = "count" /\ pc[th] \notin PickSteps => Asked' = Asked + 1 /\ Passed' = Passed
             /\ step \in before /\ pc[th] = "count" => /\ Asked' = Asked - 1 /\ Asked > 0
                                                      /\ Passed' = Passed + 1
             /\ step = "idle" /\ pc[th] = "count" => /\ Asked' = Asked - 1 /\ Asked > 0
                                                    /\ Passed' = Passed
             /\ step = "idle" /\ pc[th] \in before => /\ Asked' = Asked
                                                      /\ Passed' = Passed - 1 /\ Passed > 0
             /\ step \in before /\ pc[th] \in before => Asked' = Asked /\ Passed' = Passed
             /\ step \notin PickSteps /\ pc[th] \notin PickSteps => Asked' = Asked /\ Passed' = Passed
<1> DEFINE before == PickSteps \ {"count"}
<1>1. /\ Asked \in Nat
      /\ step = "count" /\ pc[th] # "count" => Asked' = Asked + 1
      /\ step # "count" /\ pc[th] = "count" => Asked' = Asked - 1 /\ Asked > 0
      /\ (step = "count" <=> pc[th] = "count") => Asked' = Asked
  BY CountAfter DEF Asked
<1>2. /\ Passed \in Nat
      /\ step \in before /\ pc[th] \notin before => Passed' = Passed + 1
      /\ step \notin before /\ pc[th] \in before => Passed' = Passed - 1 /\ Passed > 0
      /\ (step \in before <=> pc[th] \in before) => Passed' = Passed
  BY CountAfter DEF Passed
<1> QED BY <1>1, <1>2 DEF PickSteps

(* Steps of the view, in the terms of the queue.                           *)
LEMMA ViewSteps ==
  ASSUME Asked \in Nat, Passed \in Nat
  PROVE  /\ UNCHANGED <<tasks, Current, pauseCount, Asked, Passed, missed>> => UNCHANGED View!queues
         /\ \A t \in Tasks :
               tasks' = Append(tasks, t) /\ Asked' = Asked + 1 /\ UNCHANGED <<Current, pauseCount, Passed, missed>>
               => View!PushTo("queue", t)
         /\ pauseCount' = pauseCount + 1 /\ UNCHANGED <<tasks, Current, Asked, Passed, missed>>
               => View!PauseQueue("queue")
         /\ pauseCount > 0 /\ pauseCount' = pauseCount - 1 /\ UNCHANGED <<tasks, Current, Passed, missed>>
            /\ Asked' = (IF pauseCount = 1 THEN Asked + 1 ELSE Asked)
               => View!ResumeQueue("queue")
         /\ Current # NoTask /\ Current' = NoTask /\ Asked' = Asked + 1 /\ UNCHANGED <<tasks, pauseCount, Passed, missed>>
               => View!EndTask("queue")
         /\ Asked > 0 /\ Asked' = Asked - 1 /\ UNCHANGED <<tasks, Current, pauseCount, missed>>
            /\ Passed' = (IF pauseCount = 0 THEN Passed + 1 ELSE Passed)
               => View!ReadPause("queue")
         /\ Passed > 0 /\ Passed' = Passed - 1 /\ Current = NoTask /\ tasks # <<>>
            /\ Current' = Head(tasks) /\ tasks' = Tail(tasks) /\ UNCHANGED <<pauseCount, Asked, missed>>
               => View!Take("queue")
         /\ Passed > 0 /\ Passed' = Passed - 1 /\ (Current # NoTask \/ tasks = <<>> \/ Passed > 1)
            /\ UNCHANGED <<tasks, Current, pauseCount, Asked, missed>>
               => View!GiveUp("queue")
         /\ Passed > 0 /\ Passed' = Passed - 1 /\ Current = NoTask /\ tasks # <<>> /\ missed' = TRUE
            /\ UNCHANGED <<tasks, Current, pauseCount, Asked>>
               => View!Miss("queue")
<1>1. UNCHANGED <<tasks, Current, pauseCount, Asked, Passed, missed>> => UNCHANGED View!queues
  BY DEF View!queues, Asked, Passed, Only
<1>2. \A t \in Tasks :
         tasks' = Append(tasks, t) /\ Asked' = Asked + 1 /\ UNCHANGED <<Current, pauseCount, Passed, missed>>
         => View!PushTo("queue", t)
  BY DEF View!PushTo, Asked, Passed, Only, View!AddOne, View!TakeOne
<1>3. pauseCount' = pauseCount + 1 /\ UNCHANGED <<tasks, Current, Asked, Passed, missed>>
         => View!PauseQueue("queue")
  BY DEF View!PauseQueue, Asked, Passed, Only, View!AddOne, View!TakeOne
<1>4. pauseCount > 0 /\ pauseCount' = pauseCount - 1 /\ UNCHANGED <<tasks, Current, Passed, missed>>
      /\ Asked' = (IF pauseCount = 1 THEN Asked + 1 ELSE Asked)
         => View!ResumeQueue("queue")
  BY DEF View!ResumeQueue, Asked, Passed, Only, View!AddOne, View!TakeOne
<1>5. Current # NoTask /\ Current' = NoTask /\ Asked' = Asked + 1 /\ UNCHANGED <<tasks, pauseCount, Passed, missed>>
         => View!EndTask("queue")
  BY DEF View!EndTask, Asked, Passed, Only, View!AddOne, View!TakeOne
<1>6. Asked > 0 /\ Asked' = Asked - 1 /\ UNCHANGED <<tasks, Current, pauseCount, missed>>
      /\ Passed' = (IF pauseCount = 0 THEN Passed + 1 ELSE Passed)
         => View!ReadPause("queue")
  BY DEF View!ReadPause, Asked, Passed, Only, View!AddOne, View!TakeOne
<1>7. Passed > 0 /\ Passed' = Passed - 1 /\ Current = NoTask /\ tasks # <<>>
      /\ Current' = Head(tasks) /\ tasks' = Tail(tasks) /\ UNCHANGED <<pauseCount, Asked, missed>>
         => View!Take("queue")
  BY DEF View!Take, Asked, Passed, Only, View!AddOne, View!TakeOne
<1>8. Passed > 0 /\ Passed' = Passed - 1 /\ (Current # NoTask \/ tasks = <<>> \/ Passed > 1)
      /\ UNCHANGED <<tasks, Current, pauseCount, Asked, missed>>
         => View!GiveUp("queue")
  BY DEF View!GiveUp, Asked, Passed, Only, View!AddOne, View!TakeOne
<1>9. Passed > 0 /\ Passed' = Passed - 1 /\ Current = NoTask /\ tasks # <<>> /\ missed' = TRUE
      /\ UNCHANGED <<tasks, Current, pauseCount, Asked>>
         => View!Miss("queue")
  BY DEF View!Miss, Asked, Passed, Only, View!AddOne, View!TakeOne
<1> QED BY <1>1, <1>2, <1>3, <1>4, <1>5, <1>6, <1>7, <1>8, <1>9

(* Two threads that have found the pause count zero are counted twice.     *)
LEMMA TwoPassed ==
  ASSUME TypeOK, NEW th \in Threads, NEW o \in Threads, o # th,
         pc[th] \in PickSteps \ {"count"}, pc[o] \in PickSteps \ {"count"}
  PROVE  Passed > 1
<1> PICK In : In = {p \in Threads : pc[p] \in PickSteps \ {"count"}}
  OBVIOUS
<1>1. IsFiniteSet(In) /\ Cardinality(In) \in Nat /\ {th, o} \subseteq In
  <2>1. In \subseteq Threads /\ {th, o} \subseteq In
    OBVIOUS
  <2> QED BY <2>1, ThreadsAssumption, FS_Subset, FS_CardinalityType
<1>2. Cardinality({th, o}) = 2
  <2>1. IsFiniteSet({th}) /\ Cardinality({th}) = 1
    BY FS_Singleton
  <2>2. Cardinality({th} \cup {o}) = Cardinality({th}) + 1
    BY <2>1, FS_AddElement
  <2>3. {th} \cup {o} = {th, o}
    OBVIOUS
  <2> QED BY <2>1, <2>2, <2>3
<1>3. Cardinality({th, o}) <= Cardinality(In)
  BY <1>1, FS_Subset
<1>4. Passed = Cardinality(In)
  BY DEF Passed, Count
<1> QED BY <1>1, <1>2, <1>3, <1>4

(* What a return from pickNextTask() without a task changes: a pick that   *)
(* had read the pause count is over, and left nothing that another pick    *)
(* does not come for unless it says so.                                    *)
LEMMA ReturnView ==
  ASSUME TypeOK, Ownership, NEW th \in Threads, ReturnNothing(th), tasks' = tasks, pauseCount' = pauseCount,
         pc[th] \in PickSteps \ {"count"},
         \/ missed' = missed /\ (Current # NoTask \/ tasks = <<>> \/ Passed > 1)
         \/ missed' = TRUE /\ Current = NoTask /\ tasks # <<>>
  PROVE  View!QueuesNext
<1>1. pc' = [pc EXCEPT ![th] = "idle"] /\ "idle" \in PC
  BY DEF ReturnNothing, Goto, PC
<1>2. Asked \in Nat /\ Passed \in Nat /\ Asked' = Asked /\ Passed' = Passed - 1 /\ Passed > 0
  BY <1>1, ViewCounts
<1>3. UNCHANGED Executor!vars
  BY ReturnStutters
<1>4. Current' = Current
  BY <1>3 DEF Executor!vars
<1>5. View!GiveUp("queue") \/ View!Miss("queue")
  BY <1>2, <1>4, ViewSteps
<1> QED BY <1>5 DEF View!QueuesNext, View!Pick

(* Every step of the queue is one of the clients' view, or changes nothing *)
(* they see.                                                               *)
LEMMA StepViewed ==
  ASSUME TypeOK, TypeOK', Ownership, Ownership', [Next]_vars
  PROVE  [View!QueuesNext]_(View!queues)
<1> USE DEF PC, PickSteps
<1>0. pc \in [Threads -> PC] /\ pauseCount \in Nat
  BY DEF TypeOK
<1>1. Asked \in Nat /\ Passed \in Nat
  <2>1. IsFiniteSet({th \in Threads : pc[th] \in {"count"}}) /\ IsFiniteSet({th \in Threads : pc[th] \in PickSteps \ {"count"}})
    BY ThreadsAssumption, FS_Subset
  <2> QED BY <2>1, FS_CardinalityType DEF Asked, Passed, Count
<1>2. CASE UNCHANGED vars
  <2>1. UNCHANGED <<tasks, Current, pauseCount, Asked, Passed, missed>>
    BY <1>2 DEF vars, Current, Occupies, Asked, Passed, Count
  <2> QED BY <1>1, <2>1, ViewSteps
<1>3. ASSUME NEW th \in Threads, NEW t \in Tasks, NEW kind, Enqueue(th, t), Enter(th, kind), pc[th] \notin PickSteps
      PROVE  View!QueuesNext
  <2>1. tasks' = Append(tasks, t) /\ UNCHANGED <<pauseCount, missed>> /\ pc' = [pc EXCEPT ![th] = "count"]
    BY <1>3 DEF Enqueue, Enter, Goto
  <2>2. Asked' = Asked + 1 /\ Passed' = Passed
    BY <1>3, <2>1, ViewCounts
  <2>3. Current' = Current
    BY <1>3, EnqueueSubmits DEF Executor!Submit
  <2>4. View!PushTo("queue", t)
    BY <1>1, <2>1, <2>2, <2>3, ViewSteps
  <2> QED BY <2>4 DEF View!QueuesNext
(* A thread outside of pickNextTask() does something its clients do not see. *)
<1>4. ASSUME NEW th \in Threads, NEW step \in PC \ PickSteps, pc' = [pc EXCEPT ![th] = step], pc[th] \notin PickSteps,
             UNCHANGED <<tasks, status, pauseCount, missed>>
      PROVE  UNCHANGED View!queues
  <2>1. Asked' = Asked /\ Passed' = Passed
    BY <1>4, ViewCounts
  <2>2. Current' = Current
    BY <1>4 DEF Current, Occupies
  <2> QED BY <1>1, <1>4, <2>1, <2>2, ViewSteps
(* A pick goes on to its next access. *)
<1>5. ASSUME NEW th \in Threads, NEW step \in PickSteps \ {"count"}, pc' = [pc EXCEPT ![th] = step],
             pc[th] \in PickSteps \ {"count"}, UNCHANGED <<tasks, status, pauseCount, missed>>
      PROVE  UNCHANGED View!queues
  <2>1. Asked' = Asked /\ Passed' = Passed
    BY <1>5, ViewCounts
  <2>2. Current' = Current
    BY <1>5 DEF Current, Occupies
  <2> QED BY <1>1, <1>5, <2>1, <2>2, ViewSteps
<1>6. ASSUME NEW th \in Threads, Client(th)
      PROVE  [View!QueuesNext]_(View!queues)
  <2>1. CASE \E t \in Tasks : Push(th, t) \/ PushAndGetNext(th, t) \/ PushAndWait(th, t)
    BY <1>3, <2>1 DEF Push, PushAndGetNext, PushAndWait, MayCall
  <2>2. CASE Pause(th)
    <3>1. pauseCount' = pauseCount + 1 /\ UNCHANGED <<tasks, Current, Asked, Passed, missed>>
      BY <2>2 DEF Pause, Current, Occupies, Asked, Passed, Count
    <3>2. View!PauseQueue("queue")
      BY <1>1, <3>1, ViewSteps
    <3> QED BY <3>2 DEF View!QueuesNext
  <2>3. CASE Resume(th)
    <3>1. pauseCount > 0 /\ pauseCount' = pauseCount - 1 /\ tasks' = tasks /\ Current' = Current /\ missed' = missed /\ pc[th] = "idle"
      BY <2>3 DEF Resume, MayCall, Current, Occupies
    <3>2. CASE pauseCount = 1
      <4>1. pc' = [pc EXCEPT ![th] = "count"]
        BY <2>3, <3>2 DEF Resume, Enter, Goto
      <4>2. Asked' = Asked + 1 /\ Passed' = Passed
        BY <3>1, <4>1, ViewCounts
      <4> QED BY <1>1, <3>1, <3>2, <4>2, ViewSteps DEF View!QueuesNext
    <3>3. CASE pauseCount # 1
      <4>1. Asked' = Asked /\ Passed' = Passed
        BY <2>3, <3>3 DEF Resume, Asked, Passed, Count
      <4> QED BY <1>1, <3>1, <3>3, <4>1, ViewSteps DEF View!QueuesNext
    <3> QED BY <3>2, <3>3
  <2>4. CASE Destroy(th)
    <3>1. \E step \in PC \ PickSteps : pc' = [pc EXCEPT ![th] = step]
      <4>1. pc' = [pc EXCEPT ![th] = "dtorEmpty"] \/ pc' = [pc EXCEPT ![th] = "dtorFull"]
        BY <2>4 DEF Destroy, Goto
      <4> QED BY <4>1
    <3> QED BY <1>4, <2>4, <3>1 DEF Destroy, MayCall, queueVars
  <2> QED BY <1>6, <2>1, <2>2, <2>3, <2>4 DEF Client
<1>7. ASSUME NEW th \in Threads, Scheduler(th)
      PROVE  [View!QueuesNext]_(View!queues)
  <2>1. CASE ReadPauseCount(th)
    <3>1. pc[th] = "count" /\ UNCHANGED <<tasks, pauseCount, missed>>
      BY <2>1 DEF ReadPauseCount, queueVars
    <3>2. Current' = Current
      <4>1. CASE status' = status
        BY <4>1 DEF Current, Occupies
      <4>2. CASE ReturnNothing(th)
        BY <3>1, <4>2, ReturnStutters DEF Executor!vars
      <4> QED BY <2>1, <4>1, <4>2 DEF ReadPauseCount
    <3>3. CASE pauseCount = 0
      <4>1. pc' = [pc EXCEPT ![th] = "cas1"]
        BY <2>1, <3>3 DEF ReadPauseCount, Goto
      <4>2. Asked' = Asked - 1 /\ Asked > 0 /\ Passed' = Passed + 1
        <5>1. "cas1" \in PC /\ "cas1" \in PickSteps \ {"count"}
          OBVIOUS
        <5> HIDE DEF PC, PickSteps
        <5> QED BY <3>1, <4>1, <5>1, ViewCounts
      <4>3. View!ReadPause("queue")
        BY <1>1, <3>1, <3>2, <3>3, <4>2, ViewSteps
      <4> QED BY <4>3 DEF View!QueuesNext, View!Pick
    <3>4. CASE pauseCount # 0
      <4>1. pc' = [pc EXCEPT ![th] = "idle"]
        BY <2>1, <3>4 DEF ReadPauseCount, ReturnNothing, Goto
      <4>2. Asked' = Asked - 1 /\ Asked > 0 /\ Passed' = Passed
        BY <3>1, <4>1, ViewCounts
      <4>3. View!ReadPause("queue")
        BY <1>1, <3>1, <3>2, <3>4, <4>2, ViewSteps
      <4> QED BY <4>3 DEF View!QueuesNext, View!Pick
    <3> QED BY <3>3, <3>4
  <2>2. CASE CAS1(th) \/ CAS2(th)
    <3>1. pc[th] \in PickSteps \ {"count"} /\ UNCHANGED <<tasks, pauseCount, missed>>
      BY <2>2 DEF CAS1, CAS2, CompareExchange
    <3>2. CASE ~taskChosen
      <4>1. status' = status /\ \E step \in PickSteps \ {"count"} : pc' = [pc EXCEPT ![th] = step]
        BY <2>2, <3>2 DEF CAS1, CAS2, CompareExchange, Goto
      <4> QED BY <1>5, <3>1, <4>1
    <3>3. CASE taskChosen
      <4>1. ReturnNothing(th) /\ pc[th] \in {"cas1", "cas2"}
        BY <2>2, <3>3 DEF CAS1, CAS2, CompareExchange
      <4>2. \/ \E o \in Threads : Holds(o)
            \/ \E t \in Tasks : Occupies(t)
        BY <3>3 DEF Ownership, SingleOwner
      <4>3. ASSUME NEW o \in Threads, Holds(o) PROVE Passed > 1
        <5>1. o # th /\ pc[o] \in PickSteps \ {"count"}
          BY <4>1, <4>3 DEF Holds
        <5> QED BY <3>1, <5>1, TwoPassed
      <4>4. (\E t \in Tasks : Occupies(t)) => Current # NoTask
        BY CurrentFacts, TaskAssumption DEF Ownership
      <4> QED BY <3>1, <4>1, <4>2, <4>3, <4>4, ReturnView
    <3> QED BY <3>2, <3>3
  <2>3. CASE (Pop1(th) \/ Pop2(th)) /\ tasks = <<>>
    <3>1. /\ pc[th] \in PickSteps \ {"count"} /\ UNCHANGED <<tasks, pauseCount, missed>> /\ status' = status
          /\ \E step \in PickSteps \ {"count"} : pc' = [pc EXCEPT ![th] = step]
      BY <2>3 DEF Pop1, Pop2, TryPop, Goto
    <3> QED BY <1>5, <3>1
  <2>4. CASE (Pop1(th) \/ Pop2(th)) /\ tasks # <<>>
    <3>1. /\ pc[th] \in PickSteps \ {"count"} /\ UNCHANGED <<pauseCount, missed>>
          /\ pc' = [pc EXCEPT ![th] = "idle"]
      BY <2>4 DEF Pop1, Pop2, TryPop, ReturnTask, Goto
    <3>2. Asked' = Asked /\ Passed' = Passed - 1 /\ Passed > 0
      BY <3>1, ViewCounts
    <3>3. Current = NoTask /\ Current' = Head(tasks) /\ tasks' = Tail(tasks)
      BY <2>4, PopChooses DEF Executor!Choose
    <3>4. View!Take("queue")
      BY <1>1, <2>4, <3>1, <3>2, <3>3, ViewSteps
    <3> QED BY <3>4 DEF View!QueuesNext, View!Pick
  <2>5. CASE Clear1(th)
    <3>1. /\ pc[th] = "clear1" /\ UNCHANGED <<tasks, pauseCount, missed>> /\ status' = status
          /\ pc' = [pc EXCEPT ![th] = "empty"]
      BY <2>5 DEF Clear1, Goto
    <3> QED BY <1>5, <3>1
  <2>6. CASE TestEmpty(th)
    <3>1. pc[th] = "empty" /\ UNCHANGED <<tasks, pauseCount, missed>>
      BY <2>6 DEF TestEmpty, queueVars
    <3>2. (ReturnNothing(th) /\ tasks = <<>>) \/ (status' = status /\ pc' = [pc EXCEPT ![th] = "cas2"])
      BY <2>6 DEF TestEmpty, Goto
    <3> QED BY <1>5, <3>1, <3>2, ReturnView
  <2>7. CASE Clear2(th)
    <3>1. /\ pc[th] = "clear2" /\ ReturnNothing(th) /\ UNCHANGED <<tasks, pauseCount>>
          /\ missed' = (missed \/ tasks # <<>>) /\ missed \in BOOLEAN
      BY <2>7 DEF Clear2, TypeOK
    <3>2. Current = NoTask
      BY <3>1, NoOccupantCurrent DEF Holds
    <3>3. (tasks = <<>> /\ missed' = missed) \/ (tasks # <<>> /\ missed' = TRUE)
      BY <3>1
    <3> QED BY <3>1, <3>2, <3>3, ReturnView
  <2>8. CASE FinishedTask(th)
    <3>1. pc[th] = "idle" /\ pc' = [pc EXCEPT ![th] = "count"] /\ UNCHANGED <<tasks, pauseCount, missed>>
      BY <2>8 DEF FinishedTask, Enter, Goto
    <3>2. Asked' = Asked + 1 /\ Passed' = Passed
      BY <3>1, ViewCounts
    <3>3. Current # NoTask /\ Current' = NoTask
      BY <2>8, FinishCompletes DEF Executor!Complete
    <3>4. View!EndTask("queue")
      BY <1>1, <3>1, <3>2, <3>3, ViewSteps
    <3> QED BY <3>4 DEF View!QueuesNext
  <2>9. CASE WaitForAll(th)
    <3>1. UNCHANGED <<tasks, Current, pauseCount, Asked, Passed, missed>>
      BY <2>9 DEF WaitForAll, queueVars, Current, Occupies, Asked, Passed, Count
    <3> QED BY <1>1, <3>1, ViewSteps
  <2>10. CASE DestructorSkips(th)
    BY <1>4, <2>10 DEF DestructorSkips, Goto, queueVars
  <2>11. CASE \E t \in Tasks : RunSpawned(th, t)
    <3>1. UNCHANGED <<tasks, pauseCount, Asked, Passed, missed>>
      BY <2>11 DEF RunSpawned, queueVars, Asked, Passed, Count
    <3>2. UNCHANGED Executor!vars
      BY <2>11, SameStages DEF RunSpawned, queueVars, TypeOK, Occupies, Finished
    <3>3. Current' = Current
      BY <3>2 DEF Executor!vars
    <3> QED BY <1>1, <3>1, <3>3, ViewSteps
  <2>12. CASE \E t \in Tasks : DestructorWaits(th, t)
    BY <1>3, <2>12 DEF DestructorWaits
  <2> QED BY <1>7, <2>1, <2>2, <2>3, <2>4, <2>5, <2>6, <2>7, <2>8, <2>9, <2>10, <2>11, <2>12
          DEF Scheduler, PickNextTask
<1> QED BY <1>2, <1>6, <1>7 DEF Next

(* The queue, access by access, implements one queue of TaskQueues, on     *)
(* which the chain and the limited queue are built.                        *)
THEOREM ImplementsClientViewCorrect == Spec => ImplementsClientView
<1>1. Init => View!QueuesInit
  <2> SUFFICES ASSUME Init PROVE View!QueuesInit
    OBVIOUS
  <2>1. Count({"count"}) = 0 /\ Count(PickSteps \ {"count"}) = 0
    <3>1. {th \in Threads : pc[th] \in {"count"}} = {} /\ {th \in Threads : pc[th] \in PickSteps \ {"count"}} = {}
      BY DEF Init, PickSteps
    <3> QED BY <3>1, FS_EmptySet DEF Count
  <2>2. Current = NoTask /\ tasks = <<>> /\ pauseCount = 0 /\ missed = FALSE
    BY DEF Init, Current, Occupies
  <2> QED BY <2>1, <2>2 DEF View!QueuesInit, Only
<1>2. TypeOK /\ TypeOK' /\ Ownership /\ Ownership' /\ [Next]_vars => [View!QueuesNext]_(View!queues)
  BY StepViewed
<1> QED BY <1>1, <1>2, TypeCorrect, OwnershipCorrect, PTL DEF Spec, ImplementsClientView, View!QueuesSpec

-----------------------------------------------------------------------------
(* What is left when every thread is idle: the safety half of              *)
(* PushedTaskRuns.                                                         *)

(* A task in its action or in finishedTask() is on a thread, and the task  *)
(* a thread waits for has been pushed.                                     *)
OnThread == \A t \in Tasks : status[t] \in {"running", "finishing"} => \E th \in Threads : running[th] = t

WaitsForPushed == \A th \in Threads : waiting[th] # NoTask => status[waiting[th]] # "new"

(* No thread has anything to do: none is in the queue's code or in an      *)
(* action, none can return from its wait, TBB has no task of the queue,    *)
(* and every pause() of a living queue has been balanced.                  *)
AtRest == /\ \A th \in Threads : /\ pc[th] = "idle" /\ running[th] = NoTask
                                 /\ waiting[th] # NoTask => status[waiting[th]] # "done"
          /\ \A t \in Tasks : status[t] # "spawned"
          /\ pauseCount > 0 => lifetime # "alive"

(* At rest every task ever pushed has been executed and nobody waits; the  *)
(* exceptions are those of PushedTaskRuns.                                 *)
NothingWaits ==
    AtRest => \/ /\ \A t \in Tasks : status[t] \in {"new", "done"}
                 /\ \A th \in Threads : waiting[th] = NoTask
              \/ missed \/ AbandonedPaused

(* The steps of pickNextTask() that return to their operation.             *)
LEMMA PickReturns ==
  ASSUME NEW th \in Threads, PickNextTask(th), TypeOK
  PROVE  /\ waiting' = waiting
         /\ \/ UNCHANGED <<status, running>>
            \/ ReturnNothing(th)
            \/ \E t \in Tasks : ReturnTask(th, t)
<1>1. CASE (Pop1(th) \/ Pop2(th)) /\ tasks # <<>>
  <2>1. ReturnTask(th, Head(tasks)) /\ Head(tasks) \in Tasks /\ waiting' = waiting
    BY <1>1, PopFacts DEF Pop1, Pop2, TryPop, TypeOK
  <2> QED BY <2>1
<1>2. CASE ~((Pop1(th) \/ Pop2(th)) /\ tasks # <<>>)
  BY <1>2 DEF PickNextTask, ReadPauseCount, CAS1, CAS2, CompareExchange, Pop1, Pop2, TryPop, Clear1,
         TestEmpty, Clear2, queueVars
<1> QED BY <1>1, <1>2

LEMMA OnThreadNext == TypeOK /\ Ownership /\ OnThread /\ [Next]_vars => OnThread'
<1> SUFFICES ASSUME TypeOK, Ownership, OnThread, [Next]_vars PROVE OnThread'
  OBVIOUS
<1>0. status \in [Tasks -> Status] /\ running \in [Threads -> Tasks \cup {NoTask}]
  BY DEF TypeOK
<1>1. ASSUME running' = running,
             \A t \in Tasks : status'[t] \in {"running", "finishing"} => \E th \in Threads : running[th] = t
      PROVE  OnThread'
  BY <1>1 DEF OnThread
<1>2. CASE UNCHANGED <<status, running>>
  BY <1>1, <1>2 DEF OnThread
<1>3. ASSUME NEW th \in Threads, NEW t \in Tasks, Enqueue(th, t)
      PROVE  OnThread'
  <2>1. running' = running /\ status' = [status EXCEPT ![t] = "queued"]
    BY <1>3 DEF Enqueue
  <2> QED BY <1>0, <1>1, <2>1 DEF OnThread
(* The task th had is gone, and the one it takes, if any, is on th. *)
<1>4. ASSUME NEW th \in Threads, NEW t \in Tasks \cup {NoTask},
             running' = [running EXCEPT ![th] = t],
             \A u \in Tasks : status'[u] \in {"running", "finishing"} =>
                 u = t \/ (u # running[th] /\ status[u] \in {"running", "finishing"})
      PROVE  OnThread'
  <2> SUFFICES ASSUME NEW u \in Tasks, status'[u] \in {"running", "finishing"}
               PROVE  \E o \in Threads : running'[o] = u
    BY DEF OnThread
  <2>1. CASE u = t
    BY <1>0, <1>4, <2>1
  <2>2. CASE u # t
    <3>1. u # running[th] /\ status[u] \in {"running", "finishing"}
      BY <1>4, <2>2
    <3>2. PICK o \in Threads : running[o] = u
      BY <3>1 DEF OnThread
    <3> QED BY <1>0, <1>4, <3>1, <3>2
  <2> QED BY <2>1, <2>2
<1>5. ASSUME NEW th \in Threads, NEW t \in Tasks, running[th] = NoTask,
             running' = [running EXCEPT ![th] = t], status' = [status EXCEPT ![t] = "running"]
      PROVE  OnThread'
  <2>1. ASSUME NEW u \in Tasks, u # t
        PROVE  status'[u] = status[u]
    BY <1>0, <1>5, <2>1
  <2>2. \A u \in Tasks : u # running[th]
    BY <1>5, TaskAssumption
  <2>3. \A u \in Tasks : status'[u] \in {"running", "finishing"} =>
            u = t \/ (u # running[th] /\ status[u] \in {"running", "finishing"})
    BY <2>1, <2>2
  <2>4. t \in Tasks \cup {NoTask} /\ running' = [running EXCEPT ![th] = t]
    BY <1>5
  <2> QED BY <1>4, <2>3, <2>4
<1>6. ASSUME NEW th \in Threads, ReturnNothing(th), op[th] = "finish"
      PROVE  OnThread'
  <2>1. status' = [status EXCEPT ![running[th]] = "done"] /\ running' = [running EXCEPT ![th] = NoTask]
    BY <1>6 DEF ReturnNothing
  <2> QED BY <1>0, <1>4, <2>1
<1>7. ASSUME NEW th \in Threads, NEW t \in Tasks, ReturnTask(th, t)
      PROVE  OnThread'
  <2>1. CASE op[th] = "finish"
    <3>1. /\ status' = [status EXCEPT ![running[th]] = "done", ![t] = "running"]
          /\ running' = [running EXCEPT ![th] = t]
      BY <1>7, <2>1 DEF ReturnTask
    <3> QED BY <1>0, <1>4, <3>1
  <2>2. CASE op[th] = "next"
    <3>1. status' = [status EXCEPT ![t] = "running"] /\ running' = [running EXCEPT ![th] = t]
      BY <1>7, <2>2 DEF ReturnTask
    <3>2. running[th] = NoTask
      BY <2>2 DEF Ownership, ThreadInOperation
    <3> QED BY <1>5, <3>1, <3>2
  <2>3. CASE op[th] \notin {"finish", "next"}
    <3>1. status' = [status EXCEPT ![t] = "spawned"] /\ running' = running
      BY <1>7, <2>3 DEF ReturnTask
    <3> QED BY <1>0, <1>1, <3>1 DEF OnThread
  <2> QED BY <2>1, <2>2, <2>3
<1>8. ASSUME NEW th \in Threads, PickNextTask(th)
      PROVE  OnThread'
  <2>1. CASE ReturnNothing(th)
    BY <1>2, <1>6, <2>1 DEF ReturnNothing
  <2> QED BY <1>2, <1>7, <1>8, <2>1, PickReturns
<1>9. ASSUME NEW th \in Threads, Client(th)
      PROVE  OnThread'
  BY <1>2, <1>3, <1>9 DEF Client, Push, PushAndGetNext, PushAndWait, Pause, Resume, Destroy
<1>10. ASSUME NEW th \in Threads, Scheduler(th)
      PROVE  OnThread'
  <2>1. CASE FinishedTask(th)
    <3>1. /\ running' = running /\ running[th] \in Tasks
          /\ status' = [status EXCEPT ![running[th]] = "finishing"]
      BY <1>0, <2>1 DEF FinishedTask
    <3> QED BY <1>0, <1>1, <3>1 DEF OnThread
  <2>2. CASE WaitForAll(th) \/ DestructorSkips(th)
    BY <1>2, <2>2 DEF WaitForAll, DestructorSkips
  <2>3. ASSUME NEW t \in Tasks, RunSpawned(th, t)
        PROVE  OnThread'
    <3>1. /\ status' = [status EXCEPT ![t] = "running"] /\ running' = [running EXCEPT ![th] = t]
          /\ running[th] = NoTask
      BY <2>3 DEF RunSpawned
    <3> QED BY <1>5, <3>1
  <2>4. CASE \E t \in Tasks : DestructorWaits(th, t)
    BY <1>3, <2>4 DEF DestructorWaits
  <2> QED BY <1>8, <1>10, <2>1, <2>2, <2>3, <2>4 DEF Scheduler
<1>11. CASE UNCHANGED vars
  BY <1>2, <1>11 DEF vars
<1> QED BY <1>9, <1>10, <1>11 DEF Next

(* No step makes a pushed task new again.                                  *)
LEMMA WaitsForPushedNext == TypeOK /\ WaitsForPushed /\ [Next]_vars => WaitsForPushed'
<1> SUFFICES ASSUME TypeOK, WaitsForPushed, [Next]_vars PROVE WaitsForPushed'
  OBVIOUS
<1>0. /\ status \in [Tasks -> Status] /\ running \in [Threads -> Tasks \cup {NoTask}]
      /\ waiting \in [Threads -> Tasks \cup {NoTask}]
  BY DEF TypeOK
<1>1. ASSUME \A th \in Threads : waiting'[th] # NoTask => waiting'[th] = waiting[th],
             \A t \in Tasks : status'[t] = "new" => status[t] = "new"
      PROVE  WaitsForPushed'
  <2> SUFFICES ASSUME NEW th \in Threads, waiting'[th] # NoTask PROVE status'[waiting'[th]] # "new"
    BY DEF WaitsForPushed
  <2>1. waiting'[th] = waiting[th] /\ waiting[th] \in Tasks /\ status[waiting[th]] # "new"
    BY <1>0, <1>1 DEF WaitsForPushed
  <2> QED BY <1>1, <2>1
<1>2. ASSUME NEW th \in Threads, NEW t \in Tasks, Enqueue(th, t),
             waiting' = waiting \/ waiting' = [waiting EXCEPT ![th] = t]
      PROVE  WaitsForPushed'
  <2>1. status' = [status EXCEPT ![t] = "queued"]
    BY <1>2 DEF Enqueue
  <2>2. status'[t] = "queued" /\ \A u \in Tasks : status'[u] = "new" => status[u] = "new"
    BY <1>0, <2>1
  <2> SUFFICES ASSUME NEW o \in Threads, waiting'[o] # NoTask PROVE status'[waiting'[o]] # "new"
    BY DEF WaitsForPushed
  <2>3. CASE waiting'[o] = t
    BY <2>2, <2>3
  <2>4. CASE waiting'[o] # t
    <3>1. waiting'[o] = waiting[o] /\ waiting[o] \in Tasks /\ status[waiting[o]] # "new"
      BY <1>0, <1>2, <2>4 DEF WaitsForPushed
    <3> QED BY <2>2, <3>1
  <2> QED BY <2>3, <2>4
<1>3. ASSUME NEW th \in Threads, PickNextTask(th)
      PROVE  WaitsForPushed'
  <2>1. waiting' = waiting
    BY <1>3, PickReturns
  <2>2. CASE ReturnNothing(th)
    <3>1. status' = status \/ status' = [status EXCEPT ![running[th]] = "done"]
      BY <2>2 DEF ReturnNothing
    <3> QED BY <1>0, <1>1, <2>1, <3>1
  <2>3. ASSUME NEW t \in Tasks, ReturnTask(th, t)
        PROVE  WaitsForPushed'
    <3>1. \/ status' = [status EXCEPT ![running[th]] = "done", ![t] = "running"]
          \/ \E x \in {"running", "spawned"} : status' = [status EXCEPT ![t] = x]
      BY <2>3 DEF ReturnTask
    <3> QED BY <1>0, <1>1, <2>1, <3>1
  <2> QED BY <1>1, <1>3, <2>1, <2>2, <2>3, PickReturns
<1>4. ASSUME NEW th \in Threads, Client(th)
      PROVE  WaitsForPushed'
  <2>1. CASE Pause(th) \/ Resume(th) \/ Destroy(th)
    BY <1>1, <2>1 DEF Pause, Resume, Destroy
  <2> QED BY <1>2, <1>4, <2>1 DEF Client, Push, PushAndGetNext, PushAndWait
<1>5. ASSUME NEW th \in Threads, Scheduler(th)
      PROVE  WaitsForPushed'
  <2>1. CASE FinishedTask(th)
    <3>1. waiting' = waiting /\ status' = [status EXCEPT ![running[th]] = "finishing"]
      BY <2>1 DEF FinishedTask
    <3> QED BY <1>0, <1>1, <3>1
  <2>2. CASE WaitForAll(th)
    BY <1>0, <1>1, <2>2 DEF WaitForAll
  <2>3. CASE DestructorSkips(th)
    BY <1>1, <2>3 DEF DestructorSkips
  <2>4. CASE \E t \in Tasks : RunSpawned(th, t)
    BY <1>0, <1>1, <2>4 DEF RunSpawned
  <2>5. CASE \E t \in Tasks : DestructorWaits(th, t)
    BY <1>2, <2>5 DEF DestructorWaits
  <2> QED BY <1>3, <1>5, <2>1, <2>2, <2>3, <2>4, <2>5 DEF Scheduler
<1>6. CASE UNCHANGED vars
  BY <1>1, <1>6 DEF vars
<1> QED BY <1>4, <1>5, <1>6 DEF Next

(* When no thread has anything left to do, every task that was pushed has  *)
(* been executed and every pushAndWait() has returned, unless a second     *)
(* clear overlooked a task or a paused queue was destroyed.                *)
THEOREM NothingWaitsAtRest == Spec => []NothingWaits
<1>1. Init => QueuedIsHeld /\ OnThread /\ WaitsForPushed
  BY DEF Init, QueuedIsHeld, OnThread, WaitsForPushed
<1>2. TypeOK /\ Ownership /\ QueuedHasPicker /\ QueuedIsHeld /\ OnThread /\ WaitsForPushed => NothingWaits
  <2> SUFFICES ASSUME TypeOK, Ownership, QueuedHasPicker, QueuedIsHeld, OnThread, WaitsForPushed,
                      AtRest, ~missed, ~AbandonedPaused
               PROVE  /\ \A t \in Tasks : status[t] \in {"new", "done"}
                      /\ \A th \in Threads : waiting[th] = NoTask
    BY DEF NothingWaits
  <2>1. pauseCount = 0
    BY DEF AtRest, AbandonedPaused, TypeOK
  <2>2. \A th \in Threads : ~Picking(th) /\ ~Holds(th) /\ pc[th] # "dtorFull" /\ running[th] = NoTask
    BY DEF AtRest, Picking, PickSteps, Holds
  <2>3. \A t \in Tasks : status[t] \notin {"spawned", "running", "finishing"}
    BY <2>2, TaskAssumption DEF AtRest, OnThread
  <2>4. ~taskChosen
    BY <2>2, <2>3 DEF Ownership, SingleOwner, Occupies
  <2>5. tasks = <<>>
    BY <2>1, <2>2, <2>4 DEF QueuedHasPicker
  <2>6. \A t \in Tasks : status[t] \in {"new", "done"}
    <3>1. ASSUME NEW t \in Tasks PROVE status[t] # "queued"
      BY <2>5 DEF QueuedIsHeld
    <3> QED BY <2>3, <3>1 DEF TypeOK, Status
  <2>7. ASSUME NEW th \in Threads PROVE waiting[th] = NoTask
    <3> SUFFICES ASSUME waiting[th] # NoTask PROVE FALSE
      OBVIOUS
    <3>1. waiting[th] \in Tasks /\ status[waiting[th]] # "new" /\ status[waiting[th]] # "done"
      BY DEF TypeOK, WaitsForPushed, AtRest
    <3> QED BY <2>6, <3>1
  <2> QED BY <2>6, <2>7
<1> QED BY <1>1, <1>2, TypeInit, TypeNext, OwnershipInit, OwnershipNext, QueuedIsHeldNext, OnThreadNext,
           WaitsForPushedNext, QueuedHasPickerCorrect, PTL DEF Spec
=============================================================================
