----------------------------- MODULE TaskQueues -----------------------------
(***************************************************************************)
(* Several edm::SerialTaskQueues as their clients see them: what a queue   *)
(* holds, which functor it runs, how often it is paused, and the calls of  *)
(* pickNextTask() that are under way.  The two halves of a pick, the test  *)
(* of the pause count and the taking of m_taskChosen, stay apart, because  *)
(* a pause() may come in between.  SerialTaskQueue.tla is shown to         *)
(* implement one of these queues, with exactly the picks below;            *)
(* SerialTaskQueueChain.tla and LimitedTaskQueue.tla are built from them.  *)
(***************************************************************************)
EXTENDS Naturals, Sequences

CONSTANTS Queues, Tasks, NoTask

VARIABLES pending,     \* per queue: functors in m_tasks
          current,     \* per queue: the functor that occupies it, or NoTask
          pauseCount,  \* per queue: m_pauseCount
          asked,       \* per queue: picks that will read the pause count
          passed,      \* per queue: picks that have read 0 from it
          missed       \* history, per queue: a second clear left a functor behind

queues == <<pending, current, pauseCount, asked, passed, missed>>

QueuesInit == /\ pending = [q \in Queues |-> <<>>]
              /\ current = [q \in Queues |-> NoTask]
              /\ pauseCount = [q \in Queues |-> 0]
              /\ asked = [q \in Queues |-> 0]
              /\ passed = [q \in Queues |-> 0]
              /\ missed = [q \in Queues |-> FALSE]

AddOne(f, q) == [f EXCEPT ![q] = @ + 1]
TakeOne(f, q) == [f EXCEPT ![q] = @ - 1]

PushInFront(q, t) == \* mutant: last in, first out
    /\ pending' = [pending EXCEPT ![q] = <<t>> \o @]
    /\ asked' = AddOne(asked, q)
    /\ UNCHANGED <<current, pauseCount, passed, missed>>

(* push() enters the functor and asks for a pick. *)
PushTo(q, t) == /\ pending' = [pending EXCEPT ![q] = Append(@, t)]
                /\ asked' = AddOne(asked, q)
                /\ UNCHANGED <<current, pauseCount, passed, missed>>

PauseQueue(q) == /\ pauseCount' = AddOne(pauseCount, q)
                 /\ UNCHANGED <<pending, current, asked, passed, missed>>

(* resume() asks for a pick when it takes back the last pause. *)
ResumeQueue(q) == /\ pauseCount[q] > 0
                  /\ pauseCount' = TakeOne(pauseCount, q)
                  /\ asked' = IF pauseCount[q] = 1 THEN AddOne(asked, q) ELSE asked
                  /\ UNCHANGED <<pending, current, passed, missed>>

(* finishedTask() frees the queue and asks for a pick. *)
EndTask(q) == /\ current[q] # NoTask
              /\ current' = [current EXCEPT ![q] = NoTask]
              /\ asked' = AddOne(asked, q)
              /\ UNCHANGED <<pending, pauseCount, passed, missed>>

(* pickNextTask(): the pause count is read ... *)
ReadPause(q) == /\ asked[q] > 0
                /\ asked' = TakeOne(asked, q)
                /\ passed' = IF pauseCount[q] = 0 THEN AddOne(passed, q) ELSE passed
                /\ UNCHANGED <<pending, current, pauseCount, missed>>

(* ... later the front functor is taken, whatever the pause count is now, ... *)
Take(q) == /\ passed[q] > 0
           /\ current[q] = NoTask /\ pending[q] # <<>>
           /\ passed' = TakeOne(passed, q)
           /\ current' = [current EXCEPT ![q] = Head(pending[q])]
           /\ pending' = [pending EXCEPT ![q] = Tail(@)]
           /\ UNCHANGED <<pauseCount, asked, missed>>

(* ... or nothing is: the queue is busy or empty, or another pick holds    *)
(* m_taskChosen at that moment and comes after this one, ...               *)
GiveUp(q) == /\ passed[q] > 0
             /\ current[q] # NoTask \/ pending[q] = <<>> \/ passed[q] > 1
             /\ passed' = TakeOne(passed, q)
             /\ UNCHANGED <<pending, current, pauseCount, asked, missed>>

(* ... or the pick ends with its second clear, which is not followed by    *)
(* another look at m_tasks: a functor that has come since the second       *)
(* try_pop, and whose own pick found m_taskChosen set, is left behind.     *)
(* Any pick may end so here, also where no such functor has come: more     *)
(* than the code does, which is safe, and missed tells that it was done.   *)
Miss(q) == /\ passed[q] > 0
           /\ current[q] = NoTask /\ pending[q] # <<>>
           /\ passed' = TakeOne(passed, q)
           /\ missed' = [missed EXCEPT ![q] = TRUE]
           /\ UNCHANGED <<pending, current, pauseCount, asked>>

Pick(q) == ReadPause(q) \/ Take(q) \/ GiveUp(q) \/ Miss(q)

QueuesNext == \E q \in Queues :
    \/ Pick(q) \/ EndTask(q) \/ PauseQueue(q) \/ ResumeQueue(q)
    \/ \E t \in Tasks : PushTo(q, t)

QueuesSpec == QueuesInit /\ [][QueuesNext]_queues

(* Types of the queues' state.                                             *)
QueuesTypeOK == /\ pending \in [Queues -> Seq(Tasks)]
                /\ current \in [Queues -> Tasks \cup {NoTask}]
                /\ pauseCount \in [Queues -> Nat]
                /\ asked \in [Queues -> Nat]
                /\ passed \in [Queues -> Nat]
                /\ missed \in [Queues -> BOOLEAN]

(* A functor waits in a queue that is not paused, and a second clear has   *)
(* left one behind there: until somebody pushes to this queue again, or    *)
(* resumes it, nobody need come for it.                                    *)
Stranded(q) == missed[q] /\ pauseCount[q] = 0 /\ pending[q] # <<>>
=============================================================================
