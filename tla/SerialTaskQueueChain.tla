------------------------ MODULE SerialTaskQueueChain ------------------------
(***************************************************************************)
(* edm::SerialTaskQueueChain (FWCore/Concurrency): an action runs once the *)
(* chain holds all of its queues.  Inside a queue's functor the chain      *)
(* pauses that queue and pushes itself to the next one; the last functor   *)
(* runs the action and resumes the queues in reverse order.  Several       *)
(* chains share queues: they are the shared resources of the modules.      *)
(***************************************************************************)
EXTENDS TaskQueues, FiniteSets

CONSTANTS Path,         \* per task: the m_queues of the chain it is pushed to
          Synchronous   \* the tasks pushed with pushAndWait()

ASSUME PathAssumption == /\ Path \in [Tasks -> Seq(Queues)]
                         /\ \A t \in Tasks : Path[t] # <<>>
                         /\ \A t \in Tasks : \A i, j \in 1..Len(Path[t]) :
                               Path[t][i] = Path[t][j] => i = j
ASSUME NoTaskAssumption == NoTask \notin Tasks

VARIABLES at,           \* per queue: how far its current functor has come
          level,        \* per task: the queues of its chain it has entered and not resumed
          outstanding,  \* per chain: m_outstandingTasks
          refs,         \* per task: reference count of pushAndWait()'s waitTask
          waiter,       \* per task: where pushAndWait() stands
          done,         \* tasks whose action is over
          late          \* history: a functor has started in a paused queue

chainVars == <<at, level, outstanding, refs, waiter, done, late>>
vars == <<queues, chainVars>>

At == {"start", "paused", "action", "releasing", "ended"}
Waiters == {"none", "pushed", "waiting", "returned"}
Chains == {Path[t] : t \in Tasks}

Init == /\ QueuesInit
        /\ at = [q \in Queues |-> "start"]
        /\ level = [t \in Tasks |-> 0]
        /\ outstanding = [c \in Chains |-> 0]
        /\ refs = [t \in Tasks |-> 0]
        /\ waiter = [t \in Tasks |-> "none"]
        /\ done = {}
        /\ late = FALSE

Last(t) == Path[t][Len(Path[t])]
New(t) == level[t] = 0 /\ t \notin done

-----------------------------------------------------------------------------
Enter(t) == /\ PushTo(Path[t][1], t)
            /\ level' = [level EXCEPT ![t] = 1]
            /\ outstanding' = [outstanding EXCEPT ![Path[t]] = @ + 1]

Push(t) == /\ New(t) /\ t \notin Synchronous /\ Enter(t)
           /\ UNCHANGED <<at, refs, waiter, done, late>>

PushAndWaitTwoRefs(t) == \* mutant: no reference is kept for the exception
    /\ New(t) /\ t \in Synchronous /\ Enter(t)
    /\ refs' = [refs EXCEPT ![t] = 2]
    /\ waiter' = [waiter EXCEPT ![t] = "pushed"]
    /\ UNCHANGED <<at, done, late>>

(* The empty task counts its creator, the action and the wait itself.      *)
PushAndWait(t) == /\ New(t) /\ t \in Synchronous /\ Enter(t)
                  /\ refs' = [refs EXCEPT ![t] = 3]
                  /\ waiter' = [waiter EXCEPT ![t] = "pushed"]
                  /\ UNCHANGED <<at, done, late>>

GiveBackReference(t) == /\ waiter[t] = "pushed"
                        /\ refs' = [refs EXCEPT ![t] = @ - 1]
                        /\ waiter' = [waiter EXCEPT ![t] = "waiting"]
                        /\ UNCHANGED <<queues, at, level, outstanding, done, late>>

(* wait_for_all() returns with one reference left; the exception the       *)
(* action may have left is rethrown here.                                  *)
WaitForAll(t) == /\ waiter[t] = "waiting" /\ refs[t] = 1
                 /\ waiter' = [waiter EXCEPT ![t] = "returned"]
                 /\ UNCHANGED <<queues, at, level, outstanding, refs, done, late>>

-----------------------------------------------------------------------------
(* The scheduler's picks, of which each queue allows one at a time to win. *)
PickTask(q) == /\ Pick(q)
               /\ IF current'[q] # current[q]
                    THEN /\ at' = [at EXCEPT ![q] = "start"]
                         /\ late' = (late \/ pauseCount[q] > 0)
                    ELSE UNCHANGED <<at, late>>
               /\ UNCHANGED <<level, outstanding, refs, waiter, done>>

(* Where a functor stands, with the task it belongs to.                    *)
In(q, t, place) == current[q] = t /\ at[q] = place

PassDownWithoutPause(q, t) == \* mutant: the queue is left open behind the chain
    /\ In(q, t, "start") /\ q # Last(t)
    /\ at' = [at EXCEPT ![q] = "paused"]
    /\ UNCHANGED <<queues, level, outstanding, refs, waiter, done, late>>

(* passDownChain(): pause this queue, ...                                  *)
PassDownPause(q, t) == /\ In(q, t, "start") /\ q # Last(t)
                       /\ PauseQueue(q)
                       /\ at' = [at EXCEPT ![q] = "paused"]
                       /\ UNCHANGED <<level, outstanding, refs, waiter, done, late>>

(* ... then push the rest of the chain to the next one; the functor ends.  *)
PassDownPush(q, t) == /\ In(q, t, "paused")
                      /\ PushTo(Path[t][level[t] + 1], t)
                      /\ level' = [level EXCEPT ![t] = @ + 1]
                      /\ at' = [at EXCEPT ![q] = "ended"]
                      /\ UNCHANGED <<outstanding, refs, waiter, done, late>>

(* actionToRun() in the last queue: the action, which may throw, ...       *)
BeginAction(q, t) == /\ In(q, t, "start") /\ q = Last(t)
                     /\ at' = [at EXCEPT ![q] = "action"]
                     /\ UNCHANGED <<queues, level, outstanding, refs, waiter, done, late>>

(* ... after which pushAndWait()'s sentry drops its reference, ...         *)
EndAction(q, t) == /\ In(q, t, "action")
                   /\ at' = [at EXCEPT ![q] = "releasing"]
                   /\ done' = done \cup {t}
                   /\ refs' = IF waiter[t] = "none" THEN refs ELSE [refs EXCEPT ![t] = @ - 1]
                   /\ UNCHANGED <<queues, level, outstanding, waiter, late>>

ReleaseTwoQueues(q, t) == \* mutant: the loop stops one queue short
    /\ In(q, t, "releasing")
    /\ IF level[t] > 2
         THEN /\ ResumeQueue(Path[t][level[t] - 1])
              /\ level' = [level EXCEPT ![t] = @ - 1]
              /\ UNCHANGED <<at, outstanding>>
         ELSE /\ level' = [level EXCEPT ![t] = 0]
              /\ outstanding' = [outstanding EXCEPT ![Path[t]] = @ - 1]
              /\ at' = [at EXCEPT ![q] = "ended"]
              /\ UNCHANGED queues
    /\ UNCHANGED <<refs, waiter, done, late>>

(* ... and actionToRun()'s sentry resumes the queues, the last but one     *)
(* first, and only then counts the task as no longer outstanding.          *)
Release(q, t) == /\ In(q, t, "releasing")
                 /\ IF level[t] > 1
                      THEN /\ ResumeQueue(Path[t][level[t] - 1])
                           /\ level' = [level EXCEPT ![t] = @ - 1]
                           /\ UNCHANGED <<at, outstanding>>
                      ELSE /\ level' = [level EXCEPT ![t] = 0]
                           /\ outstanding' = [outstanding EXCEPT ![Path[t]] = @ - 1]
                           /\ at' = [at EXCEPT ![q] = "ended"]
                           /\ UNCHANGED queues
                 /\ UNCHANGED <<refs, waiter, done, late>>

(* The queue's functor returns to finishedTask().                          *)
EndFunctor(q) == /\ current[q] # NoTask /\ at[q] = "ended"
                 /\ EndTask(q)
                 /\ UNCHANGED chainVars

-----------------------------------------------------------------------------
Client(t) == Push(t) \/ PushAndWait(t)

Functor(q, t) == \/ PassDownPause(q, t) \/ PassDownPush(q, t)
                 \/ BeginAction(q, t) \/ EndAction(q, t) \/ Release(q, t)

Scheduler(q) == PickTask(q) \/ EndFunctor(q) \/ \E t \in Tasks : Functor(q, t)

Waiter(t) == GiveBackReference(t) \/ WaitForAll(t)

Next == \/ \E t \in Tasks : Client(t) \/ Waiter(t)
        \/ \E q \in Queues : Scheduler(q)

Spec == Init /\ [][Next]_vars

(* TBB keeps its workers busy: a spawned task runs, and a thread inside    *)
(* the code goes on.  No client has to push.                               *)
FairSpec == /\ Spec
            /\ \A q \in Queues : /\ WF_vars(PickTask(q))
                                 /\ WF_vars(EndFunctor(q) \/ \E t \in Tasks : Functor(q, t))
            /\ \A t \in Tasks : WF_vars(Waiter(t))

-----------------------------------------------------------------------------
TypeOK == /\ QueuesTypeOK
          /\ at \in [Queues -> At]
          /\ level \in [Tasks -> Nat]
          /\ outstanding \in [Chains -> Nat]
          /\ refs \in [Tasks -> 0..3]
          /\ waiter \in [Tasks -> Waiters]
          /\ done \subseteq Tasks
          /\ late \in BOOLEAN

Acting(t) == In(Last(t), t, "action")
Shares(t, u) == \E i \in 1..Len(Path[t]), j \in 1..Len(Path[u]) : Path[t][i] = Path[u][j]

(* What the pauses are for: two actions whose chains have a queue in       *)
(* common never overlap, as the comment in passDownChain() demands.        *)
ResourceExclusive ==
    \A t, u \in Tasks : Acting(t) /\ Acting(u) /\ Shares(t, u) => t = u

(* The same while no functor has slipped into a paused queue through the   *)
(* gap between the two halves of a pick.                                   *)
ExclusiveUnlessLate == ~late => ResourceExclusive

(* The queues task t has paused and not resumed: those before the one it   *)
(* has entered last, and that one as well between its pause and its push.  *)
Paused(t) == {Path[t][i] : i \in 1..(level[t] - 1)}
               \cup {q \in Queues : In(q, t, "paused")}

(* Every pause belongs to a chain that will take it back: none is lost,    *)
(* none is taken back twice, whatever order actions end in.  Until the     *)
(* last one is, outstandingTasks() counts the task.                        *)
PausesOwned ==
    /\ TypeOK
    /\ \A q \in Queues : pauseCount[q] = Cardinality({t \in Tasks : q \in Paused(t)})
    /\ \A c \in Chains : outstanding[c] = Cardinality({t \in Tasks : Path[t] = c /\ level[t] > 0})

(* pushAndWait() returns after its action only, so that the exception it   *)
(* rethrows has been set and the functor it captured is no longer in use.  *)
WaitOutlastsAction == \A t \in Tasks : waiter[t] = "returned" => t \in done

(* Chains over consistently ordered queues never wait for each other in a  *)
(* circle: every pushed action is run, everything it held is released, and *)
(* pushAndWait() returns, unless a second clear has left a functor behind  *)
(* in one of the queues.                                                   *)
Overlooked == \E q \in Queues : missed[q]

ActionRunsAndReleases ==
    /\ \A t \in Tasks : level[t] > 0 ~> ((t \in done /\ level[t] = 0) \/ Overlooked)
    /\ \A t \in Tasks : waiter[t] = "pushed" ~> (waiter[t] = "returned" \/ Overlooked)
=============================================================================
