-------------------------- MODULE LimitedTaskQueue --------------------------
(***************************************************************************)
(* edm::LimitedTaskQueue (FWCore/Concurrency): as many serial queues as    *)
(* actions may run at once.  A copy of each functor enters every queue;    *)
(* the copy that is picked first runs the action, the others do nothing.   *)
(* pushAndPause() keeps the queue of the winning copy paused, and so the   *)
(* limit lower by one, for as long as a Resumer lives.                     *)
(***************************************************************************)
EXTENDS TaskQueues, FiniteSets, SequencesExt

CONSTANTS Kind,         \* per task: "push", "wait" or "pause", the way it is pushed
          MaxResumers   \* bound: a Resumer is copied while fewer than this many are alive

ASSUME KindAssumption == Kind \in [Tasks -> {"push", "wait", "pause"}]
ASSUME LimitAssumption == IsFiniteSet(Queues) /\ Queues # {} /\ NoTask \notin Tasks
ASSUME ResumersAssumption == MaxResumers \in Nat \ {0}

VARIABLES toPush,    \* per task: the queues the loop of push() has still to reach
          begun,     \* tasks whose push has begun
          before,    \* history, per task: those whose push was over when its own began,
                      \* and that have not run since
          setToRun,  \* per task: the flag its copies share
          at,        \* per queue: how far its current copy has come
          home,      \* per task: the queue whose copy has run the action, in a set
          resumers,  \* per task: live Resumers for its queue
          ran,       \* per task: how often the action has begun
          waiter,    \* per task: where pushAndWait() stands
          late       \* history: a copy has started in a paused queue

clientVars == <<toPush, begun, before>>
copyVars == <<setToRun, at, home, ran>>
vars == <<queues, clientVars, copyVars, resumers, waiter, late>>

At == {"start", "action"}
Acting == {current[q] : q \in {q \in Queues : at[q] = "action"}}
AllQueues == SetToSeq(Queues)

Init == /\ QueuesInit
        /\ toPush = [t \in Tasks |-> <<>>]
        /\ begun = {}
        /\ before = [t \in Tasks |-> {}]
        /\ setToRun = [t \in Tasks |-> FALSE]
        /\ at = [q \in Queues |-> "start"]
        /\ home = [t \in Tasks |-> {}]
        /\ resumers = [t \in Tasks |-> 0]
        /\ ran = [t \in Tasks |-> 0]
        /\ waiter = [t \in Tasks |-> "none"]
        /\ late = FALSE

-----------------------------------------------------------------------------
(* push(), pushAndWait() and pushAndPause() share their loop.              *)
BeginPush(t) == /\ t \notin begun
                /\ PushTo(Head(AllQueues), t)
                /\ begun' = begun \cup {t}
                /\ before' = [before EXCEPT ![t] = {u \in begun : toPush[u] = <<>> /\ ~setToRun[u]}]
                /\ toPush' = [toPush EXCEPT ![t] = Tail(AllQueues)]
                /\ waiter' = IF Kind[t] = "wait" THEN [waiter EXCEPT ![t] = "pushing"] ELSE waiter
                /\ UNCHANGED <<copyVars, resumers, late>>

(* The copies reach the queues one by one: the first may already run.      *)
PushCopy(t) == /\ toPush[t] # <<>>
               /\ PushTo(Head(toPush[t]), t)
               /\ toPush' = [toPush EXCEPT ![t] = Tail(@)]
               /\ UNCHANGED <<begun, before, copyVars, resumers, waiter, late>>

WaitForCopies(t) == \* mutant: the first copy that ends gives the reference back
    /\ waiter[t] = "pushing" /\ toPush[t] = <<>>
    /\ \A q \in Queues : current[q] # t
    /\ waiter' = [waiter EXCEPT ![t] = "returned"]
    /\ UNCHANGED <<queues, clientVars, copyVars, resumers, late>>

MayReturnAfterCopies(t) == \* mutant: a reference for each copy, though only the winner gives one back
    waiter[t] = "pushing" /\ toPush[t] = <<>> /\ ran[t] = Cardinality(Queues)

(* wait_for_all() returns once the winning copy has given its reference    *)
(* back; the empty task is destroyed at once.                              *)
MayReturn(t) == /\ waiter[t] = "pushing" /\ toPush[t] = <<>>
                /\ ran[t] > 0
                /\ t \notin Acting

WaitForAll(t) == /\ MayReturn(t)
                 /\ waiter' = [waiter EXCEPT ![t] = "returned"]
                 /\ UNCHANGED <<queues, clientVars, copyVars, resumers, late>>

-----------------------------------------------------------------------------
PickCopy(q) == /\ Pick(q)
               /\ late' = (late \/ (current'[q] # current[q] /\ pauseCount[q] > 0))
               /\ UNCHANGED <<clientVars, copyVars, resumers, waiter>>

Start(q, t) == /\ current[q] = t /\ at[q] = "start"
               /\ UNCHANGED <<toPush, begun, waiter, late>>

Win(q, t) == /\ setToRun' = [setToRun EXCEPT ![t] = TRUE]
             /\ ran' = [ran EXCEPT ![t] = @ + 1]
             /\ at' = [at EXCEPT ![q] = "action"]
             /\ before' = [u \in Tasks |-> before[u] \ {t}]

RunEveryCopy(q, t) == \* mutant: the flag is tested and set in two steps
    /\ Start(q, t) /\ (~setToRun[t] \/ t \in Acting)
    /\ Win(q, t)
    /\ home' = [home EXCEPT ![t] = @ \cup {q}]
    /\ IF Kind[t] = "pause"
         THEN PauseQueue(q) /\ resumers' = [resumers EXCEPT ![t] = @ + 1]
         ELSE UNCHANGED <<queues, resumers>>

RunActionUnpaused(q, t) == \* mutant: the queue stays open under its Resumer
    /\ Start(q, t) /\ ~setToRun[t]
    /\ Win(q, t)
    /\ home' = [home EXCEPT ![t] = {q}]
    /\ resumers' = IF Kind[t] = "pause" THEN [resumers EXCEPT ![t] = 1] ELSE resumers
    /\ UNCHANGED queues

(* The copy that wins the compare_exchange runs the action; pushAndPause() *)
(* pauses its queue first and hands the action a Resumer for it.           *)
RunAction(q, t) == /\ Start(q, t) /\ ~setToRun[t]
                   /\ Win(q, t)
                   /\ home' = [home EXCEPT ![t] = {q}]
                   /\ IF Kind[t] = "pause"
                        THEN PauseQueue(q) /\ resumers' = [resumers EXCEPT ![t] = 1]
                        ELSE UNCHANGED <<queues, resumers>>

(* A copy that comes too late returns at once.                             *)
SkipAction(q, t) == /\ Start(q, t) /\ setToRun[t]
                    /\ EndTask(q)
                    /\ UNCHANGED <<before, copyVars, resumers>>

(* The action ends, and so does the copy that ran it: what pushAndWait()   *)
(* waits for and the queue are free.                                       *)
EndAction(q) == /\ at[q] = "action"
                /\ EndTask(q)
                /\ at' = [at EXCEPT ![q] = "start"]
                /\ UNCHANGED <<clientVars, setToRun, home, ran, resumers, waiter, late>>

MayCopy(t) == resumers[t] > 0 /\ SumFunction(resumers) < MaxResumers

CopyWithoutPause(t) == \* mutant: the default copy constructor
    /\ MayCopy(t)
    /\ resumers' = [resumers EXCEPT ![t] = @ + 1]
    /\ UNCHANGED <<queues, clientVars, copyVars, waiter, late>>

(* A copied Resumer pauses the queue once more; a moved one does not, and  *)
(* leaves an empty one behind.                                             *)
CopyResumer(t) == /\ MayCopy(t)
                  /\ \A q \in home[t] : PauseQueue(q)
                  /\ resumers' = [resumers EXCEPT ![t] = @ + 1]
                  /\ UNCHANGED <<clientVars, copyVars, waiter, late>>

(* A Resumer goes out of scope or its resume() is called, from any thread, *)
(* during the action or long after it.                                     *)
DropResumer(t) == /\ resumers[t] > 0
                  /\ \A q \in home[t] : ResumeQueue(q)
                  /\ resumers' = [resumers EXCEPT ![t] = @ - 1]
                  /\ UNCHANGED <<clientVars, copyVars, waiter, late>>

-----------------------------------------------------------------------------
Client(t) == BeginPush(t) \/ CopyResumer(t)
Pushing(t) == PushCopy(t) \/ WaitForAll(t)
Running(q) == EndAction(q) \/ \E t \in Tasks : RunAction(q, t) \/ SkipAction(q, t)

Next == \/ \E t \in Tasks : Client(t) \/ Pushing(t) \/ DropResumer(t)
        \/ \E q \in Queues : PickCopy(q) \/ Running(q)

Spec == Init /\ [][Next]_vars

-----------------------------------------------------------------------------
TypeOK == /\ QueuesTypeOK
          /\ toPush \in [Tasks -> Seq(Queues)]
          /\ begun \subseteq Tasks /\ before \in [Tasks -> SUBSET Tasks]
          /\ setToRun \in [Tasks -> BOOLEAN]
          /\ at \in [Queues -> At]
          /\ home \in [Tasks -> SUBSET Queues]
          /\ resumers \in [Tasks -> Nat] /\ ran \in [Tasks -> Nat]
          /\ waiter \in [Tasks -> {"none", "pushing", "returned"}]
          /\ late \in BOOLEAN

(* The action runs in one copy only, and no more than once, although a     *)
(* copy of it passes through every queue.                                  *)
ActionOnce == \A t \in Tasks : ran[t] <= 1 /\ Cardinality(home[t]) <= 1

(* The tasks that use up the limit: their action runs or a Resumer lives.  *)
Active == Acting \cup {t \in Tasks : resumers[t] > 0}

(* "Using this function will decrease the allowed concurrency limit by 1": *)
(* running actions and unresumed ones together respect the limit.          *)
LimitRespected == Cardinality(Active) <= Cardinality(Queues)

(* The same while no copy has slipped into a paused queue through the gap  *)
(* between the two halves of a pick.                                       *)
LimitUnlessLate == ~late => LimitRespected

(* A queue is paused once per live Resumer, whatever is copied, moved and  *)
(* dropped in which order.                                                 *)
PausesAreResumers ==
    /\ TypeOK
    /\ \A q \in Queues : pauseCount[q] = SumFunctionOnSet(resumers, {t \in Tasks : q \in home[t]})

(* A task whose push began after another's push was over does not overtake *)
(* it, though each queue is drained on its own.                            *)
NoOvertaking == \A t \in Tasks : setToRun[t] => before[t] = {}

(* pushAndWait() returns after the action has run, and no copy of it that  *)
(* is still queued will touch what it has destroyed.                       *)
WaitOutlastsAction == \A t \in Tasks : waiter[t] = "returned" => ran[t] = 1 /\ t \notin Active

(* When nothing is under way and no Resumer lives, a copy waits only in a  *)
(* queue that a second clear has left it behind in, and an action that was *)
(* pushed has run, and pushAndWait() has returned or can, unless that has  *)
(* happened in every queue.                                                *)
NothingLeftBehind ==
    /\ \A q \in Queues : current[q] = NoTask /\ asked[q] = 0 /\ passed[q] = 0
    /\ \A t \in Tasks : toPush[t] = <<>> /\ resumers[t] = 0
    => /\ \A q \in Queues : pending[q] = <<>> \/ Stranded(q)
       /\ \/ \A q \in Queues : Stranded(q)
          \/ /\ \A t \in begun : ran[t] > 0
             /\ \A t \in Tasks : waiter[t] = "pushing" => MayReturn(t)
=============================================================================
