--------------------------- MODULE WaitingTaskList ---------------------------
(***************************************************************************)
(* edm::WaitingTaskList with the edm::WaitingTask reference counts and     *)
(* edm::WaitingTaskHolder (FWCore/Concurrency): tasks wait in a lock-free  *)
(* list until the owner of a resource calls doneWaiting(), and the list is *)
(* reset for the next event.                                               *)
(*                                                                         *)
(* A task is added to the list at most once here, so a node of the list is *)
(* named by its task.  Nodes come from an array that reset() may replace,  *)
(* or from the heap.                                                       *)
(***************************************************************************)
EXTENDS Naturals

CONSTANTS Tasks,         \* waiting tasks
          Null,          \* the null pointer, and "no failure"
          Failure,       \* an exception
          Threads,
          InitialSize,   \* iInitialSize of the node cache
          Rounds         \* bound: events for which the list is used

ASSUME NullAssumption == Null \notin Tasks /\ Failure # Null
ASSUME SizeAssumption == InitialSize \in Nat /\ Rounds \in Nat \ {0}

VARIABLES head,         \* m_head
          next,         \* WaitNode::m_next of each task's node
          waiting,      \* m_waiting
          exceptionPtr, \* m_exceptionPtr
          assigned,     \* m_lastAssignedCacheIndex
          cacheSize,    \* m_nodeCacheSize
          cache,        \* which m_nodeCache array is current
          node,         \* the array a task's node is in, or 0 for the heap
          refs,         \* ref_count of each task
          failed,       \* WaitingTask::m_ptr: Null or the failure
          held,         \* a WaitingTaskHolder for the task exists
          spawned,      \* history: how often the task was spawned
          added,        \* history: the round in which it was added, or 0
          round,        \* history: the current round
          signalled,    \* history: doneWaiting() was called in this round
          pc, cur, other \* per thread: position, WaitNode* n and next/oldHead

listVars == <<head, next, waiting, exceptionPtr, assigned, cacheSize, cache, node>>
taskVars == <<refs, failed, held, spawned>>
vars == <<listVars, taskVars, added, round, signalled, pc, cur, other>>

Steps == {"idle", "late", "exchange", "link", "recheck", "open", "take", "walk", "release"}

Init == /\ head = Null /\ waiting = TRUE /\ exceptionPtr = Null
        /\ next = [t \in Tasks |-> Null]
        /\ assigned = 0 /\ cacheSize = InitialSize /\ cache = 1
        /\ node = [t \in Tasks |-> 0]
        /\ held \in [Tasks -> BOOLEAN]
        /\ refs = [t \in Tasks |-> IF held[t] THEN 1 ELSE 0]
        /\ failed = [t \in Tasks |-> Null]
        /\ spawned = [t \in Tasks |-> 0]
        /\ added = [t \in Tasks |-> 0]
        /\ round = 1 /\ signalled = FALSE
        /\ pc = [th \in Threads |-> "idle"]
        /\ cur = [th \in Threads |-> Null]
        /\ other = [th \in Threads |-> Null]

Goto(th, step) == pc' = [pc EXCEPT ![th] = step]

DependencyDoneUncounted(t, e) == \* mutant: the count is not looked at before the spawn
    /\ failed' = IF e # Null /\ failed[t] = Null THEN [failed EXCEPT ![t] = e] ELSE failed
    /\ refs' = [refs EXCEPT ![t] = @ - 1]
    /\ spawned' = [spawned EXCEPT ![t] = @ + 1]

(* A dependency of t is over: dependentTaskFailed() keeps the first        *)
(* failure, and whoever drops the last reference spawns the task.          *)
DependencyDone(t, e) ==
    /\ failed' = IF e # Null /\ failed[t] = Null THEN [failed EXCEPT ![t] = e] ELSE failed
    /\ refs' = [refs EXCEPT ![t] = @ - 1]
    /\ spawned' = IF refs[t] = 1 THEN [spawned EXCEPT ![t] = @ + 1] ELSE spawned

-----------------------------------------------------------------------------
(* add(t): the task gets a reference; m_waiting decides whether it becomes *)
(* a node (linked to itself until add() knows its successor) or is done.   *)
Add(th, t) ==
    /\ pc[th] = "idle" /\ added[t] = 0
    /\ added' = [added EXCEPT ![t] = round]
    /\ refs' = [refs EXCEPT ![t] = @ + 1]
    /\ cur' = [cur EXCEPT ![th] = t]
    /\ IF waiting
         THEN /\ Goto(th, "exchange")
              /\ assigned' = assigned + 1
              /\ node' = [node EXCEPT ![t] = IF assigned < cacheSize THEN cache ELSE 0]
              /\ next' = [next EXCEPT ![t] = t]
         ELSE Goto(th, "late") /\ UNCHANGED <<assigned, node, next>>
    /\ UNCHANGED <<head, waiting, exceptionPtr, cacheSize, cache, failed, held, spawned,
                   round, signalled, other>>

AddLateWithoutException(th) == \* mutant: a late task is not told of the failure
    /\ pc[th] = "late"
    /\ DependencyDone(cur[th], Null)
    /\ Goto(th, "idle")
    /\ UNCHANGED <<listVars, held, added, round, signalled, cur, other>>

AddLate(th) ==
    /\ pc[th] = "late"
    /\ DependencyDone(cur[th], exceptionPtr)
    /\ Goto(th, "idle")
    /\ UNCHANGED <<listVars, held, added, round, signalled, cur, other>>

ExchangeHead(th) ==
    /\ pc[th] = "exchange"
    /\ head' = cur[th]
    /\ other' = [other EXCEPT ![th] = head]
    /\ Goto(th, "link")
    /\ UNCHANGED <<next, waiting, exceptionPtr, assigned, cacheSize, cache, node, taskVars,
                   added, round, signalled, cur>>

SetNextNodeOnly(th) == \* mutant: add() never looks at m_waiting again
    /\ pc[th] = "link"
    /\ next' = [next EXCEPT ![cur[th]] = other[th]]
    /\ Goto(th, "idle")
    /\ UNCHANGED <<head, waiting, exceptionPtr, assigned, cacheSize, cache, node, taskVars,
                   added, round, signalled, cur, other>>

(* Only the thread that found an empty list has to look at m_waiting again. *)
SetNextNode(th) ==
    /\ pc[th] = "link"
    /\ next' = [next EXCEPT ![cur[th]] = other[th]]
    /\ Goto(th, IF other[th] = Null THEN "recheck" ELSE "idle")
    /\ UNCHANGED <<head, waiting, exceptionPtr, assigned, cacheSize, cache, node, taskVars,
                   added, round, signalled, cur, other>>

RecheckInverted(th) == \* mutant: announce() only while the list is closed
    /\ pc[th] = "recheck"
    /\ Goto(th, IF waiting THEN "take" ELSE "idle")
    /\ UNCHANGED <<listVars, taskVars, added, round, signalled, cur, other>>

Recheck(th) ==
    /\ pc[th] = "recheck"
    /\ Goto(th, IF waiting THEN "idle" ELSE "take")
    /\ UNCHANGED <<listVars, taskVars, added, round, signalled, cur, other>>

-----------------------------------------------------------------------------
(* announce() takes the whole list and walks it.                           *)
TakeList(th) ==
    /\ pc[th] = "take"
    /\ head' = Null
    /\ cur' = [cur EXCEPT ![th] = head]
    /\ Goto(th, IF head = Null THEN "idle" ELSE "walk")
    /\ UNCHANGED <<next, waiting, exceptionPtr, assigned, cacheSize, cache, node, taskVars,
                   added, round, signalled, other>>

(* It spins while the node is linked to itself.                            *)
ReleaseTask(th) ==
    /\ pc[th] = "walk"
    /\ next[cur[th]] # cur[th]
    /\ other' = [other EXCEPT ![th] = next[cur[th]]]
    /\ DependencyDone(cur[th], exceptionPtr)
    /\ Goto(th, "release")
    /\ UNCHANGED <<listVars, held, added, round, signalled, cur>>

(* m_fromCache is read, and a heap node deleted, after the task was        *)
(* spawned.                                                                *)
ReleaseNode(th) ==
    /\ pc[th] = "release"
    /\ cur' = [cur EXCEPT ![th] = other[th]]
    /\ Goto(th, IF other[th] = Null THEN "idle" ELSE "walk")
    /\ UNCHANGED <<listVars, taskVars, added, round, signalled, other>>

-----------------------------------------------------------------------------
(* The owner of the resource.                                              *)
DoneWaiting(th, e) ==
    /\ pc[th] = "idle" /\ ~signalled
    /\ signalled' = TRUE
    /\ exceptionPtr' = e
    /\ Goto(th, "open")
    /\ UNCHANGED <<head, next, waiting, assigned, cacheSize, cache, node, taskVars,
                   added, round, cur, other>>

Open(th) ==
    /\ pc[th] = "open"
    /\ waiting' = FALSE
    /\ Goto(th, "take")
    /\ UNCHANGED <<head, next, exceptionPtr, assigned, cacheSize, cache, node, taskVars,
                   added, round, signalled, cur, other>>

(* WaitingTaskHolder::doneWaiting(), or the holder's destructor.           *)
HolderDone(t, e) ==
    /\ held[t] /\ added[t] # 0
    /\ held' = [held EXCEPT ![t] = FALSE]
    /\ DependencyDone(t, e)
    /\ UNCHANGED <<listVars, added, round, signalled, pc, cur, other>>

(* reset(), for the next event, once the tasks that waited in this one     *)
(* have all run; the array grows to what this round needed.                *)
Reset ==
    /\ round < Rounds /\ signalled /\ ~waiting
    /\ \E t \in Tasks : added[t] = round
    /\ \A t \in Tasks : added[t] = round => spawned[t] > 0
    /\ \A th \in Threads : pc[th] = "idle"
    /\ round' = round + 1 /\ signalled' = FALSE
    /\ exceptionPtr' = Null /\ waiting' = TRUE /\ assigned' = 0
    /\ IF assigned > cacheSize THEN cacheSize' = assigned /\ cache' = cache + 1
                               ELSE UNCHANGED <<cacheSize, cache>>
    /\ UNCHANGED <<head, next, node, taskVars, added, pc, cur, other>>

-----------------------------------------------------------------------------
Failures == {Null, Failure}

Announce(th) == TakeList(th) \/ ReleaseTask(th) \/ ReleaseNode(th)

Step(th) == \/ AddLate(th) \/ ExchangeHead(th) \/ SetNextNode(th) \/ Recheck(th)
            \/ Announce(th) \/ Open(th)

Next == \/ \E th \in Threads : \/ Step(th)
                               \/ \E t \in Tasks : Add(th, t)
                               \/ \E e \in Failures : DoneWaiting(th, e)
        \/ \E t \in Tasks, e \in Failures : HolderDone(t, e)
        \/ Reset

Spec == Init /\ [][Next]_vars

(* A thread inside of a call goes on; holders go away.  The owner of the   *)
(* resource calls doneWaiting() in every event.                            *)
Fairness == /\ \A th \in Threads : WF_vars(Step(th))
            /\ WF_vars(\E t \in Tasks, e \in Failures : HolderDone(t, e))
            /\ WF_vars(\E th \in Threads, e \in Failures : DoneWaiting(th, e))

FairSpec == Spec /\ Fairness

-----------------------------------------------------------------------------
(* Types of the variables. *)
TypeOK == /\ head \in Tasks \cup {Null}
          /\ next \in [Tasks -> Tasks \cup {Null}]
          /\ waiting \in BOOLEAN /\ signalled \in BOOLEAN
          /\ exceptionPtr \in Failures
          /\ assigned \in Nat /\ cacheSize \in Nat /\ cache \in Nat
          /\ node \in [Tasks -> Nat]
          /\ refs \in [Tasks -> Nat]
          /\ failed \in [Tasks -> Failures]
          /\ held \in [Tasks -> BOOLEAN]
          /\ spawned \in [Tasks -> Nat]
          /\ added \in [Tasks -> Nat]
          /\ round \in Nat
          /\ pc \in [Threads -> Steps]
          /\ cur \in [Threads -> Tasks \cup {Null}]
          /\ other \in [Threads -> Tasks \cup {Null}]

(* However add(), doneWaiting(), several concurrent announce() calls and   *)
(* the holder interleave, a task is spawned once, and only after every     *)
(* dependency is over: its holder is gone and the resource it was added    *)
(* for was declared available.                                             *)
SpawnedOnceInTime ==
    /\ TypeOK
    /\ \A t \in Tasks : /\ spawned[t] <= 1
                        /\ spawned[t] > 0 => ~held[t] /\ (added[t] = round => signalled)

(* Threads that are bound to empty the list.                               *)
WillAnnounce(th) == \/ pc[th] \in {"recheck", "take"}
                    \/ pc[th] = "link" /\ other[th] = Null

(* "For the case where oldHead != nullptr ... we don't have to recheck":   *)
(* once m_waiting is false a node left in the list has a thread that will  *)
(* announce it.                                                            *)
ListedIsAnnounced == ~waiting /\ head # Null => \E th \in Threads : WillAnnounce(th)

(* A task that waited for a resource whose owner failed knows of a failure *)
(* before it runs, also when it was added while doneWaiting() was at work. *)
FailureReachesTasks ==
    \A t \in Tasks : (spawned[t] > 0 /\ added[t] = round /\ exceptionPtr # Null) => failed[t] # Null

(* Every added task runs: no interleaving of add() and doneWaiting() loses *)
(* it, and announce() does not spin for ever on a node linked to itself.   *)
AddedTaskRuns == \A t \in Tasks : added[t] # 0 ~> spawned[t] > 0
=============================================================================
