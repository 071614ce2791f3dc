---------------------- MODULE SerialTaskQueueClientView ----------------------
(***************************************************************************)
(* SerialTaskQueue, access by access, implements one queue of TaskQueues:  *)
(* the abstraction that the chain, the limited queue and the shared        *)
(* resources are built on.                                                 *)
(***************************************************************************)
EXTENDS SerialTaskQueue, FiniteSets

(* A process has finitely many threads. *)
ASSUME ThreadsAssumption == IsFiniteSet(Threads)

Only(value) == [q \in {"queue"} |-> value]
Count(steps) == Cardinality({th \in Threads : pc[th] \in steps})

View == INSTANCE TaskQueues
          WITH Queues <- {"queue"},
               pending <- Only(tasks),
               current <- Only(Current),
               pauseCount <- Only(pauseCount),
               asked <- Only(Count({"count"})),
               passed <- Only(Count(PickSteps \ {"count"})),
               missed <- Only(missed)

(* Every step of the queue's code is one step of the client's view, or     *)
(* none: a pick that has read the pause count takes a task only while no   *)
(* other one is at work, and leaves a waiting one alone only if another    *)
(* pick comes after it or its second clear has missed it.                  *)
ImplementsClientView == View!QueuesSpec
=============================================================================
