--------------------------- MODULE SerialExecutor ---------------------------
(***************************************************************************)
(* What edm::SerialTaskQueue promises to its clients                       *)
(* (FWCore/Concurrency/interface/SerialTaskQueue.h): functors are taken in *)
(* the order in which they were pushed, one at a time, each exactly once.  *)
(* Threads, atomics and pausing do not appear here.  SerialTaskQueue.tla   *)
(* is shown to implement this specification.                               *)
(***************************************************************************)
EXTENDS Naturals, Sequences

CONSTANTS Tasks,  \* the functors clients may push
          NoTask  \* "no functor", not one of Tasks

VARIABLES pending,  \* pushed and not yet chosen, in push order
          current,  \* the chosen task, or NoTask
          finished  \* tasks whose action is over

vars == <<pending, current, finished>>

Init == /\ pending = <<>>
        /\ current = NoTask
        /\ finished = {}

Submit(t) == /\ t \notin finished /\ t # current
             /\ \A i \in 1..Len(pending) : pending[i] # t
             /\ pending' = Append(pending, t)
             /\ UNCHANGED <<current, finished>>

Choose == /\ current = NoTask
          /\ pending # <<>>
          /\ current' = Head(pending)
          /\ pending' = Tail(pending)
          /\ UNCHANGED finished

Complete == /\ current # NoTask
            /\ finished' = finished \cup {current}
            /\ current' = NoTask
            /\ UNCHANGED pending

Next == (\E t \in Tasks : Submit(t)) \/ Choose \/ Complete

Spec == Init /\ [][Next]_vars
=============================================================================
