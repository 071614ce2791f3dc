------------------------- MODULE MCLimitedTaskQueue -------------------------
(* Two tasks that pause, as many as there are queues, and one that is waited *)
(* for.  The two are interchangeable.                                        *)
EXTENDS LimitedTaskQueue

CONSTANTS pause1, pause2, wait

PauseAndWait == pause1 :> "pause" @@ pause2 :> "pause" @@ wait :> "wait"
ThreeTasks == DOMAIN PauseAndWait
Symmetry == Permutations({pause1, pause2})
=============================================================================
