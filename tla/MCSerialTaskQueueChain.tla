----------------------- MODULE MCSerialTaskQueueChain -----------------------
(* Two modules: one needs all three of the resources, the other one the    *)
(* first two. Their chains follow the same order of the queues, as         *)
(* SharedResourcesRegistry::createAcquirer() arranges.                     *)
EXTENDS SerialTaskQueueChain, TLC

CONSTANTS a, b, c,   \* the queues
          all, front  \* the tasks

ThreeQueues == {a, b, c}
TwoPaths == all :> <<a, b, c>> @@ front :> <<a, b>>
TwoTasks == DOMAIN TwoPaths
WaitForAllQueues == {all}
=============================================================================
