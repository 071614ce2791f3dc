--------------------------- MODULE MCSerialTaskQueue ---------------------------
(* The queue's own properties, the executor it implements and the view its *)
(* clients have of it, in one instance.                                    *)
EXTENDS SerialTaskQueueClientView
=============================================================================
