--------------------------- MODULE MCMessageQueue ---------------------------
(* Model-checking instance of MessageQueueActor; the values are in the cfg. *)
EXTENDS MessageQueueActor
=============================================================================
