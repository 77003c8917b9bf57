--------------------------- MODULE MCReplayBuffer ---------------------------
(* Model-checking instances of ReplayBuffer; each cfg gives one its values. *)
EXTENDS ReplayBuffer
=============================================================================
