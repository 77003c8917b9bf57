---------------------------- MODULE MCCheckpoint ----------------------------
(* Model-checking instances of Checkpoint; each cfg gives one its values. *)
EXTENDS Checkpoint
=============================================================================
