---------------------------- MODULE MCFullyAsync ----------------------------
(* Model-checking instances of FullyAsync; each cfg gives one its values. *)
EXTENDS FullyAsync
=============================================================================
