---------------------------- MODULE MCWeightSync ----------------------------
(* Model-checking instances of WeightSync; each cfg gives one its values. *)
EXTENDS WeightSync
=============================================================================
