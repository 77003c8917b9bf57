----------------------------- MODULE MCDialogue -----------------------------
(* Model-checking instances of Dialogue; each cfg gives one its values. *)
EXTENDS Dialogue
=============================================================================
