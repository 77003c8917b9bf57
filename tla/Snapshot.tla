------------------------------ MODULE Snapshot ------------------------------
(***************************************************************************)
(* What checkpointing promises the training: one durable snapshot, that is *)
(* replaced as a whole, and a crash that takes the training back to it.    *)
(***************************************************************************)
EXTENDS Naturals

VARIABLES
  version,  \* current_param_version
  learned,  \* samples the weights have been trained on
  fed,      \* position of the dataloader in its stream of samples
  durable   \* the snapshot a restart begins with

vars == <<version, learned, fed, durable>>

Fresh == [version |-> 0, learned |-> {}, fed |-> 0]

Init ==
  /\ version = 0 /\ learned = {} /\ fed = 0
  /\ durable = Fresh

Feed ==
  /\ fed' = fed + 1
  /\ UNCHANGED <<version, learned, durable>>

\* Only samples that were fed, and none a second time.
Learn ==
  /\ \E S \in SUBSET ((1 .. fed) \ learned) : learned' = learned \cup S
  /\ version' \in {version, version + 1}
  /\ UNCHANGED <<fed, durable>>

\* The position saved lies behind every sample the saved weights know.
Save ==
  /\ \E p \in 0 .. fed :
       /\ learned \subseteq 1 .. p
       /\ durable' = [version |-> version, learned |-> learned, fed |-> p]
  /\ UNCHANGED <<version, learned, fed>>

Restart ==
  /\ version' = durable.version
  /\ learned' = durable.learned
  /\ fed' = durable.fed
  /\ UNCHANGED durable

Next == Feed \/ Learn \/ Save \/ Restart

Spec == Init /\ [][Next]_vars

=============================================================================
