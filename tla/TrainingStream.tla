--------------------------- MODULE TrainingStream ---------------------------
(***************************************************************************)
(* What the fully asynchronous pipeline promises, without queues, tasks,   *)
(* pauses or counters: the Trainer takes optimisation steps on batches of  *)
(* exactly BatchSize fresh samples, publishes a new version of the weights *)
(* after every Trigger steps and before the next step, and after the end   *)
(* of the stream neither trains nor publishes any more.                    *)
(***************************************************************************)
EXTENDS Naturals, FiniteSets

CONSTANTS Samples, BatchSize, Trigger

VARIABLES
  todo,      \* samples no step was trained on
  steps,     \* completed optimisation steps
  version,   \* version of the weights the rollout side works with
  open       \* the stream has not ended

streamVars == <<todo, steps, version, open>>

Init ==
  /\ todo = Samples
  /\ steps = 0
  /\ version = 0
  /\ open = TRUE

\* No step is trained ahead of a version that is due.
Published == steps < Trigger * (version + 1)

Train ==
  /\ open
  /\ Published
  /\ \E b \in SUBSET todo :
       /\ Cardinality(b) = BatchSize
       /\ todo' = todo \ b
  /\ steps' = steps + 1
  /\ UNCHANGED <<version, open>>

Publish ==
  /\ open
  /\ ~Published
  /\ version' = version + 1
  /\ UNCHANGED <<todo, steps, open>>

\* The samples still in todo were dropped, discarded or never generated.
Close ==
  /\ open
  /\ Published
  /\ open' = FALSE
  /\ UNCHANGED <<todo, steps, version>>

Next == Train \/ Publish \/ Close

Spec == Init /\ [][Next]_streamVars

=============================================================================
