---------------------------- MODULE ReplayBuffer ----------------------------
(***************************************************************************)
(* The synchronous trainer on the transfer queue: rollouts put their       *)
(* outputs there on their own, a thread polls what is in it into the       *)
(* replay buffer, and the trainer samples from the buffer what its step is *)
(* made of, uses it and clears both.                                       *)
(*                                                                         *)
(* A session has one output; validation takes one batch, as it does when   *)
(* val_batch_size is unset.  ReMax baselines are left out.                 *)
(***************************************************************************)
EXTENDS Naturals, FiniteSets

CONSTANTS
  BatchSize,   \* prompts of a step
  N,           \* rollout.n, sessions of a prompt
  LastStep,    \* total_training_steps
  TestFreq,    \* test_freq, 0 for no validation
  ValBefore    \* val_before_train

ASSUME ReplayAssumption ==
  /\ BatchSize \in Nat /\ N \in Nat /\ LastStep \in Nat \ {0}
  /\ TestFreq \in Nat /\ ValBefore \in BOOLEAN

Parts == {"train", "val"}
Prompt == [part : Parts, step : 0 .. LastStep, index : 1 .. BatchSize]
Session == [prompt : Prompt, id : 1 .. N]
Tag == {"none", "running", "finished", "failure"}

VARIABLES
  pc, part, step,  \* where the trainer is, with which partition, in which step
  batch,           \* what it has sampled from each partition
  running, raised, \* sessions under way, and those that ended in an exception
  out,             \* outputs in the transfer queue
  ended,           \* what the transfer queue says of each prompt
  listing, toAdd,  \* what the poll thread has listed, and partitions it has yet to add
  rows, known      \* outputs and prompts in the replay buffer

trainerVars == <<pc, part, step, batch>>
workerVars == <<running, raised>>
queueVars == <<out, ended>>
pollVars == <<listing, toAdd>>
bufferVars == <<rows, known>>
vars == <<trainerVars, workerVars, queueVars, pollVars, bufferVars>>

Init ==
  /\ pc = "generate"
  /\ IF ValBefore THEN part = "val" /\ step = 0 ELSE part = "train" /\ step = 1
  /\ batch = [q \in Parts |-> {}]
  /\ running = {} /\ raised = {}
  /\ out = {} /\ ended = [p \in Prompt |-> "none"]
  /\ listing = [out |-> {}, ended |-> [p \in Prompt |-> "none"]] /\ toAdd = {}
  /\ rows = {} /\ known = [p \in Prompt |-> "none"]

-----------------------------------------------------------------------------
\* Agent loop workers

Of(p) == {s \in Session : s.prompt = p}

\* A session puts its output, has none, or raises.
SessionEnds(s) ==
  /\ s \in running
  /\ running' = running \ {s}
  /\ \/ out' = out \cup {s} /\ UNCHANGED raised
     \/ UNCHANGED <<out, raised>>
     \/ raised' = raised \cup {s} /\ UNCHANGED out
  /\ UNCHANGED <<trainerVars, ended, pollVars, bufferVars>>

Gathered(p) == Of(p) \cap running = {}

\* Mutant: a prompt fails when all its sessions do.
AllRaised(p) == Of(p) # {} /\ Of(p) \subseteq raised

\* gather raises as soon as one session does, while the others go on.
Raised(p) == Of(p) \cap raised # {}

\* _run_prompt tags a prompt it was given, once, when its sessions are gathered
\* or one raised.
PromptEnds(p) ==
  /\ known[p] = "running" /\ ended[p] = "none"
  /\ \/ Gathered(p) /\ Of(p) \cap raised = {} /\ ended' = [ended EXCEPT ![p] = "finished"]
     \/ Raised(p) /\ ended' = [ended EXCEPT ![p] = "failure"]
  /\ UNCHANGED <<trainerVars, workerVars, out, pollVars, bufferVars>>

-----------------------------------------------------------------------------
\* Poll thread

List ==
  /\ toAdd = {}
  /\ listing' = [out |-> out, ended |-> ended]
  /\ toAdd' = Parts
  /\ UNCHANGED <<trainerVars, workerVars, queueVars, bufferVars>>

\* A partition is added in one go, whatever was removed since it was listed.
Add(q) ==
  /\ q \in toAdd
  /\ toAdd' = toAdd \ {q}
  /\ rows' = rows \cup {s \in listing.out : s.prompt.part = q}
  /\ known' = [p \in Prompt |->
       IF p.part = q /\ listing.ended[p] # "none" THEN listing.ended[p] ELSE known[p]]
  /\ UNCHANGED <<trainerVars, workerVars, queueVars, listing>>

-----------------------------------------------------------------------------
\* Trainer

Current(q) == {p \in Prompt : p.part = q /\ p.step = step}

\* Prompts are known as running before their sessions start.
Generate ==
  /\ pc = "generate"
  /\ known' = [p \in Prompt |-> IF p \in Current(part) THEN "running" ELSE known[p]]
  /\ running' = running \cup {s \in Session : s.prompt \in Current(part)}
  /\ pc' = "sample"
  /\ UNCHANGED <<part, step, batch, raised, queueVars, pollVars, rows>>

Due == TestFreq > 0 /\ (step = LastStep \/ step % TestFreq = 0)

\* Mutant: whatever the buffer holds for the partition.
AnyStep(s) == s.prompt.part = part

Matching(s) == s.prompt \in Current(part)

Sampled == {s \in rows : Matching(s)}

\* sample looks again until no prompt of the step is running.
Ended == \A p \in Current(part) : known[p] # "running"

\* A step is validated before its batch is cleared.  A training batch has to be
\* balanced over the ranks, and the validation before training to measure
\* something: neither goes on with an empty batch.
Sample ==
  /\ pc = "sample" /\ Ended
  /\ Sampled # {} \/ (part = "val" /\ step > 0)
  /\ batch' = [batch EXCEPT ![part] = Sampled]
  /\ IF part = "train" /\ Due
     THEN part' = "val" /\ pc' = "generate"
     ELSE pc' = "clear" /\ UNCHANGED part
  /\ UNCHANGED <<step, workerVars, queueVars, pollVars, bufferVars>>

\* The assertion on a batch that is empty ends fit.  A later validation reads
\* the fields of no keys, which the transfer queue may or may not answer.
SampleEmpty ==
  /\ pc = "sample" /\ Ended
  /\ Sampled = {}
  /\ pc' = "failed"
  /\ UNCHANGED <<part, step, batch, workerVars, queueVars, pollVars, bufferVars>>

Clear ==
  /\ pc = "clear"
  /\ out' = out \ batch[part]
  /\ pc' = "remove"
  /\ UNCHANGED <<part, step, batch, workerVars, ended, pollVars, bufferVars>>

\* After a validation the batch of its step is cleared, if it was in a step.
Remove ==
  /\ pc = "remove"
  /\ rows' = rows \ batch[part]
  /\ IF part = "val" /\ step > 0
     THEN part' = "train" /\ pc' = "clear" /\ UNCHANGED step
     ELSE IF step = LastStep
          THEN pc' = "done" /\ UNCHANGED <<part, step>>
          ELSE part' = "train" /\ pc' = "generate" /\ step' = step + 1
  /\ UNCHANGED <<batch, workerVars, queueVars, pollVars, known>>

Trainer == Generate \/ Sample \/ SampleEmpty \/ Clear \/ Remove

Workers == (\E s \in Session : SessionEnds(s)) \/ (\E p \in Prompt : PromptEnds(p))

Poll == List \/ \E q \in Parts : Add(q)

Next == Trainer \/ Workers \/ Poll

\* The trainer, the workers and the poll thread run on their own; every
\* session ends in the end.
Fairness ==
  /\ WF_vars(Trainer) /\ WF_vars(Workers)
  /\ WF_vars(List) /\ \A q \in Parts : WF_vars(Add(q))

Spec == Init /\ [][Next]_vars /\ Fairness

-----------------------------------------------------------------------------
\* Properties

TypeOK ==
  /\ pc \in {"generate", "sample", "clear", "remove", "done", "failed"}
  /\ part \in Parts /\ step \in 0 .. LastStep
  /\ batch \in [Parts -> SUBSET Session]
  /\ running \in SUBSET Session /\ raised \in SUBSET Session
  /\ out \in SUBSET Session /\ ended \in [Prompt -> Tag \ {"running"}]
  /\ listing \in [out : SUBSET Session, ended : [Prompt -> Tag \ {"running"}]]
  /\ toAdd \in SUBSET Parts
  /\ rows \in SUBSET Session /\ known \in [Prompt -> Tag]

\* The trainer uses the batch of the partition: between sample and clear.
InUse(q) ==
  \/ pc = "clear" /\ part = q
  \/ q = "train" /\ part = "val" /\ step > 0

\* "wait until all prompts of this global steps have finished": however the
\* poll lags behind, the batch holds the outputs of this step and of no other,
\* all of them still in the transfer queue, and misses none of a prompt that
\* did not fail.
BatchComplete ==
  \A q \in Parts : InUse(q) =>
    /\ batch[q] \subseteq {s \in out : s.prompt \in Current(q)}
    /\ \A p \in Current(q) : ended[p] # "failure" =>
         /\ Of(p) \cap running = {}
         /\ Of(p) \cap out \subseteq batch[q]

\* A session that raises or has no output never keeps the training from its
\* last step, whatever the poll has missed: fit fails only for a step none of
\* whose prompts brought anything, each having failed or put no output.
Trained ==
  <>(\/ pc = "done"
     \/ pc = "failed" /\ \A p \in Current(part) : ended[p] = "failure" \/ Of(p) \cap out = {})

=============================================================================
