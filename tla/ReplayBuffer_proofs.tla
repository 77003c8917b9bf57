------------------------ MODULE ReplayBuffer_proofs ------------------------
(***************************************************************************)
(* Proof that a batch is complete and current (BatchComplete), for any     *)
(* number of prompts, sessions and steps and any lag of the poll thread.   *)
(***************************************************************************)
EXTENDS ReplayBuffer, TLAPS

-----------------------------------------------------------------------------
\* The inductive invariant

\* The trainer has dispatched the prompt.
Begun(p) ==
  \/ p.step < step
  \/ /\ p.step = step
     /\ \/ p.part = "train" /\ (part = "val" \/ pc # "generate")
        \/ p.part = "val" /\ part = "val" /\ pc # "generate"
        \/ p.part = "val" /\ part = "train" /\ pc \in {"clear", "remove", "done"}

\* The trainer has cleared the batch of the prompt.
Past(p) ==
  \/ p.step < step
  \/ /\ p.step = step
     /\ \/ p.part = "train" /\ part = "train" /\ pc \in {"remove", "done"}
        \/ p.part = "val" /\ part = "val" /\ pc = "remove"
        \/ p.part = "val" /\ part = "train" /\ pc \in {"clear", "remove", "done"}

\* The buffer and the listing never run ahead of the transfer queue, and a
\* prompt that is finished has no session under way.
TagsFollow ==
  \A p \in Prompt :
    /\ known[p] \in {"none", "running"} \/ known[p] = ended[p]
    /\ listing.ended[p] \in {"none", ended[p]}
    /\ ended[p] # "none" => known[p] # "none"
    /\ known[p] # "none" => Begun(p)
    /\ known[p] = "none" => Of(p) \cap running = {}
    /\ ended[p] = "finished" => Of(p) \cap running = {}

\* What was ever put comes from a prompt dispatched, by a session that is over.
OutputsOver ==
  \A s \in out \cup rows \cup listing.out :
    known[s.prompt] # "none" /\ s \notin running

\* An output that was listed or added is in the transfer queue until cleared.
OutputsStay == \A s \in rows \cup listing.out : s \in out \/ Past(s.prompt)

\* The tag of a prompt never arrives before its outputs.
OutputsFirst ==
  \A p \in Prompt :
    /\ known[p] = "finished" => Of(p) \cap out \subseteq rows
    /\ listing.ended[p] = "finished" => Of(p) \cap out \subseteq listing.out

TrainerKnows ==
  /\ pc = "remove" => batch[part] \cap (out \cup running) = {}
  /\ pc = "sample" => \A p \in Current(part) : known[p] # "none"
  /\ \A q \in Parts : InUse(q) => \A p \in Current(q) : ended[p] # "none"

IInv ==
  /\ TypeOK /\ TagsFollow /\ OutputsOver /\ OutputsStay /\ OutputsFirst
  /\ TrainerKnows /\ BatchComplete

-----------------------------------------------------------------------------
LEMMA SessionPrompt == \A s \in Session : s.prompt \in Prompt
BY DEF Session

LEMMA InitInv == Init => IInv
<1> SUFFICES ASSUME Init PROVE IInv
  OBVIOUS
<1> USE DEF Init
<1>1. TypeOK
  BY ReplayAssumption DEF TypeOK, Parts, Tag
<1>2. TagsFollow /\ OutputsOver /\ OutputsStay /\ OutputsFirst
  BY DEF TagsFollow, OutputsOver, OutputsStay, OutputsFirst
<1>3. \A q \in Parts : ~InUse(q)
  BY ReplayAssumption DEF InUse
<1> QED
  BY <1>1, <1>2, <1>3 DEF IInv, TrainerKnows, BatchComplete

-----------------------------------------------------------------------------
\* Agent loop workers

LEMMA SessionEndsInv ==
  ASSUME IInv, NEW s \in Session, SessionEnds(s)
  PROVE  IInv'
<1> USE SessionPrompt DEF IInv, SessionEnds, trainerVars, workerVars, queueVars,
        pollVars, bufferVars
<1>1. TypeOK'
  BY DEF TypeOK
<1>2. TagsFollow'
  BY DEF TagsFollow, Begun, Of, TypeOK
<1>3. known[s.prompt] # "none" /\ ended[s.prompt] # "finished" /\ s \in Of(s.prompt)
  BY DEF TagsFollow, Of
<1>4. OutputsOver'
  BY <1>3 DEF OutputsOver, TypeOK
<1>5. OutputsStay'
  BY DEF OutputsStay, Past, TypeOK
<1>6. OutputsFirst'
  <2> SUFFICES ASSUME NEW p \in Prompt
               PROVE  /\ known'[p] = "finished" => Of(p) \cap out' \subseteq rows'
                      /\ listing'.ended[p] = "finished" => Of(p) \cap out' \subseteq listing'.out
    BY DEF OutputsFirst, Of
  <2>1. ended[p] = "finished" => Of(p) \cap out' = Of(p) \cap out
    BY <1>3 DEF Of
  <2>2. known[p] = "finished" \/ listing.ended[p] = "finished" => ended[p] = "finished"
    BY DEF TagsFollow
  <2> QED  BY <2>1, <2>2 DEF OutputsFirst
<1>7. TrainerKnows'
  <2>1. pc' = "remove" => batch'[part'] \cap (out' \cup running') = {}
    BY DEF TrainerKnows, TypeOK
  <2> QED  BY <2>1 DEF TrainerKnows, InUse, Current
<1>8. BatchComplete'
  <2> SUFFICES ASSUME NEW q \in Parts, InUse(q)
               PROVE  /\ batch'[q] \subseteq {t \in out' : t.prompt \in Current(q)}
                      /\ \A p \in Current(q) : ended'[p] # "failure" =>
                           /\ Of(p) \cap running' = {}
                           /\ Of(p) \cap out' \subseteq batch'[q]
    BY DEF BatchComplete, InUse, Current, Of
  <2>1. \A p \in Current(q) : ended[p] # "failure" => s \notin Of(p)
    BY DEF BatchComplete
  <2> QED  BY <2>1 DEF BatchComplete
<1> QED
  BY <1>1, <1>2, <1>4, <1>5, <1>6, <1>7, <1>8

LEMMA PromptEndsInv ==
  ASSUME IInv, NEW p \in Prompt, PromptEnds(p)
  PROVE  IInv'
<1> USE SessionPrompt DEF IInv, PromptEnds, trainerVars, workerVars, queueVars,
        pollVars, bufferVars
<1>1. TypeOK'
  BY DEF TypeOK, Tag
<1>2. TagsFollow'
  BY DEF TagsFollow, Begun, Of, TypeOK, Gathered
<1>3. OutputsOver' /\ OutputsStay'
  BY DEF OutputsOver, OutputsStay, Past
<1>4. OutputsFirst'
  BY DEF OutputsFirst, Of
<1>5. TrainerKnows'
  BY DEF TrainerKnows, InUse, Current, TypeOK
<1>6. BatchComplete'
  <2> SUFFICES ASSUME NEW q \in Parts, InUse(q)
               PROVE  /\ batch'[q] \subseteq {t \in out' : t.prompt \in Current(q)}
                      /\ \A r \in Current(q) : ended'[r] # "failure" =>
                           /\ Of(r) \cap running' = {}
                           /\ Of(r) \cap out' \subseteq batch'[q]
    BY DEF BatchComplete, InUse, Current, Of
  <2>1. p \notin Current(q)
    BY DEF TrainerKnows
  <2>2. \A r \in Current(q) : ended'[r] = ended[r]
    BY <2>1 DEF TypeOK, Current
  <2> QED  BY <2>2 DEF BatchComplete
<1> QED
  BY <1>1, <1>2, <1>3, <1>4, <1>5, <1>6

-----------------------------------------------------------------------------
\* Poll thread

LEMMA ListInv == IInv /\ List => IInv'
<1> SUFFICES ASSUME IInv, List PROVE IInv'
  OBVIOUS
<1> USE DEF IInv, List, trainerVars, workerVars, queueVars, bufferVars
<1>1. TypeOK'
  BY DEF TypeOK
<1>2. TagsFollow'
  BY DEF TagsFollow, Begun, Of
<1>3. OutputsOver' /\ OutputsStay' /\ OutputsFirst'
  BY DEF OutputsOver, OutputsStay, OutputsFirst, Past, Of
<1>4. TrainerKnows' /\ BatchComplete'
  BY DEF TrainerKnows, BatchComplete, InUse, Current, Of
<1> QED
  BY <1>1, <1>2, <1>3, <1>4

LEMMA AddInv ==
  ASSUME IInv, NEW q \in Parts, Add(q)
  PROVE  IInv'
<1> USE SessionPrompt DEF IInv, Add, trainerVars, workerVars, queueVars
<1>1. TypeOK'
  BY DEF TypeOK, Tag
<1>2. \A p \in Prompt : /\ known'[p] = known[p] \/ known'[p] = ended[p]
                        /\ known[p] # "none" => known'[p] # "none"
                        /\ known'[p] # "none" => known[p] # "none"
                        /\ known'[p] = known[p] \/ (p.part = q /\ known'[p] = listing.ended[p])
  BY DEF TagsFollow
<1>3. TagsFollow'
  BY <1>2 DEF TagsFollow, Begun, Of
<1>4. OutputsOver'
  BY <1>2 DEF OutputsOver, TypeOK
<1>5. OutputsStay'
  BY DEF OutputsStay, Past
<1>6. OutputsFirst'
  BY <1>2 DEF OutputsFirst, Of
<1>7. TrainerKnows' /\ BatchComplete'
  BY <1>2 DEF TrainerKnows, BatchComplete, InUse, Current, Of
<1> QED
  BY <1>1, <1>3, <1>4, <1>5, <1>6, <1>7

-----------------------------------------------------------------------------
\* Trainer

LEMMA GenerateInv == IInv /\ Generate => IInv'
<1> SUFFICES ASSUME IInv, Generate PROVE IInv'
  OBVIOUS
<1> USE SessionPrompt DEF IInv, Generate, workerVars, queueVars, pollVars
<1>1. TypeOK'
  BY DEF TypeOK, Tag, Current, Parts
<1>2. \A p \in Current(part) : known[p] = "none"
  BY DEF TagsFollow, Begun, Current, Parts, TypeOK
<1>3. /\ \A p \in Current(part) : known'[p] = "running"
      /\ \A p \in Prompt \ Current(part) : known'[p] = known[p] /\ Of(p) \cap running' = Of(p) \cap running
  BY DEF Current, Of
<1>4. \A p \in Current(part) : ended[p] = "none" /\ listing.ended[p] = "none"
  BY <1>2 DEF TagsFollow, Current, TypeOK
<1>5. TagsFollow'
  <2>1. \A p \in Prompt : Begun(p) => Begun(p)'
    BY DEF Begun, TypeOK
  <2>2. \A p \in Current(part) : Begun(p)'
    BY DEF Begun, Current, Parts, TypeOK
  <2>3. \A p \in Prompt : known'[p] = "none" => p \notin Current(part)
    BY <1>3
  <2> QED  BY <1>2, <1>3, <1>4, <2>1, <2>2, <2>3 DEF TagsFollow
<1>6. OutputsOver'
  BY <1>2, <1>3 DEF OutputsOver, TypeOK
<1>7. OutputsStay'
  BY DEF OutputsStay, Past, TypeOK
<1>8. OutputsFirst'
  BY <1>3 DEF OutputsFirst, Of
<1>9. TrainerKnows'
  BY <1>3 DEF TrainerKnows, InUse, Current
<1>10. BatchComplete'
  BY <1>4 DEF BatchComplete, InUse, Current, Of, TrainerKnows, Parts, TypeOK
<1> QED
  BY <1>1, <1>5, <1>6, <1>7, <1>8, <1>9, <1>10

LEMMA SampleInv == IInv /\ Sample => IInv'
<1> SUFFICES ASSUME IInv, Sample PROVE IInv'
  OBVIOUS
<1> USE SessionPrompt DEF IInv, Sample, workerVars, queueVars, pollVars, bufferVars
<1>1. TypeOK'
  BY DEF TypeOK, Sampled, Parts
<1>2. TagsFollow'
  BY DEF TagsFollow, Begun, Of, TypeOK, Parts
<1>3. OutputsOver'
  BY DEF OutputsOver
<1>4. OutputsStay'
  BY DEF OutputsStay, Past, TypeOK, Parts
<1>5. OutputsFirst'
  BY DEF OutputsFirst, Of
<1>6. \A p \in Current(part) : known[p] \in {"finished", "failure"} /\ known[p] = ended[p]
  BY DEF TrainerKnows, TagsFollow, TypeOK, Tag, Current, Ended
<1>7. TrainerKnows'
  BY <1>6 DEF TrainerKnows, InUse, Current, Parts
<1>8. BatchComplete'
  <2>1. \A s \in rows : Matching(s) => s \in out /\ s.prompt \in Current(part)
    BY DEF Matching, OutputsStay, Past, Current, TypeOK, Parts
  <2>2. \A p \in Current(part) : ended[p] # "failure" =>
          Of(p) \cap running = {} /\ Of(p) \cap out \subseteq {s \in rows : Matching(s)}
    BY <1>6 DEF OutputsFirst, TagsFollow, Matching, Of, Current
  <2>3. batch'[part] = {s \in rows : Matching(s)}
        /\ \A q \in Parts \ {part} : batch'[q] = batch[q]
    BY DEF TypeOK, Sampled
  <2>4. \A q \in Parts : InUse(q)' => q = part \/ InUse(q)
    BY DEF InUse, Parts
  <2>5. \A q \in Parts : Current(q)' = Current(q)
    BY DEF Current
  <2> QED  BY <2>1, <2>2, <2>3, <2>4, <2>5 DEF BatchComplete, Of
<1> QED
  BY <1>1, <1>2, <1>3, <1>4, <1>5, <1>7, <1>8

LEMMA SampleEmptyInv == IInv /\ SampleEmpty => IInv'
<1> SUFFICES ASSUME IInv, SampleEmpty PROVE IInv'
  OBVIOUS
<1> USE DEF IInv, SampleEmpty, workerVars, queueVars, pollVars, bufferVars
<1>1. TypeOK'
  BY DEF TypeOK
<1>2. TagsFollow'
  BY DEF TagsFollow, Begun, Of
<1>3. OutputsOver' /\ OutputsFirst'
  BY DEF OutputsOver, OutputsFirst, Of
<1>4. OutputsStay'
  BY DEF OutputsStay, Past
<1>5. TrainerKnows' /\ BatchComplete'
  BY DEF TrainerKnows, BatchComplete, InUse, Current, Of
<1> QED
  BY <1>1, <1>2, <1>3, <1>4, <1>5

LEMMA ClearInv == IInv /\ Clear => IInv'
<1> SUFFICES ASSUME IInv, Clear PROVE IInv'
  OBVIOUS
<1> USE SessionPrompt DEF IInv, Clear, workerVars, pollVars, bufferVars
<1>1. TypeOK'
  BY DEF TypeOK
<1>2. InUse(part) /\ part \in Parts
  BY DEF InUse, TypeOK
<1>3. TagsFollow'
  BY DEF TagsFollow, Begun, Of, TypeOK, Parts
<1>4. OutputsOver' /\ OutputsFirst'
  BY DEF OutputsOver, OutputsFirst, Of
<1>5. OutputsStay'
  <2>1. \A s \in batch[part] : Past(s.prompt)'
    BY <1>2 DEF BatchComplete, Current, Past, Parts
  <2>2. \A s \in Session : Past(s.prompt) => Past(s.prompt)'
    BY DEF Past
  <2> QED  BY <2>1, <2>2 DEF OutputsStay, TypeOK
<1>6. TrainerKnows'
  <2>1. batch[part] \cap (out' \cup running) = {}
    BY <1>2 DEF BatchComplete, OutputsOver
  <2> QED  BY <2>1 DEF TrainerKnows, InUse, Current
<1>7. BatchComplete'
  <2> SUFFICES ASSUME NEW q \in Parts, InUse(q)'
               PROVE  /\ batch'[q] \subseteq {t \in out' : t.prompt \in Current(q)}
                      /\ \A p \in Current(q) : ended'[p] # "failure" =>
                           /\ Of(p) \cap running' = {}
                           /\ Of(p) \cap out' \subseteq batch'[q]
    BY DEF BatchComplete, InUse, Current, Of
  <2>1. q = "train" /\ part = "val" /\ InUse(q)
    BY DEF InUse
  <2>2. batch[q] \cap batch[part] = {}
    BY <1>2, <2>1 DEF BatchComplete, Current
  <2> QED  BY <2>1, <2>2 DEF BatchComplete
<1> QED
  BY <1>1, <1>3, <1>4, <1>5, <1>6, <1>7

LEMMA RemoveInv == IInv /\ Remove => IInv'
<1> SUFFICES ASSUME IInv, Remove PROVE IInv'
  OBVIOUS
<1> USE SessionPrompt DEF IInv, Remove, workerVars, queueVars, pollVars
<1>1. TypeOK'
  BY ReplayAssumption DEF TypeOK, Parts
<1>2. TagsFollow'
  <2>1. \A p \in Prompt : Begun(p) => Begun(p)'
    BY ReplayAssumption DEF Begun, Prompt, TypeOK, Parts
  <2> QED  BY <2>1 DEF TagsFollow, Of
<1>3. OutputsOver'
  BY DEF OutputsOver
<1>4. OutputsStay'
  <2>1. \A p \in Prompt : Past(p) => Past(p)'
    BY ReplayAssumption DEF Past, Prompt, TypeOK, Parts
  <2>2. rows' \cup listing'.out \subseteq rows \cup listing.out
    OBVIOUS
  <2> QED  BY <2>1, <2>2 DEF OutputsStay, TypeOK
<1>5. OutputsFirst'
  BY DEF OutputsFirst, TrainerKnows, Of
<1>6. TrainerKnows' /\ BatchComplete'
  BY DEF TrainerKnows, BatchComplete, InUse, Current, Of, Parts, TypeOK
<1> QED
  BY <1>1, <1>2, <1>3, <1>4, <1>5, <1>6

-----------------------------------------------------------------------------

LEMMA StutterInv == IInv /\ UNCHANGED vars => IInv'
BY DEF vars, trainerVars, workerVars, queueVars, pollVars, bufferVars, IInv, TypeOK,
   TagsFollow, Begun, OutputsOver, OutputsStay, Past, OutputsFirst, TrainerKnows, InUse,
   BatchComplete, Current, Of

LEMMA StepInv == IInv /\ [Next]_vars => IInv'
<1> SUFFICES ASSUME IInv, [Next]_vars PROVE IInv'
  OBVIOUS
<1>1. CASE Trainer
  BY <1>1, GenerateInv, SampleInv, SampleEmptyInv, ClearInv, RemoveInv DEF Trainer
<1>2. CASE Workers
  BY <1>2, SessionEndsInv, PromptEndsInv DEF Workers
<1>3. CASE Poll
  BY <1>3, ListInv, AddInv DEF Poll
<1>4. CASE UNCHANGED vars
  BY <1>4, StutterInv
<1> QED
  BY <1>1, <1>2, <1>3, <1>4 DEF Next

\* The invariant of the replay buffer, the transfer queue and the trainer
\* (ReplayBuffer._poll_from_transfer_queue, sample, the clear and remove of fit).
THEOREM Invariance == Spec => []IInv
BY InitInv, StepInv, PTL DEF Spec

\* The buffer, the queue and the trainer keep to their types.
THEOREM TypeCorrect == Spec => []TypeOK
<1>1. IInv => TypeOK
  BY DEF IInv
<1> QED
  BY <1>1, Invariance, PTL

\* However far the poll thread lags behind the transfer queue, and whichever
\* sessions raise or have no output, the batch the trainer uses holds every
\* output of the step's prompts that did not fail, and no other output.
THEOREM BatchIsComplete == Spec => []BatchComplete
<1>1. IInv => BatchComplete
  BY DEF IInv
<1> QED
  BY <1>1, Invariance, PTL

=============================================================================
