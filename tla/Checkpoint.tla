----------------------------- MODULE Checkpoint -----------------------------
(***************************************************************************)
(* The checkpoints of the fully asynchronous training: what is on disk,    *)
(* file by file, while a checkpoint is written and older ones are rotated  *)
(* out, and what a job that died at any point resumes from.                *)
(*                                                                         *)
(* FullyAsyncTrainer._save_checkpoint writes the actor, the critic and,    *)
(* through the rollouter, the dataloader, each into the folder of the      *)
(* version, and the tracker file last.  The checkpoint managers of actor   *)
(* and critic remove old ones (BaseCheckpointManager).  The rollouter      *)
(* feeds samples all the while.                                            *)
(*                                                                         *)
(* A checkpoint is abstracted to the samples its weights were trained on,  *)
(* the ranks of a worker group, that meet at barriers, to one writer, and  *)
(* the queues between rollouter and trainer to a set.                      *)
(***************************************************************************)
EXTENDS Naturals, FiniteSets

CONSTANTS
  RequiredSamples,  \* samples of a step
  TriggerSyncStep,  \* steps of a version
  MaxVersion,       \* versions that total_rollout_steps is enough for
  EpochSamples,     \* len(train_dataloader)
  Epochs,           \* trainer.total_epochs
  SaveFreq,         \* trainer.save_freq
  MaxKeep,          \* max_actor_ckpt_to_keep and max_critic_ckpt_to_keep, 0 when unset
  MaxInFlight,      \* bound on the samples between rollouter and trainer
  MaxCrashes        \* bound on the crashes

total_rollout_steps == MaxVersion * RequiredSamples * TriggerSyncStep

\* A job started again feeds a sample even when it has trained all versions.
Versions == 0 .. MaxVersion + MaxCrashes

Samples == 1 .. total_rollout_steps * (MaxCrashes + 1)

Roles == {"actor", "critic"}
Parts == Roles \cup {"data"}
Status == {"none", "partial", "complete"}

\* FullyAsyncRollouter.__init__: no more steps than the passes have samples.
ASSUME CheckpointAssumption ==
  /\ RequiredSamples \in Nat \ {0} /\ TriggerSyncStep \in Nat \ {0}
  /\ MaxVersion \in Nat \ {0} /\ EpochSamples \in Nat \ {0} /\ Epochs \in Nat \ {0}
  /\ total_rollout_steps <= Epochs * EpochSamples
  /\ SaveFreq \in Nat \ {0} /\ MaxKeep \in Nat
  /\ MaxInFlight \in Nat /\ MaxInFlight >= RequiredSamples
  /\ MaxCrashes \in Nat

VARIABLES
  pc,       \* "train", "check" after a step, the file being written, "done", "down"
  version, local, learned,  \* current_param_version, local_trigger_step, the weights
  saved,    \* last_ckpt_version
  next,     \* global_steps of the rollouter
  feeding,  \* the feeder has not reached the last step
  fed,      \* position of the dataloader
  last,     \* the position at which its iterator is exhausted
  flight,   \* samples fed and not trained on
  kept,     \* previous_saved_paths of each checkpoint manager
  disk,     \* how far each part of each global_step folder is written
  weights,  \* the samples known to the actor saved in it
  position, \* the position in its data.pt
  tracker,  \* version in the tracker file, 0 when there is none
  emptied,  \* the tracker file is open for writing and still empty
  crashes

trainerVars == <<version, local, learned, saved>>
rollouterVars == <<next, feeding, fed, last, flight>>
contentVars == <<weights, position>>
diskVars == <<kept, disk, contentVars, tracker, emptied>>
vars == <<pc, trainerVars, rollouterVars, diskVars, crashes>>

Saving == {"actor", "critic", "data", "tracker"}

\* _create_continuous_iterator makes Epochs passes over the dataloader, in every
\* life of the job; the first goes on from the position loaded.  A position at
\* the end of a pass may be loaded as the empty rest of it or as a new pass.
LastPositions(p) ==
  {(q \div EpochSamples + Epochs) * EpochSamples : q \in {n \in 0 .. p : n + 1 >= p}}

Init ==
  /\ pc = "train"
  /\ version = 0 /\ local = 1 /\ learned = {} /\ saved = 0
  /\ next = 1 /\ feeding = TRUE /\ fed = 0 /\ last \in LastPositions(0) /\ flight = {}
  /\ kept = [role \in Roles |-> {}]
  /\ disk = [v \in Versions |-> [part \in Parts |-> "none"]]
  /\ weights = [v \in Versions |-> {}]
  /\ position = [v \in Versions |-> 0]
  /\ tracker = 0 /\ emptied = FALSE
  /\ crashes = 0

-----------------------------------------------------------------------------
\* Training

\* The rollouter feeds during a save too, but not while its own event loop
\* writes the dataloader; it stops after the put that finds the last step, or
\* when the iterator is exhausted.
Feed ==
  /\ pc \notin {"data", "done", "down"}
  /\ feeding /\ fed < last
  /\ Cardinality(flight) < MaxInFlight
  /\ fed' = fed + 1
  /\ flight' = flight \cup {fed + 1}
  /\ IF next >= total_rollout_steps
     THEN feeding' = FALSE /\ UNCHANGED next
     ELSE next' = next + 1 /\ UNCHANGED feeding
  /\ UNCHANGED <<pc, trainerVars, last, diskVars, crashes>>

\* Mutant: one step too many.
LastStepLate == local > TriggerSyncStep

LastStep == local >= TriggerSyncStep

\* A step takes whatever samples are generated first.
Train ==
  /\ pc = "train"
  /\ \E S \in SUBSET flight :
       /\ Cardinality(S) = RequiredSamples
       /\ learned' = learned \cup S
       /\ flight' = flight \ S
  /\ IF LastStep
     THEN local' = 1 /\ version' = version + 1
     ELSE local' = local + 1 /\ UNCHANGED version
  /\ pc' = "check"
  /\ UNCHANGED <<saved, next, feeding, fed, last, diskVars, crashes>>

-----------------------------------------------------------------------------
\* Saving

\* The n newest of a list of versions, that grows in their order.
Newest(S, n) == {v \in S : Cardinality({u \in S : u > v}) < n}

\* The directory of the role is removed, the folder of the version stays.
Removed(d, role, old) ==
  [v \in Versions |-> IF v \in old THEN [d[v] EXCEPT ![role] = "none"] ELSE d[v]]

\* Mutant: room is made down to nothing when two may be kept.
ClearedOut(S) ==
  IF MaxKeep > 1 /\ Cardinality(S) >= MaxKeep - 1 THEN Newest(S, MaxKeep - 2) ELSE S

\* ensure_checkpoint_capacity: room for the new one, unless only one is kept.
Capacity(S) ==
  IF MaxKeep > 1 /\ Cardinality(S) >= MaxKeep THEN Newest(S, MaxKeep - 1) ELSE S

\* A manager makes room and begins to write its files.
Open(role) ==
  /\ kept' = [kept EXCEPT ![role] = Capacity(@)]
  /\ disk' = [Removed(disk, role, kept[role] \ Capacity(kept[role]))
                EXCEPT ![version][role] = "partial"]

\* Mutant: a version already saved may be saved again.
DueAgain(expiring) == version % SaveFreq = 0 \/ expiring

\* save_freq, the end of training, or a server instance about to expire.
Due(expiring) == saved # version /\ (version % SaveFreq = 0 \/ expiring)

BeginSave ==
  /\ pc = "check"
  /\ \E expiring \in BOOLEAN : Due(expiring)
  /\ pc' = "actor"
  /\ Open("actor")
  /\ UNCHANGED <<trainerVars, rollouterVars, contentVars, tracker, emptied, crashes>>

SkipSave ==
  /\ pc = "check"
  /\ ~Due(FALSE)
  /\ pc' = "train"
  /\ UNCHANGED <<trainerVars, rollouterVars, diskVars, crashes>>

\* register_checkpoint
Registered(S) ==
  IF MaxKeep > 0 THEN Newest(S \cup {version}, MaxKeep) ELSE S \cup {version}

\* The files of the role are complete; the checkpoint is registered and what
\* exceeds the limit removed.
Written(role, d) ==
  [Removed(d, role, (kept[role] \cup {version}) \ Registered(kept[role]))
     EXCEPT ![version][role] = "complete"]

\* The critic's files are opened next.
SaveActor ==
  /\ pc = "actor"
  /\ kept' = [actor |-> Registered(kept["actor"]), critic |-> Capacity(kept["critic"])]
  /\ disk' = [Removed(Written("actor", disk), "critic",
                      kept["critic"] \ Capacity(kept["critic"]))
                EXCEPT ![version]["critic"] = "partial"]
  /\ weights' = [weights EXCEPT ![version] = learned]
  /\ pc' = "critic"
  /\ UNCHANGED <<trainerVars, rollouterVars, position, tracker, emptied, crashes>>

SaveCritic ==
  /\ pc = "critic"
  /\ kept' = [kept EXCEPT !["critic"] = Registered(@)]
  /\ disk' = [Written("critic", disk) EXCEPT ![version]["data"] = "partial"]
  /\ pc' = "data"
  /\ UNCHANGED <<trainerVars, rollouterVars, contentVars, tracker, emptied, crashes>>

\* Mutant: the position is that of the samples trained on.
TrainedPosition == version * RequiredSamples * TriggerSyncStep

Position == fed

\* FullyAsyncRollouter.save_checkpoint; then the tracker is opened, which
\* empties it.
SaveData ==
  /\ pc = "data"
  /\ disk' = [disk EXCEPT ![version]["data"] = "complete"]
  /\ position' = [position EXCEPT ![version] = Position]
  /\ emptied' = TRUE
  /\ pc' = "tracker"
  /\ UNCHANGED <<trainerVars, rollouterVars, kept, weights, tracker, crashes>>

SaveTracker ==
  /\ pc = "tracker"
  /\ tracker' = version /\ emptied' = FALSE
  /\ saved' = version
  /\ pc' = "train"
  /\ UNCHANGED <<version, local, learned, rollouterVars, kept, disk, contentVars, crashes>>

\* The end signal arrives before the batch is full: one more save, forced.
Stop ==
  /\ pc = "train"
  /\ ~feeding \/ fed = last
  /\ Cardinality(flight) < RequiredSamples
  /\ IF saved = version
     THEN pc' = "done" /\ UNCHANGED <<kept, disk>>
     ELSE pc' = "actor" /\ Open("actor")
  /\ UNCHANGED <<trainerVars, rollouterVars, contentVars, tracker, emptied, crashes>>

-----------------------------------------------------------------------------
\* Crash and restart

\* The actors of the job die together: what is not on disk is lost.
Crash ==
  /\ pc \notin {"down", "done"}
  /\ crashes < MaxCrashes
  /\ crashes' = crashes + 1
  /\ pc' = "down"
  /\ UNCHANGED <<trainerVars, rollouterVars, diskVars>>

Complete(v) == \A part \in Parts : disk[v][part] = "complete"

\* Mutant: the step counter follows the dataloader.
StepOfPosition(v, p) == p + 1

StepOfVersion(v, p) == v * RequiredSamples * TriggerSyncStep + 1

\* load_checkpoint of the trainer and of the rollouter, resume_mode auto: an
\* empty tracker cannot be parsed and a checkpoint that is not complete cannot
\* be loaded, the job does not start then.
Resume(v, known, p) ==
  /\ version' = v /\ saved' = v /\ local' = 1 /\ learned' = known
  /\ next' = StepOfVersion(v, p) /\ feeding' = TRUE
  /\ fed' = p /\ last' \in LastPositions(p) /\ flight' = {}
  /\ kept' = [role \in Roles |-> {}]
  /\ pc' = "train"

Restart ==
  /\ pc = "down"
  /\ ~emptied
  /\ IF tracker = 0 THEN Resume(0, {}, 0)
     ELSE Complete(tracker) /\ Resume(tracker, weights[tracker], position[tracker])
  /\ UNCHANGED <<disk, contentVars, tracker, emptied, crashes>>

-----------------------------------------------------------------------------
Job ==
  \/ Feed \/ Train \/ BeginSave \/ SkipSave
  \/ SaveActor \/ SaveCritic \/ SaveData \/ SaveTracker \/ Stop

Next == Job \/ Crash \/ Restart

\* The job makes progress, the rollouter next to the trainer, and whoever runs
\* it starts it again.
Fairness ==
  /\ WF_vars(Feed)
  /\ WF_vars(Train \/ BeginSave \/ SkipSave \/ Stop)
  /\ WF_vars(SaveActor \/ SaveCritic \/ SaveData \/ SaveTracker)
  /\ WF_vars(Restart)

Spec == Init /\ [][Next]_vars /\ Fairness

-----------------------------------------------------------------------------
\* Properties

TypeOK ==
  /\ pc \in Saving \cup {"train", "check", "done", "down"}
  /\ version \in Versions /\ local \in 1 .. TriggerSyncStep
  /\ learned \in SUBSET Samples /\ saved \in Versions
  /\ next \in Nat /\ feeding \in BOOLEAN
  /\ fed \in Samples \cup {0} /\ last \in Nat /\ flight \in SUBSET Samples
  /\ kept \in [Roles -> SUBSET Versions]
  /\ disk \in [Versions -> [Parts -> Status]]
  /\ weights \in [Versions -> SUBSET Samples]
  /\ position \in [Versions -> Samples \cup {0}]
  /\ tracker \in Versions /\ emptied \in BOOLEAN
  /\ crashes \in 0 .. MaxCrashes

\* Whatever step a crash cuts short, in whatever life of the job, the version
\* named by the tracker file is complete: rotation never reaches it and no
\* later save writes into it.
TrackedComplete == tracker # 0 => Complete(tracker)

\* "we keep the existing checkpoint until the new save completes successfully":
\* as long as the tracker names a version, its actor is there.
KeptUntilSaved == tracker # 0 => disk[tracker]["actor"] = "complete"

\* No sample is trained on twice, though a resumed job reads on from a position
\* that was saved while samples were under way: what is in flight is new to
\* the weights.
NoSampleTwice == pc # "down" => flight \cap learned = {}

\* The files implement a snapshot that is replaced in one step, when the
\* tracker is written.
Durable ==
  IF tracker = 0 THEN [version |-> 0, learned |-> {}, fed |-> 0]
  ELSE [version |-> tracker, learned |-> weights[tracker], fed |-> position[tracker]]

Abstract == INSTANCE Snapshot WITH durable <- Durable

ImplementsSnapshot == Abstract!Spec

\* A job that crashes and is started again trains all its versions: samples
\* that were lost are replaced by as many others, as long as the passes over the
\* data have others; where they have not, no more samples are missing than were
\* under way at the crashes.  Unless it died between the truncation and the
\* write of the tracker file.
Finishes ==
  <>(\/ pc = "done" /\ \/ version >= MaxVersion
                       \/ fed = last /\ total_rollout_steps < next + crashes * MaxInFlight
     \/ pc = "down" /\ emptied)

=============================================================================
