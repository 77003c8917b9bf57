------------------------- MODULE Checkpoint_proofs -------------------------
(***************************************************************************)
(* Proofs about the checkpoints: no sample is trained on twice and the     *)
(* files implement a snapshot, for any number of crashes; the tracked      *)
(* version is complete unless only one checkpoint is kept.                 *)
(***************************************************************************)
EXTENDS Checkpoint, FiniteSetTheorems, TLAPS

-----------------------------------------------------------------------------
\* Counting samples

\* Samples of n steps, of v versions, and of n times all versions.
OfSteps(n) == n * RequiredSamples
OfVersions(v) == v * (RequiredSamples * TriggerSyncStep)
OfLives(n) == n * total_rollout_steps

LEMMA Steps ==
  /\ \A n \in Nat : OfSteps(n) \in Nat
  /\ \A m, n \in Nat : m = n + 1 => OfSteps(m) = OfSteps(n) + RequiredSamples
  /\ OfSteps(0) = 0
  /\ OfSteps(TriggerSyncStep - 1) + RequiredSamples = RequiredSamples * TriggerSyncStep
<1>1. RequiredSamples \in Nat /\ TriggerSyncStep \in Nat
  BY CheckpointAssumption
<1>2. \A n \in Nat : OfSteps(n) \in Nat
  BY <1>1 DEF OfSteps
<1>3. \A m, n \in Nat : m = n + 1 => OfSteps(m) = OfSteps(n) + RequiredSamples
  BY <1>1 DEF OfSteps
<1>4. OfSteps(0) = 0
  BY <1>1 DEF OfSteps
<1>5. OfSteps(TriggerSyncStep - 1) + RequiredSamples = RequiredSamples * TriggerSyncStep
  BY <1>1 DEF OfSteps
<1> QED
  BY <1>2, <1>3, <1>4, <1>5

\* The order of multiples is that of their factors.
LEMMA Multiples ==
  ASSUME NEW size \in Nat \ {0}
  PROVE  /\ \A n \in Nat : n * size \in Nat
         /\ \A m, n \in Nat : m = n + 1 => m * size = n * size + size
         /\ \A m, n \in Nat : m <= n <=> m * size <= n * size
<1>1. \A n \in Nat : n * size \in Nat
  OBVIOUS
<1>2. \A m, n \in Nat : m = n + 1 => m * size = n * size + size
  OBVIOUS
<1>3. ASSUME NEW m \in Nat, NEW n \in Nat
      PROVE  m <= n <=> m * size <= n * size
  <2>1. CASE m <= n
    <3>1. n * size = m * size + (n - m) * size
      OBVIOUS
    <3>2. (n - m) * size \in Nat
      BY <2>1
    <3> QED  BY <2>1, <3>1, <3>2, <1>1
  <2>2. CASE m > n
    <3>1. m * size = n * size + size + (m - n - 1) * size
      OBVIOUS
    <3>2. (m - n - 1) * size \in Nat
      BY <2>2
    <3> QED  BY <2>2, <3>1, <3>2, <1>1
  <2> QED  BY <2>1, <2>2
<1> QED
  BY <1>1, <1>2, <1>3

LEMMA VersionsCount ==
  /\ RequiredSamples * TriggerSyncStep \in Nat \ {0}
  /\ \A v \in Nat : OfVersions(v) \in Nat
  /\ \A u, v \in Nat : u = v + 1 => OfVersions(u) = OfVersions(v) + RequiredSamples * TriggerSyncStep
  /\ \A u, v \in Nat : u <= v <=> OfVersions(u) <= OfVersions(v)
  /\ OfVersions(0) = 0
  /\ total_rollout_steps = OfVersions(MaxVersion)
  /\ \A v, p \in Nat : StepOfVersion(v, p) = OfVersions(v) + 1
<1> DEFINE Size == RequiredSamples * TriggerSyncStep
<1>1. RequiredSamples \in Nat \ {0} /\ TriggerSyncStep \in Nat \ {0} /\ MaxVersion \in Nat
  BY CheckpointAssumption
<1>2. Size \in Nat \ {0}
  BY <1>1
<1>3. total_rollout_steps = MaxVersion * Size
  BY <1>1 DEF total_rollout_steps
<1>4. \A v, p \in Nat : StepOfVersion(v, p) = v * Size + 1
  BY <1>1 DEF StepOfVersion
<1> HIDE DEF Size
<1>5. 0 * Size = 0
  BY <1>2
<1> QED
  BY <1>2, <1>3, <1>4, <1>5, Multiples DEF OfVersions, Size

LEMMA LivesCount ==
  /\ total_rollout_steps \in Nat \ {0}
  /\ Samples = 1 .. OfLives(MaxCrashes + 1)
<1>1. total_rollout_steps \in Nat \ {0}
  BY VersionsCount, CheckpointAssumption
<1>2. Samples = 1 .. (MaxCrashes + 1) * total_rollout_steps
  BY <1>1, CheckpointAssumption DEF Samples
<1> QED
  BY <1>1, <1>2 DEF OfLives

LEMMA NextLife ==
  ASSUME NEW n \in Nat
  PROVE  /\ OfLives(n) \in Nat /\ OfLives(n + 1) \in Nat
         /\ OfLives(n + 1) = OfLives(n) + total_rollout_steps
<1>1. n + 1 \in Nat /\ total_rollout_steps \in Nat \ {0}
  BY LivesCount
<1> QED
  BY <1>1, Multiples DEF OfLives

LEMMA LaterLife ==
  ASSUME NEW m \in Nat, NEW n \in Nat, m <= n
  PROVE  OfLives(m) <= OfLives(n)
BY LivesCount, Multiples DEF OfLives

LEMMA NextVersion ==
  ASSUME NEW n \in Nat
  PROVE  /\ OfVersions(n) \in Nat /\ OfVersions(n + 1) \in Nat
         /\ OfVersions(n + 1) = OfVersions(n) + RequiredSamples * TriggerSyncStep
<1>1. n + 1 \in Nat
  OBVIOUS
<1> QED
  BY <1>1, VersionsCount

\* More versions than MaxVersion are more samples than there are.
LEMMA LaterVersion ==
  ASSUME NEW n \in Nat
  PROVE  /\ MaxVersion + n \in Nat /\ OfVersions(MaxVersion + n) \in Nat
         /\ total_rollout_steps <= OfVersions(MaxVersion + n)
         /\ \A v \in Nat : v <= MaxVersion + n <=> OfVersions(v) <= OfVersions(MaxVersion + n)
<1>1. MaxVersion + n \in Nat /\ MaxVersion \in Nat /\ MaxVersion <= MaxVersion + n
  BY CheckpointAssumption
<1> QED
  BY <1>1, VersionsCount

LEMMA NextStep ==
  ASSUME NEW n \in Nat
  PROVE  OfSteps(n) \in Nat /\ OfSteps(n + 1) = OfSteps(n) + RequiredSamples
<1>1. n + 1 \in Nat
  OBVIOUS
<1> QED
  BY <1>1, Steps

-----------------------------------------------------------------------------
\* The inductive invariant

\* Crashes before this life of the job.
Life == IF pc = "down" THEN crashes - 1 ELSE crashes

\* Samples that count as fed since the first version, and what a life may feed.
Put == IF feeding THEN next - 1 ELSE next
Room == IF feeding THEN total_rollout_steps - 1 ELSE total_rollout_steps

Trained == OfVersions(version) + OfSteps(local - 1)

Counted ==
  /\ Life \in 0 .. MaxCrashes
  /\ fed \in Nat /\ flight \cup learned \subseteq 1 .. fed /\ flight \cap learned = {}
  /\ fed <= OfLives(Life) + Put /\ fed <= OfLives(Life) + Room
  /\ next \in Nat \ {0} /\ next <= OfVersions(MaxVersion + Life)
  /\ Cardinality(flight) + Trained = Put
  /\ \A v \in Versions : position[v] <= OfLives(Life + 1)

\* A version is saved after the last one that was.
Ordered ==
  /\ saved = tracker /\ saved <= version
  /\ pc \in Saving => saved < version

\* What has been written of the version being saved, and what is behind the
\* tracker.
Contents ==
  /\ pc \in {"critic", "data", "tracker"} => weights[version] = learned
  /\ pc = "tracker" => learned \subseteq 1 .. position[version] /\ position[version] <= fed
  /\ tracker # 0 => weights[tracker] \subseteq 1 .. position[tracker]

IInv == TypeOK /\ Counted /\ Ordered /\ Contents

LEMMA Limits ==
  ASSUME next \in Nat \ {0}
  PROVE  /\ Put \in Nat /\ Put <= next
         /\ Room \in Nat /\ Room <= total_rollout_steps
<1>1. CASE feeding
  <2>1. Put = next - 1 /\ Room = total_rollout_steps - 1
    BY <1>1 DEF Put, Room
  <2> QED  BY <2>1, LivesCount
<1>2. CASE ~feeding
  <2>1. Put = next /\ Room = total_rollout_steps
    BY <1>2 DEF Put, Room
  <2> QED  BY <2>1, LivesCount
<1> QED
  BY <1>1, <1>2

LEMMA CountedTypes ==
  ASSUME Counted, version \in Nat, local \in 1 .. TriggerSyncStep
  PROVE  /\ Life \in Nat /\ fed \in Samples \cup {0} /\ fed <= OfLives(Life + 1)
         /\ flight \in SUBSET Samples /\ learned \in SUBSET Samples
         /\ IsFiniteSet(flight) /\ Cardinality(flight) \in Nat
         /\ version \in Versions /\ version <= MaxVersion + Life
         /\ local - 1 \in Nat
<1>1. Life \in Nat /\ Life + 1 <= MaxCrashes + 1 /\ MaxCrashes \in Nat /\ local - 1 \in Nat
  BY CheckpointAssumption DEF Counted
<1>2. fed <= OfLives(Life + 1) /\ OfLives(Life + 1) <= OfLives(MaxCrashes + 1)
      /\ OfLives(MaxCrashes + 1) \in Nat /\ OfLives(Life + 1) \in Nat
  <2>1. OfLives(Life + 1) = OfLives(Life) + total_rollout_steps /\ OfLives(Life) \in Nat
    BY <1>1, NextLife
  <2>2. fed \in Nat /\ Room <= total_rollout_steps /\ Room \in Nat /\ fed <= OfLives(Life) + Room
    BY Limits DEF Counted
  <2>3. OfLives(Life + 1) <= OfLives(MaxCrashes + 1) /\ OfLives(MaxCrashes + 1) \in Nat
    <3>1. Life + 1 \in Nat /\ MaxCrashes + 1 \in Nat
      BY <1>1
    <3> QED  BY <1>1, <3>1, LaterLife, NextLife
  <2>4. OfLives(Life + 1) \in Nat
    BY <1>1, NextLife
  <2> QED  BY <2>1, <2>2, <2>3, <2>4, LivesCount
<1>3. /\ fed \in Samples \cup {0} /\ flight \in SUBSET Samples /\ learned \in SUBSET Samples
  <2>1. fed \in Nat /\ flight \cup learned \subseteq 1 .. fed
    BY DEF Counted
  <2>2. fed <= OfLives(MaxCrashes + 1)
    BY <1>2, <2>1
  <2> QED  BY <1>2, <2>1, <2>2, LivesCount
<1>4. IsFiniteSet(flight) /\ Cardinality(flight) \in Nat
  <2>1. IsFiniteSet(1 .. fed)
    BY FS_Interval DEF Counted
  <2>2. flight \in SUBSET (1 .. fed)
    BY DEF Counted
  <2> QED  BY <2>1, <2>2, FS_Subset, FS_CardinalityType
<1>5. version <= MaxVersion + Life
  <2>1. OfVersions(version) \in Nat /\ OfSteps(local - 1) \in Nat
    BY <1>1, NextVersion, NextStep
  <2>2. /\ Cardinality(flight) + (OfVersions(version) + OfSteps(local - 1)) = Put
        /\ Put <= next /\ Put \in Nat /\ next <= OfVersions(MaxVersion + Life) /\ next \in Nat
    BY Limits DEF Counted, Trained
  <2>3. OfVersions(version) <= OfVersions(MaxVersion + Life)
    BY <1>1, <1>4, <2>1, <2>2, LaterVersion
  <2> QED  BY <1>1, <2>3, LaterVersion
<1>6. version \in Versions
  BY <1>1, <1>5, CheckpointAssumption DEF Versions
<1> QED
  BY <1>1, <1>2, <1>3, <1>4, <1>5, <1>6

\* What the counts say of the types after a step.
LEMMA Fits ==
  ASSUME NEW l \in 0 .. MaxCrashes, NEW f \in Nat, f <= OfLives(l) + total_rollout_steps
  PROVE  /\ f \in Samples \cup {0} /\ 1 .. f \subseteq Samples
         /\ f <= OfLives(l + 1)
<1>1. l \in Nat /\ l + 1 \in Nat /\ MaxCrashes + 1 \in Nat /\ l + 1 <= MaxCrashes + 1
  BY CheckpointAssumption
<1>2. f <= OfLives(l + 1) /\ OfLives(l + 1) \in Nat
  BY <1>1, NextLife
<1>3. OfLives(l + 1) <= OfLives(MaxCrashes + 1) /\ OfLives(MaxCrashes + 1) \in Nat
  BY <1>1, LaterLife, NextLife
<1>4. f <= OfLives(MaxCrashes + 1)
  BY <1>2, <1>3
<1> QED
  BY <1>2, <1>3, <1>4, LivesCount

LEMMA VersionFits ==
  ASSUME NEW l \in 0 .. MaxCrashes, NEW v \in Nat,
         OfVersions(v) <= OfVersions(MaxVersion + l)
  PROVE  v \in Versions
<1>1. l \in Nat /\ MaxCrashes \in Nat /\ MaxVersion \in Nat /\ l <= MaxCrashes
  BY CheckpointAssumption
<1>2. v <= MaxVersion + l
  BY <1>1, LaterVersion
<1> QED
  BY <1>1, <1>2 DEF Versions

LEMMA PositionNat == TypeOK => \A v \in Versions : position[v] \in Nat
<1>1. Samples \subseteq Nat
  BY LivesCount
<1>2. TypeOK => position \in [Versions -> Samples \cup {0}]
  BY DEF TypeOK
<1>3. Samples \cup {0} \subseteq Nat
  BY <1>1
<1> QED
  BY <1>2, <1>3

LEMMA LastNat ==
  ASSUME NEW p \in Nat
  PROVE  LastPositions(p) \subseteq Nat
<1> SUFFICES ASSUME NEW q \in 0 .. p
             PROVE  (q \div EpochSamples + Epochs) * EpochSamples \in Nat
  BY DEF LastPositions
<1>1. EpochSamples \in Nat \ {0} /\ Epochs \in Nat /\ q \in Nat
  BY CheckpointAssumption
<1>2. q \div EpochSamples \in Nat
  BY <1>1
<1> QED
  BY <1>1, <1>2

LEMMA InitInv == Init => IInv
<1> SUFFICES ASSUME Init PROVE IInv
  OBVIOUS
<1> USE CheckpointAssumption DEF Init
<1>1. Cardinality(flight) = 0 /\ Trained = 0
  BY FS_EmptySet, Steps, VersionsCount DEF Trained
<1>2. Counted
  <2>1. OfLives(0) \in Nat /\ OfLives(0 + 1) \in Nat /\ total_rollout_steps \in Nat \ {0}
        /\ total_rollout_steps = OfVersions(MaxVersion + 0)
    BY NextLife, LivesCount, VersionsCount, CheckpointAssumption
  <2>2. Life = 0 /\ \A v \in Versions : position[v] = 0
    BY DEF Life
  <2>3. Put = 0
    BY DEF Put
  <2>4. Room \in Nat
    BY Limits
  <2> QED  BY <1>1, <2>1, <2>2, <2>3, <2>4 DEF Counted
<1>3. TypeOK
  <2>1. 0 \in Versions /\ 1 \in 1 .. TriggerSyncStep
    BY DEF Versions
  <2>2. disk \in [Versions -> [Parts -> Status]]
    BY DEF Status
  <2>3. kept \in [Roles -> SUBSET Versions] /\ weights \in [Versions -> SUBSET Samples]
        /\ position \in [Versions -> Samples \cup {0}]
    OBVIOUS
  <2>4. /\ pc \in Saving \cup {"train", "check", "done", "down"}
        /\ learned \in SUBSET Samples /\ flight \in SUBSET Samples
        /\ fed \in Samples \cup {0} /\ crashes \in 0 .. MaxCrashes
    OBVIOUS
  <2>6. feeding \in BOOLEAN /\ emptied \in BOOLEAN /\ next \in Nat
    OBVIOUS
  <2>5. version \in Versions /\ local \in 1 .. TriggerSyncStep /\ saved \in Versions /\ tracker \in Versions
    BY <2>1
  <2>7. last \in Nat
    BY LastNat
  <2> QED  BY <2>2, <2>3, <2>4, <2>5, <2>6, <2>7 DEF TypeOK
<1> QED
  BY <1>2, <1>3 DEF IInv, Ordered, Contents, Saving

-----------------------------------------------------------------------------
\* Training

LEMMA FeedInv == IInv /\ Feed => IInv'
<1> SUFFICES ASSUME IInv, Feed PROVE IInv'
  OBVIOUS
<1> USE CheckpointAssumption DEF IInv, Feed, trainerVars, diskVars, contentVars
<1>1. /\ Life \in Nat /\ IsFiniteSet(flight) /\ Cardinality(flight) \in Nat
      /\ version \in Nat /\ local - 1 \in Nat
  BY CountedTypes DEF TypeOK, Versions
<1>2. Life' = Life /\ Trained' = Trained
  BY DEF Life, Trained
<1>3. Cardinality(flight') = Cardinality(flight) + 1
  <2>1. fed + 1 \notin flight
    BY DEF Counted
  <2> QED  BY <1>1, <2>1, FS_AddElement
<1>4. Put = next - 1 /\ Room = total_rollout_steps - 1
  BY DEF Put, Room
<1>5. \/ next' = next /\ next >= total_rollout_steps /\ Put' = next /\ Room' = total_rollout_steps
      \/ /\ next' = next + 1 /\ ~(next >= total_rollout_steps)
         /\ Put' = next /\ Room' = total_rollout_steps - 1
  <2>1. CASE next >= total_rollout_steps
    <3>1. next' = next /\ feeding' = FALSE
      BY <2>1
    <3> QED  BY <2>1, <3>1 DEF Put, Room
  <2>2. CASE ~(next >= total_rollout_steps)
    <3>1. next' = next + 1 /\ feeding'
      BY <2>2
    <3>2. Put' = next' - 1 /\ Room' = total_rollout_steps - 1
      BY <3>1 DEF Put, Room
    <3>3. next' - 1 = next
      BY <3>1 DEF Counted
    <3> QED  BY <2>2, <3>1, <3>2, <3>3
  <2> QED  BY <2>1, <2>2
<1>6. Counted'
  <2>1. OfLives(Life) \in Nat /\ total_rollout_steps \in Nat \ {0} /\ next \in Nat \ {0}
    BY <1>1, NextLife, LivesCount DEF Counted
  <2>2. fed' \in Nat /\ flight' \cup learned' \subseteq 1 .. fed' /\ flight' \cap learned' = {}
    BY DEF Counted
  <2>3. total_rollout_steps <= OfVersions(MaxVersion + Life) /\ OfVersions(MaxVersion + Life) \in Nat
    BY <1>1, LaterVersion
  <2>4. next' \in Nat \ {0} /\ next' <= OfVersions(MaxVersion + Life)
    BY <1>5, <2>1, <2>3 DEF Counted
  <2>5. fed' <= OfLives(Life) + Put' /\ fed' <= OfLives(Life) + Room'
    BY <1>4, <1>5, <2>1 DEF Counted
  <2>6. Cardinality(flight') + Trained = Put'
    <3>1. Trained \in Nat
      BY <1>1, NextVersion, NextStep DEF Trained
    <3> QED  BY <1>1, <1>3, <1>4, <1>5, <2>1, <3>1 DEF Counted
  <2> QED  BY <1>2, <2>2, <2>4, <2>5, <2>6 DEF Counted
<1>7. TypeOK'
  <2>1. fed' \in Samples \cup {0} /\ flight' \in SUBSET Samples
    <3>1. fed' <= OfLives(Life) + total_rollout_steps
      <4>1. Room' <= total_rollout_steps /\ Room' \in Nat /\ total_rollout_steps \in Nat
        BY <1>5, LivesCount
      <4>2. OfLives(Life) \in Nat /\ fed' \in Nat /\ fed' <= OfLives(Life) + Room'
        BY <1>1, <1>2, <1>6, NextLife DEF Counted
      <4> QED  BY <4>1, <4>2
    <3>2. fed' \in Samples \cup {0} /\ 1 .. fed' \subseteq Samples
      BY <1>6, <3>1, Fits DEF Counted
    <3> QED  BY <1>6, <3>2 DEF Counted
  <2>2. next' \in Nat /\ feeding' \in BOOLEAN
    BY <1>6 DEF Counted, TypeOK
  <2> QED  BY <2>1, <2>2 DEF TypeOK
<1>8. Ordered' /\ Contents'
  <2>1. version \in Versions => position[version] \in Nat
    BY PositionNat
  <2>2. fed \in Nat /\ fed' = fed + 1
    BY DEF Counted
  <2> QED  BY <2>1, <2>2 DEF Ordered, Contents, TypeOK
<1> QED
  BY <1>6, <1>7, <1>8

LEMMA TrainInv == IInv /\ Train => IInv'
<1> SUFFICES ASSUME IInv, Train PROVE IInv'
  OBVIOUS
<1> USE CheckpointAssumption DEF IInv, Train, diskVars, contentVars
<1>1. /\ Life \in 0 .. MaxCrashes /\ Life \in Nat /\ IsFiniteSet(flight) /\ Cardinality(flight) \in Nat
      /\ version \in Nat /\ local - 1 \in Nat /\ local \in 1 .. TriggerSyncStep
  BY CountedTypes DEF TypeOK, Versions, Counted
<1>2. PICK S \in SUBSET flight : /\ Cardinality(S) = RequiredSamples
                                 /\ learned' = learned \cup S /\ flight' = flight \ S
  OBVIOUS
<1>3. Cardinality(flight') = Cardinality(flight) - RequiredSamples /\ Cardinality(flight') \in Nat
  <2>1. flight \cap S = S
    OBVIOUS
  <2>2. IsFiniteSet(flight')
    BY <1>1, <1>2, FS_Subset
  <2>3. Cardinality(flight \ S) = Cardinality(flight) - Cardinality(flight \cap S)
    BY <1>1, FS_Difference
  <2> QED  BY <1>2, <2>1, <2>2, <2>3, FS_CardinalityType
<1>4. Life' = Life /\ Put' = Put /\ Room' = Room
  BY DEF Life, Put, Room
<1>5. /\ Trained' = Trained + RequiredSamples /\ local' \in 1 .. TriggerSyncStep
      /\ version' \in Nat /\ version <= version'
      /\ OfVersions(version') \in Nat /\ OfSteps(local' - 1) \in Nat
  <2>1. CASE LastStep
    <3>1. local = TriggerSyncStep /\ local' = 1 /\ version' = version + 1
      BY <1>1, <2>1 DEF LastStep
    <3>2. OfVersions(version + 1) = OfVersions(version) + RequiredSamples * TriggerSyncStep
          /\ OfVersions(version + 1) \in Nat /\ OfVersions(version) \in Nat
      BY <1>1, NextVersion
    <3>3. OfSteps(local' - 1) = 0
      BY <3>1, Steps
    <3>4. OfSteps(local - 1) + RequiredSamples = RequiredSamples * TriggerSyncStep
      BY <3>1, Steps
    <3>5. OfSteps(local - 1) \in Nat
      BY <1>1, NextStep
    <3> QED  BY <1>1, <3>1, <3>2, <3>3, <3>4, <3>5 DEF Trained
  <2>2. CASE ~LastStep
    <3>1. local' = local + 1 /\ version' = version /\ local' \in 1 .. TriggerSyncStep
      BY <1>1, <2>2 DEF LastStep
    <3>2. local' - 1 = (local - 1) + 1
      BY <1>1, <3>1
    <3>3. OfSteps(local' - 1) = OfSteps(local - 1) + RequiredSamples /\ OfSteps(local - 1) \in Nat
      BY <1>1, <3>2, NextStep
    <3>4. OfVersions(version) \in Nat
      BY <1>1, NextVersion
    <3> QED  BY <1>1, <3>1, <3>3, <3>4 DEF Trained
  <2> QED  BY <2>1, <2>2
<1>6. Cardinality(flight') + Trained' = Put
  <2>1. Trained \in Nat
    BY <1>1, NextVersion, NextStep DEF Trained
  <2> QED  BY <1>1, <1>3, <1>5, <2>1 DEF Counted
<1>7. Counted'
  BY <1>2, <1>4, <1>6 DEF Counted
<1>8. version' \in Versions
  <2>1. Put \in Nat /\ Put <= next /\ next \in Nat /\ next <= OfVersions(MaxVersion + Life)
        /\ OfVersions(MaxVersion + Life) \in Nat
    BY <1>1, Limits, LaterVersion DEF Counted
  <2>2. OfVersions(version') <= OfVersions(MaxVersion + Life)
    BY <1>3, <1>5, <1>6, <2>1 DEF Trained
  <2> QED  BY <1>1, <1>5, <2>2, VersionFits
<1>9. TypeOK'
  BY <1>2, <1>5, <1>8 DEF TypeOK
<1>10. Ordered' /\ Contents'
  <2>1. saved \in Nat
    BY DEF TypeOK, Versions
  <2> QED  BY <1>1, <1>5, <2>1 DEF Ordered, Contents, Saving
<1> QED
  BY <1>7, <1>9, <1>10

-----------------------------------------------------------------------------
\* Saving

LEMMA RotatedType ==
  ASSUME NEW d \in [Versions -> [Parts -> Status]], NEW role \in Roles, NEW old \in SUBSET Versions
  PROVE  /\ Removed(d, role, old) \in [Versions -> [Parts -> Status]]
         /\ \A v \in Versions, part \in Parts :
              Removed(d, role, old)[v][part] = IF v \in old /\ part = role THEN "none" ELSE d[v][part]
BY DEF Removed, Status, Parts

LEMMA KeptType ==
  ASSUME NEW S \in SUBSET Versions, version \in Versions
  PROVE  /\ Capacity(S) \in SUBSET S /\ Capacity(S) \in SUBSET Versions
         /\ Registered(S) \in SUBSET (S \cup {version}) /\ Registered(S) \in SUBSET Versions
BY DEF Capacity, Registered, Newest

\* What SaveActor and SaveCritic do to the files.
LEMMA WrittenType ==
  ASSUME NEW d \in [Versions -> [Parts -> Status]], NEW role \in Roles,
         kept[role] \in SUBSET Versions, version \in Versions
  PROVE  /\ Written(role, d) \in [Versions -> [Parts -> Status]]
         /\ Removed(d, role, kept[role] \ Capacity(kept[role])) \in [Versions -> [Parts -> Status]]
<1>1. /\ (kept[role] \cup {version}) \ Registered(kept[role]) \in SUBSET Versions
      /\ kept[role] \ Capacity(kept[role]) \in SUBSET Versions
  OBVIOUS
<1>2. /\ Removed(d, role, (kept[role] \cup {version}) \ Registered(kept[role]))
            \in [Versions -> [Parts -> Status]]
      /\ Removed(d, role, kept[role] \ Capacity(kept[role])) \in [Versions -> [Parts -> Status]]
  BY <1>1, RotatedType
<1> QED
  BY <1>2 DEF Written, Status, Parts

LEMMA OpenType ==
  ASSUME TypeOK, NEW role \in Roles, Open(role)
  PROVE  /\ kept' \in [Roles -> SUBSET Versions]
         /\ disk' \in [Versions -> [Parts -> Status]]
<1>1. version \in Versions /\ kept[role] \in SUBSET Versions
  BY DEF TypeOK
<1>2. Capacity(kept[role]) \in SUBSET Versions
  BY <1>1, KeptType
<1>3. Removed(disk, role, kept[role] \ Capacity(kept[role])) \in [Versions -> [Parts -> Status]]
  <2>1. kept[role] \ Capacity(kept[role]) \in SUBSET Versions
    BY <1>1
  <2>2. disk \in [Versions -> [Parts -> Status]]
    BY DEF TypeOK
  <2> QED
    BY <2>1, <2>2, RotatedType
<1>4. kept' \in [Roles -> SUBSET Versions]
  BY <1>2 DEF Open, TypeOK
<1>5. disk' \in [Versions -> [Parts -> Status]]
  BY <1>1, <1>3 DEF Open, Status, Parts
<1> QED
  BY <1>4, <1>5

\* Steps that leave the samples alone.
LEMMA CountedStays ==
  Counted /\ UNCHANGED <<rollouterVars, trainerVars, position, crashes>>
  /\ (pc = "down" <=> pc' = "down") => Counted'
BY DEF Counted, Life, Put, Room, Trained, rollouterVars, trainerVars

LEMMA BeginSaveInv == IInv /\ BeginSave => IInv'
<1> SUFFICES ASSUME IInv, BeginSave PROVE IInv'
  OBVIOUS
<1> USE DEF IInv, BeginSave, trainerVars, rollouterVars, contentVars
<1>1. kept' \in [Roles -> SUBSET Versions] /\ disk' \in [Versions -> [Parts -> Status]]
  BY OpenType DEF Roles
<1>2. TypeOK'
  BY <1>1 DEF TypeOK, Saving
<1>3. Counted'
  BY CountedStays
<1>4. saved < version
  BY DEF Due, Ordered, TypeOK, Versions
<1>5. Ordered' /\ Contents'
  BY <1>4 DEF Ordered, Contents
<1> QED
  BY <1>2, <1>3, <1>5

LEMMA SkipSaveInv == IInv /\ SkipSave => IInv'
<1> SUFFICES ASSUME IInv, SkipSave PROVE IInv'
  OBVIOUS
<1> USE DEF IInv, SkipSave, trainerVars, rollouterVars, diskVars, contentVars
<1>1. TypeOK'
  BY DEF TypeOK
<1>2. Counted'
  BY CountedStays
<1>3. Ordered' /\ Contents'
  BY DEF Ordered, Contents, Saving
<1> QED
  BY <1>1, <1>2, <1>3

\* The checkpoint managers write and rotate; the samples stay where they are.
LEMMA SaveActorInv == IInv /\ SaveActor => IInv'
<1> SUFFICES ASSUME IInv, SaveActor PROVE IInv'
  OBVIOUS
<1> USE DEF IInv, SaveActor, trainerVars, rollouterVars
<1>1. /\ version \in Versions /\ kept["actor"] \in SUBSET Versions
      /\ kept["critic"] \in SUBSET Versions /\ learned \in SUBSET Samples
      /\ disk \in [Versions -> [Parts -> Status]] /\ "actor" \in Roles /\ "critic" \in Roles
  BY DEF TypeOK, Roles
<1>2. /\ Registered(kept["actor"]) \in SUBSET Versions
      /\ Capacity(kept["critic"]) \in SUBSET Versions
  BY <1>1, KeptType
<1>3. kept' \in [Roles -> SUBSET Versions]
  BY <1>2 DEF Roles
<1>4. disk' \in [Versions -> [Parts -> Status]]
  <2>1. Written("actor", disk) \in [Versions -> [Parts -> Status]]
    BY <1>1, WrittenType
  <2>2. Removed(Written("actor", disk), "critic", kept["critic"] \ Capacity(kept["critic"]))
          \in [Versions -> [Parts -> Status]]
    BY <1>1, <2>1, WrittenType
  <2> QED  BY <1>1, <2>2 DEF Status, Parts
<1>5. weights' \in [Versions -> SUBSET Samples] /\ weights'[version] = learned
      /\ \A v \in Versions \ {version} : weights'[v] = weights[v]
  BY <1>1 DEF TypeOK
<1>6. TypeOK'
  BY <1>3, <1>4, <1>5 DEF TypeOK, Saving
<1>7. Counted'
  BY CountedStays
<1>8. tracker # version /\ tracker \in Versions
  BY DEF Ordered, Saving, TypeOK, Versions
<1>9. Ordered' /\ Contents'
  BY <1>5, <1>8 DEF Ordered, Contents, Saving
<1> QED
  BY <1>6, <1>7, <1>9

LEMMA SaveCriticInv == IInv /\ SaveCritic => IInv'
<1> SUFFICES ASSUME IInv, SaveCritic PROVE IInv'
  OBVIOUS
<1> USE DEF IInv, SaveCritic, trainerVars, rollouterVars, contentVars
<1>1. /\ version \in Versions /\ kept["critic"] \in SUBSET Versions
      /\ disk \in [Versions -> [Parts -> Status]] /\ "critic" \in Roles
  BY DEF TypeOK, Roles
<1>2. kept' \in [Roles -> SUBSET Versions]
  BY <1>1, KeptType DEF TypeOK, Roles
<1>3. disk' \in [Versions -> [Parts -> Status]]
  <2>1. Written("critic", disk) \in [Versions -> [Parts -> Status]]
    BY <1>1, WrittenType
  <2> QED  BY <1>1, <2>1 DEF Status, Parts
<1>4. TypeOK'
  BY <1>2, <1>3 DEF TypeOK, Saving
<1>5. Counted'
  BY CountedStays
<1>6. Ordered' /\ Contents'
  BY DEF Ordered, Contents, Saving
<1> QED
  BY <1>4, <1>5, <1>6

LEMMA SaveDataInv == IInv /\ SaveData => IInv'
<1> SUFFICES ASSUME IInv, SaveData PROVE IInv'
  OBVIOUS
<1> USE DEF IInv, SaveData, Position, trainerVars, rollouterVars
<1>1. version \in Versions /\ fed \in Samples \cup {0} /\ fed \in Nat
  BY DEF TypeOK, Counted
<1>2. disk' \in [Versions -> [Parts -> Status]]
  BY <1>1 DEF TypeOK, Status, Parts
<1>3. position' \in [Versions -> Samples \cup {0}] /\ position'[version] = fed
      /\ \A v \in Versions \ {version} : position'[v] = position[v]
  BY <1>1 DEF TypeOK
<1>4. TypeOK'
  BY <1>2, <1>3 DEF TypeOK, Saving
<1>5. Counted'
  <2>1. fed <= OfLives(Life + 1)
    BY CountedTypes DEF TypeOK, Versions
  <2>2. Life' = Life /\ Put' = Put /\ Room' = Room /\ Trained' = Trained
    BY DEF Life, Put, Room, Trained
  <2> QED  BY <1>3, <2>1, <2>2 DEF Counted
<1>6. tracker # version /\ tracker \in Versions
  BY DEF Ordered, Saving, TypeOK, Versions
<1>7. Ordered' /\ Contents'
  <2>1. learned \subseteq 1 .. fed
    BY DEF Counted
  <2> QED  BY <1>1, <1>3, <1>6, <2>1 DEF Ordered, Contents, Saving
<1> QED
  BY <1>4, <1>5, <1>7

LEMMA SaveTrackerInv == IInv /\ SaveTracker => IInv'
<1> SUFFICES ASSUME IInv, SaveTracker PROVE IInv'
  OBVIOUS
<1> USE DEF IInv, SaveTracker, rollouterVars, contentVars
<1>1. TypeOK'
  BY DEF TypeOK
<1>2. Counted'
  BY DEF Counted, Life, Put, Room, Trained
<1>3. Ordered' /\ Contents'
  BY DEF Ordered, Contents, Saving, TypeOK, Versions
<1> QED
  BY <1>1, <1>2, <1>3

LEMMA StopInv == IInv /\ Stop => IInv'
<1> SUFFICES ASSUME IInv, Stop PROVE IInv'
  OBVIOUS
<1> USE DEF IInv, Stop, trainerVars, rollouterVars, contentVars
<1>1. kept' \in [Roles -> SUBSET Versions] /\ disk' \in [Versions -> [Parts -> Status]]
  BY OpenType DEF Roles, TypeOK
<1>2. TypeOK'
  BY <1>1 DEF TypeOK, Saving
<1>3. Counted'
  BY CountedStays
<1>4. saved # version => saved < version
  BY DEF Ordered, TypeOK, Versions
<1>5. Ordered' /\ Contents'
  BY <1>4 DEF Ordered, Contents, Saving
<1> QED
  BY <1>2, <1>3, <1>5

-----------------------------------------------------------------------------
\* Crash and restart

LEMMA CrashInv == IInv /\ Crash => IInv'
<1> SUFFICES ASSUME IInv, Crash PROVE IInv'
  OBVIOUS
<1> USE CheckpointAssumption DEF IInv, Crash, trainerVars, rollouterVars, diskVars, contentVars
<1>1. crashes' \in 0 .. MaxCrashes /\ Life' = Life
  BY DEF TypeOK, Life
<1>2. TypeOK'
  BY <1>1 DEF TypeOK
<1>3. Counted'
  BY <1>1 DEF Counted, Put, Room, Trained
<1>4. Ordered' /\ Contents'
  BY DEF Ordered, Contents, Saving
<1> QED
  BY <1>2, <1>3, <1>4

LEMMA ResumeInv ==
  ASSUME IInv, pc = "down", NEW v \in Versions, NEW known, NEW p \in Samples \cup {0},
         v = tracker, known \subseteq 1 .. p, p <= OfLives(Life + 1), Resume(v, known, p),
         UNCHANGED <<disk, contentVars, tracker, emptied, crashes>>
  PROVE  IInv'
<1> USE CheckpointAssumption DEF IInv, Resume, contentVars
<1>1. /\ Life \in Nat /\ Life = crashes - 1 /\ Life' = crashes /\ crashes = Life + 1
      /\ crashes \in 0 .. MaxCrashes /\ version \in Nat /\ version <= MaxVersion + Life
      /\ v \in Nat /\ v <= version
  BY CountedTypes DEF TypeOK, Life, Versions, Ordered, Saving
<1>2. p \in Nat
  BY LivesCount
<1>3. next' = OfVersions(v) + 1 /\ OfVersions(v) \in Nat
  BY <1>1, <1>2, VersionsCount
<1>4. Put' = OfVersions(v) /\ Room' = total_rollout_steps - 1
  <2>1. Put' = next' - 1 /\ Room' = total_rollout_steps - 1
    BY DEF Put, Room
  <2> QED  BY <1>3, <2>1
<1>5. Trained' = OfVersions(v) /\ Cardinality(flight') = 0
  <2>1. OfSteps(local' - 1) = 0
    BY Steps
  <2> QED  BY <1>3, <2>1, FS_EmptySet DEF Trained
<1>6. next' <= OfVersions(MaxVersion + Life')
  <2>1. v + 1 <= MaxVersion + crashes /\ v + 1 \in Nat /\ crashes \in Nat
    BY <1>1
  <2>2. OfVersions(v + 1) <= OfVersions(MaxVersion + crashes) /\ OfVersions(MaxVersion + crashes) \in Nat
    BY <2>1, LaterVersion
  <2>3. OfVersions(v + 1) >= OfVersions(v) + 1 /\ OfVersions(v + 1) \in Nat
    BY <1>1, <1>3, NextVersion, VersionsCount
  <2> QED  BY <1>1, <1>3, <2>2, <2>3
<1>7. Counted'
  <2>1. OfLives(crashes) \in Nat /\ OfLives(crashes + 1) = OfLives(crashes) + total_rollout_steps
        /\ total_rollout_steps \in Nat \ {0}
    BY <1>1, NextLife, LivesCount
  <2>2. p <= OfLives(Life') + Put' /\ p <= OfLives(Life') + Room'
    BY <1>1, <1>2, <1>3, <1>4, <2>1
  <2>3. \A u \in Versions : position'[u] <= OfLives(Life' + 1)
    <3>1. \A u \in Versions : position[u] \in Nat /\ position[u] <= OfLives(crashes)
      BY <1>1, PositionNat DEF Counted
    <3> QED  BY <1>1, <2>1, <3>1
  <2>4. Cardinality(flight') + Trained' = Put'
    BY <1>3, <1>4, <1>5
  <2>5. next' \in Nat \ {0}
    BY <1>3
  <2> QED  BY <1>1, <1>2, <1>6, <2>2, <2>3, <2>4, <2>5 DEF Counted
<1>8. TypeOK'
  <2>1. known \in SUBSET Samples
    <3>1. p <= OfLives(Life) + total_rollout_steps
      BY <1>1, NextLife
    <3>2. 1 .. p \subseteq Samples
      BY <1>2, <3>1, Fits DEF Counted
    <3> QED  BY <3>2
  <2>2. kept' \in [Roles -> SUBSET Versions]
    OBVIOUS
  <2>3. local' \in 1 .. TriggerSyncStep /\ next' \in Nat /\ flight' \in SUBSET Samples
    BY <1>3
  <2>4. last' \in Nat
    BY <1>2, LastNat
  <2> QED  BY <2>1, <2>2, <2>3, <2>4 DEF TypeOK
<1>9. Ordered' /\ Contents'
  BY <1>1 DEF Ordered, Contents, Saving
<1> QED
  BY <1>7, <1>8, <1>9

LEMMA RestartInv == IInv /\ Restart => IInv'
<1> SUFFICES ASSUME IInv, Restart PROVE IInv'
  OBVIOUS
<1>1. Life \in Nat /\ OfLives(Life + 1) \in Nat
  <2>1. Life \in Nat
    BY CountedTypes DEF IInv, TypeOK, Versions
  <2> QED  BY <2>1, NextLife
<1>2. CASE tracker = 0
  <2>1. Resume(0, {}, 0) /\ 0 \in Versions
    BY <1>2 DEF Restart, IInv, TypeOK
  <2> QED  BY <1>1, <1>2, <2>1, ResumeInv DEF Restart
<1>3. CASE tracker # 0
  <2>1. /\ Resume(tracker, weights[tracker], position[tracker])
        /\ tracker \in Versions /\ position[tracker] \in Samples \cup {0}
        /\ weights[tracker] \subseteq 1 .. position[tracker]
        /\ position[tracker] <= OfLives(Life + 1)
    BY <1>3 DEF Restart, IInv, TypeOK, Contents, Counted
  <2> QED  BY <2>1, ResumeInv DEF Restart
<1> QED
  BY <1>2, <1>3

LEMMA StepInv == IInv /\ [Next]_vars => IInv'
<1> SUFFICES ASSUME IInv, [Next]_vars PROVE IInv'
  OBVIOUS
<1>1. CASE Job
  BY <1>1, FeedInv, TrainInv, BeginSaveInv, SkipSaveInv, SaveActorInv, SaveCriticInv,
     SaveDataInv, SaveTrackerInv, StopInv DEF Job
<1>2. CASE Crash \/ Restart
  BY <1>2, CrashInv, RestartInv
<1>3. CASE UNCHANGED vars
  <2>1. TypeOK' /\ Ordered' /\ Contents'
    BY <1>3 DEF vars, trainerVars, rollouterVars, diskVars, contentVars, IInv, TypeOK,
       Ordered, Contents
  <2>2. Counted'
    BY <1>3, CountedStays DEF vars, IInv, diskVars, contentVars
  <2> QED  BY <2>1, <2>2 DEF IInv
<1> QED
  BY <1>1, <1>2, <1>3 DEF Next

\* The invariant of training, checkpoints and restarts.
THEOREM Invariance == Spec => []IInv
BY InitInv, StepInv, PTL DEF Spec

\* Versions, samples and files keep to their types: no life of the job feeds
\* more than all samples of the training, or trains more than a version beyond.
THEOREM TypeCorrect == Spec => []TypeOK
<1>1. IInv => TypeOK
  BY DEF IInv
<1> QED
  BY <1>1, Invariance, PTL

\* However often the job crashes, wherever in a save, no sample is trained on
\* that the weights already know (save_checkpoint of the rollouter, the resume
\* of its dataloader).
THEOREM NoneTwice == Spec => []NoSampleTwice
<1>1. IInv => NoSampleTwice
  BY DEF IInv, Counted, NoSampleTwice
<1> QED
  BY <1>1, Invariance, PTL

-----------------------------------------------------------------------------
\* The tracked version is complete

\* Nothing that is kept is newer than the tracked version but the one being
\* saved, of which each part is complete once its step is over.
Files ==
  /\ pc # "down" =>
       \A role \in Roles : \A u \in kept[role] :
         u <= tracker \/ (u = version /\ pc \in {"critic", "data", "tracker"})
  /\ pc \in {"critic", "data", "tracker"} => disk[version]["actor"] = "complete"
  /\ pc \in {"data", "tracker"} => disk[version]["critic"] = "complete"
  /\ pc = "tracker" => disk[version]["data"] = "complete"

KeptInv == Files /\ TrackedComplete

\* The newest is always among the n newest, and the one before it if n > 1.
LEMMA NewestKeeps ==
  ASSUME NEW S \in SUBSET Nat, NEW t \in S, NEW w \in Nat, NEW n \in Nat \ {0},
         \A u \in S : u <= t \/ (u = w /\ n > 1)
  PROVE  t \in Newest(S, n)
<1> DEFINE N == {u \in S : u > t}
<1>1. CASE n > 1
  <2>0. t \in Nat /\ \A u \in S : u \in Nat /\ (u > t => u = w)
    OBVIOUS
  <2>1. N \in SUBSET {w}
    BY <2>0
  <2>2. IsFiniteSet({w}) /\ Cardinality({w}) = 1
    BY FS_Singleton
  <2>3. IsFiniteSet(N) /\ Cardinality(N) <= 1
    BY <2>1, <2>2, FS_Subset
  <2>4. Cardinality(N) \in Nat
    BY <2>3, FS_CardinalityType
  <2> QED  BY <1>1, <2>3, <2>4 DEF Newest
<1>2. CASE ~(n > 1)
  <2>0. t \in Nat /\ \A u \in S : u \in Nat /\ ~(u > t)
    BY <1>2
  <2>1. N = {}
    BY <2>0
  <2>2. Cardinality(N) = 0
    BY <2>1, FS_EmptySet
  <2> QED  BY <2>2 DEF Newest
<1> QED
  BY <1>1, <1>2

LEMMA CapacityKeeps ==
  ASSUME NEW S \in SUBSET Nat, NEW t \in Nat, \A u \in S : u <= t
  PROVE  t \notin S \ Capacity(S)
<1> SUFFICES ASSUME t \in S PROVE t \in Capacity(S)
  OBVIOUS
<1>1. CASE MaxKeep > 1 /\ Cardinality(S) >= MaxKeep
  <2>1. MaxKeep - 1 \in Nat \ {0}
    BY <1>1, CheckpointAssumption
  <2>2. t \in Newest(S, MaxKeep - 1)
    BY <2>1, NewestKeeps
  <2> QED  BY <1>1, <2>2 DEF Capacity
<1>2. CASE ~(MaxKeep > 1 /\ Cardinality(S) >= MaxKeep)
  BY <1>2 DEF Capacity
<1> QED
  BY <1>1, <1>2

LEMMA RegisteredKeeps ==
  ASSUME MaxKeep # 1, version \in Nat, NEW S \in SUBSET Nat, NEW t \in Nat, t < version,
         \A u \in S : u <= t \/ u = version
  PROVE  /\ t \notin (S \cup {version}) \ Registered(S)
         /\ version \notin (S \cup {version}) \ Registered(S)
<1> DEFINE T == S \cup {version}
<1>1. CASE MaxKeep > 0
  <2>1. MaxKeep \in Nat \ {0} /\ MaxKeep > 1 /\ T \in SUBSET Nat
    BY <1>1, CheckpointAssumption
  <2>2. \A u \in T : u <= version /\ (u <= t \/ u = version)
    OBVIOUS
  <2>3. version \in Newest(T, MaxKeep)
    BY <2>1, <2>2, NewestKeeps
  <2>4. t \in T => t \in Newest(T, MaxKeep)
    BY <2>1, <2>2, NewestKeeps
  <2> QED  BY <1>1, <2>3, <2>4 DEF Registered
<1>2. CASE ~(MaxKeep > 0)
  BY <1>2 DEF Registered
<1> QED
  BY <1>1, <1>2

LEMMA RotatedFiles ==
  ASSUME NEW d \in [Versions -> [Parts -> Status]], NEW role \in Roles, NEW old,
         NEW v \in Versions
  PROVE  /\ v \notin old => Removed(d, role, old)[v] = d[v]
         /\ \A part \in Parts : part # role => Removed(d, role, old)[v][part] = d[v][part]
BY DEF Removed

LEMMA WrittenFiles ==
  ASSUME NEW d \in [Versions -> [Parts -> Status]], NEW role \in Roles,
         kept[role] \in SUBSET Versions, version \in Versions, NEW v \in Versions,
         v # version, v \notin (kept[role] \cup {version}) \ Registered(kept[role])
  PROVE  /\ Written(role, d)[v] = d[v]
         /\ Written(role, d)[version][role] = "complete"
         /\ \A part \in Parts : part # role => Written(role, d)[version][part] = d[version][part]
<1> DEFINE old == (kept[role] \cup {version}) \ Registered(kept[role])
           r == Removed(d, role, old)
<1>1. /\ r[v] = d[v]
      /\ \A part \in Parts : part # role => r[version][part] = d[version][part]
  BY RotatedFiles
<1>2. r \in [Versions -> [Parts -> Status]]
  <2>1. old \in SUBSET Versions
    OBVIOUS
  <2> QED  BY <2>1, RotatedType
<1>3. Written(role, d) = [r EXCEPT ![version][role] = "complete"]
  BY DEF Written
<1> HIDE DEF r
<1>4. role \in Parts
  BY DEF Parts
<1> QED
  BY <1>1, <1>2, <1>3, <1>4

LEMMA OpenKept ==
  ASSUME IInv, KeptInv, saved < version, pc \in {"check", "train"}, Open("actor"), pc' = "actor",
         UNCHANGED <<version, tracker>>
  PROVE  KeptInv'
<1> USE DEF IInv, KeptInv
<1>1. /\ version \in Versions /\ tracker \in Versions /\ tracker < version /\ Versions \subseteq Nat
      /\ kept["actor"] \in SUBSET Versions /\ disk \in [Versions -> [Parts -> Status]]
      /\ "actor" \in Roles /\ kept \in [Roles -> SUBSET Versions]
  BY DEF TypeOK, Ordered, Roles, Versions
<1>2. \A role \in Roles : \A u \in kept[role] : u <= tracker
  BY DEF Files
<1> DEFINE old == kept["actor"] \ Capacity(kept["actor"])
<1>3. tracker \notin old
  <2>1. kept["actor"] \in SUBSET Nat /\ tracker \in Nat
    BY <1>1
  <2> QED  BY <1>1, <1>2, <2>1, CapacityKeeps
<1>4. Removed(disk, "actor", old)[tracker] = disk[tracker]
  BY <1>1, <1>3, RotatedFiles
<1>5. disk'[tracker] = disk[tracker]
  <2>1. Removed(disk, "actor", old) \in [Versions -> [Parts -> Status]]
    <3>1. old \in SUBSET Versions
      BY <1>1
    <3> QED  BY <1>1, <3>1, RotatedType
  <2>2. disk' = [Removed(disk, "actor", old) EXCEPT ![version]["actor"] = "partial"]
    BY DEF Open
  <2> HIDE DEF old
  <2> QED  BY <1>1, <1>4, <2>1, <2>2
<1>6. \A role \in Roles : kept'[role] \subseteq kept[role]
  BY <1>1, KeptType DEF Open
<1>7. Files'
  BY <1>2, <1>6 DEF Files
<1>8. TrackedComplete'
  BY <1>5 DEF TrackedComplete, Complete
<1> QED
  BY <1>7, <1>8

LEMMA SaveActorKept ==
  ASSUME MaxKeep # 1, IInv, KeptInv, SaveActor
  PROVE  KeptInv'
<1>1. /\ version \in Versions /\ tracker \in Versions /\ tracker < version /\ Versions \subseteq Nat
      /\ kept["actor"] \in SUBSET Versions /\ kept["critic"] \in SUBSET Versions
      /\ disk \in [Versions -> [Parts -> Status]]
      /\ "actor" \in Roles /\ "critic" \in Roles /\ "actor" \in Parts /\ "critic" \in Parts
  BY DEF IInv, TypeOK, Ordered, Roles, Parts, Versions, SaveActor, Saving
<1>2. /\ \A u \in kept["actor"] : u <= tracker
      /\ \A u \in kept["critic"] : u <= tracker
  BY <1>1 DEF KeptInv, Files, SaveActor
<1> DEFINE w == Written("actor", disk)
           old == kept["critic"] \ Capacity(kept["critic"])
           r == Removed(w, "critic", old)
<1>3. kept["actor"] \in SUBSET Nat /\ kept["critic"] \in SUBSET Nat /\ tracker \in Nat /\ version \in Nat
  BY <1>1
<1>4. tracker \notin (kept["actor"] \cup {version}) \ Registered(kept["actor"])
  BY <1>1, <1>2, <1>3, RegisteredKeeps
<1>5. tracker \notin old
  BY <1>2, <1>3, CapacityKeeps
<1>6. w[tracker] = disk[tracker] /\ w[version]["actor"] = "complete"
  BY <1>1, <1>4, WrittenFiles
<1>7. w \in [Versions -> [Parts -> Status]]
  BY <1>1, WrittenType
<1>8. r[tracker] = disk[tracker] /\ r[version]["actor"] = "complete"
  <2>1. "actor" # "critic"
    OBVIOUS
  <2> HIDE DEF w, old
  <2> QED  BY <1>1, <1>5, <1>6, <1>7, <2>1, RotatedFiles
<1>9. r \in [Versions -> [Parts -> Status]]
  <2>1. old \in SUBSET Versions
    BY <1>1
  <2> HIDE DEF w
  <2> QED  BY <1>1, <1>7, <2>1, RotatedType
<1>10. disk' = [r EXCEPT ![version]["critic"] = "partial"]
  BY DEF SaveActor
<1>11. disk'[tracker] = disk[tracker] /\ disk'[version]["actor"] = "complete"
  <2> HIDE DEF r
  <2> QED  BY <1>1, <1>8, <1>9, <1>10
<1>12. /\ kept'["actor"] \subseteq kept["actor"] \cup {version}
       /\ kept'["critic"] \subseteq kept["critic"]
  BY <1>1, KeptType DEF SaveActor
<1>13. Files'
  BY <1>2, <1>11, <1>12 DEF Files, SaveActor, trainerVars, Roles
<1>14. TrackedComplete'
  BY <1>11 DEF KeptInv, TrackedComplete, Complete, SaveActor
<1> QED
  BY <1>13, <1>14 DEF KeptInv

LEMMA SaveCriticKept ==
  ASSUME MaxKeep # 1, IInv, KeptInv, SaveCritic
  PROVE  KeptInv'
<1>1. /\ version \in Versions /\ tracker \in Versions /\ tracker < version /\ Versions \subseteq Nat
      /\ kept["critic"] \in SUBSET Versions /\ disk \in [Versions -> [Parts -> Status]]
      /\ "critic" \in Roles /\ "critic" \in Parts /\ "actor" \in Parts /\ "data" \in Parts
  BY DEF IInv, TypeOK, Ordered, Roles, Parts, Versions, SaveCritic, Saving
<1>2. \A u \in kept["critic"] : u <= tracker \/ u = version
  BY <1>1 DEF KeptInv, Files, SaveCritic
<1>3. disk[version]["actor"] = "complete"
  BY DEF KeptInv, Files, SaveCritic
<1> DEFINE w == Written("critic", disk)
<1>4. tracker \notin (kept["critic"] \cup {version}) \ Registered(kept["critic"])
  <2>1. kept["critic"] \in SUBSET Nat /\ tracker \in Nat /\ version \in Nat
    BY <1>1
  <2> QED  BY <1>1, <1>2, <2>1, RegisteredKeeps
<1>5. /\ w[tracker] = disk[tracker] /\ w[version]["critic"] = "complete"
      /\ w[version]["actor"] = "complete" /\ w \in [Versions -> [Parts -> Status]]
  <2>1. w \in [Versions -> [Parts -> Status]]
    BY <1>1, WrittenType
  <2>2. tracker # version
    BY <1>1
  <2>3. /\ w[tracker] = disk[tracker] /\ w[version]["critic"] = "complete"
        /\ \A part \in Parts : part # "critic" => w[version][part] = disk[version][part]
    BY <1>1, <1>4, <2>2, WrittenFiles
  <2>4. w[version]["actor"] = "complete"
    <3>1. "actor" # "critic"
      OBVIOUS
    <3> HIDE DEF w
    <3> QED  BY <1>1, <1>3, <2>3, <3>1
  <2> QED  BY <2>1, <2>3, <2>4
<1>6. disk' = [w EXCEPT ![version]["data"] = "partial"]
  BY DEF SaveCritic
<1>7. disk'[tracker] = disk[tracker] /\ disk'[version]["actor"] = "complete"
      /\ disk'[version]["critic"] = "complete"
  <2> HIDE DEF w
  <2> QED  BY <1>1, <1>5, <1>6
<1>8. /\ kept'["critic"] \subseteq kept["critic"] \cup {version}
      /\ kept'["actor"] = kept["actor"]
  BY <1>1, KeptType DEF SaveCritic, IInv, TypeOK, Roles
<1>9. Files'
  BY <1>2, <1>7, <1>8 DEF KeptInv, Files, SaveCritic, trainerVars, Roles
<1>10. TrackedComplete'
  BY <1>7 DEF KeptInv, TrackedComplete, Complete, SaveCritic
<1> QED
  BY <1>9, <1>10 DEF KeptInv

LEMMA SaveDataKept == IInv /\ KeptInv /\ SaveData => KeptInv'
<1> SUFFICES ASSUME IInv, KeptInv, SaveData PROVE KeptInv'
  OBVIOUS
<1>0. pc = "data"
  BY DEF SaveData
<1>a. version \in Versions /\ tracker \in Versions /\ disk \in [Versions -> [Parts -> Status]]
  BY DEF IInv, TypeOK
<1>b. tracker < version
  BY <1>0, <1>a DEF IInv, Ordered, Versions, Saving
<1>1. /\ version \in Versions /\ tracker \in Versions /\ tracker < version /\ Versions \subseteq Nat
      /\ disk \in [Versions -> [Parts -> Status]] /\ "data" \in Parts
  <2>1. Versions \subseteq Nat
    BY DEF Versions
  <2>2. "data" \in Parts
    BY DEF Parts
  <2> QED  BY <1>a, <1>b, <2>1, <2>2
<1> USE DEF KeptInv, SaveData, trainerVars
<1>2. /\ disk'[tracker] = disk[tracker] /\ disk'[version]["data"] = "complete"
      /\ disk'[version]["actor"] = disk[version]["actor"]
      /\ disk'[version]["critic"] = disk[version]["critic"]
  BY <1>1 DEF Parts, Roles
<1>3. Files'
  BY <1>2 DEF Files
<1>4. TrackedComplete'
  BY <1>2 DEF TrackedComplete, Complete
<1> QED
  BY <1>3, <1>4

LEMMA SaveTrackerKept == IInv /\ KeptInv /\ SaveTracker => KeptInv'
<1> SUFFICES ASSUME IInv, KeptInv, SaveTracker PROVE KeptInv'
  OBVIOUS
<1> USE DEF KeptInv, SaveTracker
<1>1. /\ tracker < version /\ tracker \in Nat /\ version \in Nat
      /\ \A role \in Roles : kept[role] \subseteq Nat
  BY DEF IInv, TypeOK, Ordered, Versions, Saving
<1>2. \A role \in Roles : \A u \in kept[role] : u <= version
  BY <1>1 DEF Files
<1>3. Files'
  BY <1>2 DEF Files
<1>4. TrackedComplete'
  BY DEF Files, TrackedComplete, Complete, Parts, Roles
<1> QED
  BY <1>3, <1>4

LEMMA StepKept ==
  ASSUME MaxKeep # 1, IInv, KeptInv, [Next]_vars
  PROVE  KeptInv'
<1>1. CASE Feed \/ Train \/ SkipSave
  BY <1>1 DEF Feed, Train, SkipSave, diskVars, trainerVars, KeptInv, Files, TrackedComplete, Complete
<1>2. CASE BeginSave
  <2>1. saved < version
    BY <1>2 DEF BeginSave, Due, IInv, Ordered, TypeOK, Versions
  <2> QED  BY <1>2, <2>1, OpenKept DEF BeginSave, trainerVars
<1>3. CASE SaveActor
  BY <1>3, SaveActorKept
<1>4. CASE SaveCritic
  BY <1>4, SaveCriticKept
<1>5. CASE SaveData \/ SaveTracker
  BY <1>5, SaveDataKept, SaveTrackerKept
<1>6. CASE Stop
  <2>1. CASE saved = version
    BY <1>6, <2>1 DEF Stop, trainerVars, KeptInv, Files, TrackedComplete, Complete
  <2>2. CASE saved # version
    <3>1. saved < version
      BY <2>2 DEF IInv, Ordered, TypeOK, Versions
    <3> QED  BY <1>6, <2>2, <3>1, OpenKept DEF Stop, trainerVars
  <2> QED  BY <2>1, <2>2
<1>7. CASE Crash
  BY <1>7 DEF Crash, diskVars, KeptInv, Files, TrackedComplete, Complete
<1>8. CASE Restart
  <2>1. pc' = "train" /\ kept' = [role \in Roles |-> {}]
    BY <1>8 DEF Restart, Resume
  <2> QED  BY <1>8, <2>1 DEF Restart, KeptInv, Files, TrackedComplete, Complete
<1>9. CASE UNCHANGED vars
  BY <1>9 DEF vars, diskVars, trainerVars, KeptInv, Files, TrackedComplete, Complete
<1> QED
  BY <1>1, <1>2, <1>3, <1>4, <1>5, <1>6, <1>7, <1>8, <1>9 DEF Next, Job

\* Unless a single checkpoint is kept, the version the tracker names is complete
\* whenever the job dies: neither ensure_checkpoint_capacity nor
\* register_checkpoint removes it, nor does a later save write into it.
THEOREM TrackedStaysComplete ==
  ASSUME MaxKeep # 1
  PROVE  Spec => []TrackedComplete
<1>1. Init => KeptInv
  BY DEF Init, KeptInv, Files, TrackedComplete
<1>2. IInv /\ KeptInv /\ [Next]_vars => KeptInv'
  BY StepKept
<1>3. KeptInv => TrackedComplete
  BY DEF KeptInv
<1> QED
  BY <1>1, <1>2, <1>3, Invariance, PTL DEF Spec

-----------------------------------------------------------------------------
\* The snapshot

LEMMA DurableStays ==
  ASSUME UNCHANGED <<weights, position, tracker>>
  PROVE  Durable' = Durable
BY DEF Durable

LEMMA InitSnapshot == Init => Abstract!Init
BY DEF Init, Abstract!Init, Abstract!Fresh, Durable

LEMMA StepSnapshot == IInv /\ [Next]_vars => [Abstract!Next]_(Abstract!vars)
<1> SUFFICES ASSUME IInv, [Next]_vars PROVE [Abstract!Next]_(Abstract!vars)
  OBVIOUS
<1> USE DEF IInv, Abstract!Next, Abstract!vars
<1>1. CASE Feed
  BY <1>1, DurableStays DEF Feed, Abstract!Feed, trainerVars, diskVars, contentVars
<1>2. CASE Train
  <2>1. PICK S \in SUBSET flight : learned' = learned \cup S
    BY <1>2 DEF Train
  <2>2. S \in SUBSET ((1 .. fed) \ learned)
    BY <2>1 DEF Counted
  <2>3. version' \in {version, version + 1} /\ UNCHANGED fed
    BY <1>2 DEF Train
  <2>4. Durable' = Durable
    BY <1>2, DurableStays DEF Train, diskVars, contentVars
  <2> QED  BY <2>1, <2>2, <2>3, <2>4 DEF Abstract!Learn
<1>3. CASE BeginSave \/ SkipSave \/ SaveCritic \/ Stop \/ Crash \/ UNCHANGED vars
  BY <1>3, DurableStays DEF BeginSave, SkipSave, SaveCritic, Stop, Crash, vars, trainerVars,
     rollouterVars, diskVars, contentVars
<1>4. CASE SaveActor
  <2>1. tracker # version /\ tracker \in Versions /\ weights' = [weights EXCEPT ![version] = learned]
    BY <1>4 DEF SaveActor, Ordered, Saving, TypeOK, Versions
  <2>2. Durable' = Durable
    BY <1>4, <2>1 DEF Durable, SaveActor, TypeOK
  <2> QED  BY <1>4, <2>2 DEF SaveActor, trainerVars, rollouterVars
<1>5. CASE SaveData
  <2>1. tracker # version /\ tracker \in Versions /\ position' = [position EXCEPT ![version] = fed]
    BY <1>5 DEF SaveData, Position, Ordered, Saving, TypeOK, Versions
  <2>2. Durable' = Durable
    BY <1>5, <2>1 DEF Durable, SaveData, TypeOK
  <2> QED  BY <1>5, <2>2 DEF SaveData, trainerVars, rollouterVars
<1>6. CASE SaveTracker
  <2>1. version # 0 /\ version \in Versions
    BY <1>6 DEF SaveTracker, Ordered, Saving, TypeOK, Versions
  <2>2. Durable' = [version |-> version, learned |-> learned, fed |-> position[version]]
    BY <1>6, <2>1 DEF SaveTracker, Contents, Durable, contentVars
  <2>3. position[version] \in 0 .. fed /\ learned \subseteq 1 .. position[version]
    BY <1>6, <2>1, PositionNat DEF SaveTracker, Contents, Counted
  <2> QED  BY <1>6, <2>2, <2>3 DEF SaveTracker, Abstract!Save, rollouterVars
<1>7. CASE Restart
  <2>1. Durable' = Durable
    BY <1>7, DurableStays DEF Restart, contentVars
  <2>2. version' = Durable.version /\ learned' = Durable.learned /\ fed' = Durable.fed
    BY <1>7 DEF Restart, Resume, Durable
  <2> QED  BY <2>1, <2>2 DEF Abstract!Restart
<1> QED
  BY <1>1, <1>2, <1>3, <1>4, <1>5, <1>6, <1>7 DEF Next, Job

\* The folders, the tracker file and the lives of the job implement one durable
\* snapshot that is replaced as a whole, and that a restart goes back to.
THEOREM SnapshotImplemented == Spec => ImplementsSnapshot
<1>1. Init => Abstract!Init
  BY InitSnapshot
<1>2. IInv /\ [Next]_vars => [Abstract!Next]_(Abstract!vars)
  BY StepSnapshot
<1> QED
  BY <1>1, <1>2, Invariance, PTL DEF Spec, ImplementsSnapshot, Abstract!Spec

=============================================================================
