------------------------- MODULE WeightSync_proofs -------------------------
(***************************************************************************)
(* Proof that the tokens of one call come from one version of the weights  *)
(* (OneVersionPerCall), for any replicas, conversations and versions.      *)
(***************************************************************************)
EXTENDS WeightSync, SequenceTheorems, TLAPS

-----------------------------------------------------------------------------
\* The program of the trainer, step by step

LEMMA ProgramSteps ==
  /\ Len(Sync) = 3 /\ Len(Program) = 16
  /\ Program[1] = Op("abort", Standalone) /\ Program[2] = Op("load", Standalone)
  /\ Program[3] = Op("resume", Standalone)
  /\ Program[4] = Op("load", Hybrid)
  /\ Program[5] = Op("abort", Standalone) /\ Program[6] = Op("abort", Hybrid)
  /\ Program[7] = Op("add", Hybrid)
  /\ Program[8] = Op("resume", Standalone) /\ Program[9] = Op("resume", Hybrid)
  /\ Program[10] = Op("validate", {})
  /\ Program[11] = Op("abort", Standalone) /\ Program[12] = Op("abort", Hybrid)
  /\ Program[13] = Op("remove", Hybrid) /\ Program[14] = Op("sleep", Hybrid)
  /\ Program[15] = Op("resume", Standalone) /\ Program[16] = Op("resume", Hybrid)
<1> DEFINE Ops == {Op("abort", Standalone), Op("load", Standalone), Op("resume", Standalone),
                   Op("abort", Hybrid), Op("load", Hybrid), Op("resume", Hybrid),
                   Op("add", Hybrid), Op("remove", Hybrid), Op("sleep", Hybrid),
                   Op("validate", {})}
<1>1. Sync \in Seq(Ops) /\ Validation \in Seq(Ops)
  BY DEF Sync, Validation
<1> HIDE DEF Ops
<1>2. Len(Sync) = 3 /\ Len(Validation) = 13
  BY DEF Sync, Validation
<1>3. /\ Len(Program) = Len(Sync) + Len(Validation)
      /\ \A i \in 1 .. Len(Sync) + Len(Validation) :
           Program[i] = IF i <= Len(Sync) THEN Sync[i] ELSE Validation[i - Len(Sync)]
  BY <1>1, ConcatProperties DEF Program
<1>4. /\ Len(Program) = 16
      /\ \A i \in 1 .. 3 : Program[i] = Sync[i]
      /\ \A i \in 4 .. 16 : Program[i] = Validation[i - 3]
  BY <1>2, <1>3
<1>5. Program[1] = Sync[1] /\ Program[2] = Sync[2] /\ Program[3] = Sync[3]
  BY <1>4
<1>6. /\ Program[4] = Validation[1] /\ Program[5] = Validation[2] /\ Program[6] = Validation[3]
      /\ Program[7] = Validation[4] /\ Program[8] = Validation[5] /\ Program[9] = Validation[6]
      /\ Program[10] = Validation[7] /\ Program[11] = Validation[8] /\ Program[12] = Validation[9]
      /\ Program[13] = Validation[10] /\ Program[14] = Validation[11]
      /\ Program[15] = Validation[12] /\ Program[16] = Validation[13]
  BY <1>4
<1> QED
  BY <1>2, <1>4, <1>5, <1>6 DEF Sync, Validation

LEMMA DoingSteps ==
  ASSUME pc \in 0 .. 16
  PROVE  /\ Doing("abort") => pc \in {1, 5, 6, 11, 12}
         /\ Doing("load") => pc \in {2, 4}
         /\ Doing("resume") => pc \in {3, 8, 9, 15, 16}
         /\ Doing("sleep") => pc = 14
         /\ Doing("add") => pc = 7
         /\ Doing("remove") => pc = 13
BY ProgramSteps DEF Doing, Op

LEMMA Targets ==
  ASSUME NEW i \in 1 .. 16
  PROVE  /\ Program[i].targets = IF i \in {1, 2, 3, 5, 8, 11, 15} THEN Standalone
                                 ELSE IF i = 10 THEN {} ELSE Hybrid
         /\ Program[i].targets \subseteq Servers
<1>1. Program[i].targets = IF i \in {1, 2, 3, 5, 8, 11, 15} THEN Standalone
                           ELSE IF i = 10 THEN {} ELSE Hybrid
  BY ProgramSteps DEF Op
<1> QED
  BY <1>1 DEF Servers

LEMMA AfterSteps ==
  ASSUME pc \in 1 .. 16
  PROVE  \/ After(pc) = 0 /\ pc \in {3, 16}
         \/ After(pc) = pc + 1 /\ After(pc) \in 2 .. 16
BY ProgramSteps DEF After

-----------------------------------------------------------------------------
\* The inductive invariant

\* What the steps before this one have done to the replicas.
Stage ==
  /\ pc = 0 => left = {}
  /\ pc # 0 => left \subseteq Program[pc].targets
  /\ pc \in {7, 13} => left \in {{}, Hybrid}
  /\ unstamped # {} => pc \in {2, 4}
  /\ unstamped \cap left = {}
  /\ unstamped \subseteq IF pc = 2 THEN Standalone ELSE Hybrid
  /\ pc = 1 => Standalone \ left \subseteq paused
  /\ pc = 2 => Standalone \subseteq paused
  /\ pc \in {0, 1, 2, 3, 15, 16} => Hybrid \subseteq asleep
  /\ pc = 4 => left \cup unstamped \subseteq asleep
  /\ pc = 12 => Hybrid \ left \subseteq paused
  /\ pc \in {13, 14} => Hybrid \subseteq paused
  /\ pc = 14 => Hybrid \ left \subseteq asleep

\* Weights and global_steps of a server differ only while it is being loaded.
Stamping ==
  \A s \in Servers : weights[s] = IF s \in unstamped THEN version ELSE steps[s]

\* No call runs at a paused engine, none gets a token from one that sleeps.
Running ==
  \A r \in Requests : call[r] = "running" =>
    /\ at[r] \notin paused
    /\ at[r] \in asleep => fresh[r] = {}

Answering == \A r \in Requests : call[r] = "answered" => answer[r] \in Answers

IInv == TypeOK /\ Stage /\ Stamping /\ Running /\ Answering /\ OneVersionPerCall

-----------------------------------------------------------------------------
LEMMA InitInv == Init => IInv
<1> SUFFICES ASSUME Init PROVE IInv
  OBVIOUS
<1> USE WeightSyncAssumption DEF Init
<1>1. TypeOK
  BY ProgramSteps DEF TypeOK, Servers, Versions, Calls, Stamp
<1>2. Stage
  BY DEF Stage
<1>3. Stamping /\ Running /\ Answering /\ OneVersionPerCall
  BY DEF Stamping, Running, Answering, OneVersionPerCall
<1> QED
  BY <1>1, <1>2, <1>3 DEF IInv

-----------------------------------------------------------------------------
\* The trainer

LEMMA TrainInv == IInv /\ Train => IInv'
<1> SUFFICES ASSUME IInv, Train PROVE IInv'
  OBVIOUS
<1> USE DEF IInv, Train, serverVars, callVars, stampVars
<1>1. TypeOK'
  BY WeightSyncAssumption, ProgramSteps DEF TypeOK, Versions, Op, Servers
<1>2. Stage'
  BY ProgramSteps DEF Stage, Op
<1>3. Stamping' /\ Running' /\ Answering' /\ OneVersionPerCall'
  BY DEF Stage, Stamping, Running, Answering, OneVersionPerCall
<1> QED
  BY <1>1, <1>2, <1>3

LEMMA StepDoneInv == IInv /\ StepDone => IInv'
<1> SUFFICES ASSUME IInv, StepDone PROVE IInv'
  OBVIOUS
<1> USE DEF IInv, StepDone, serverVars, callVars, stampVars
<1>1. pc \in 1 .. 16
  BY ProgramSteps DEF TypeOK
<1>2. /\ pc' \in 0 .. 16 /\ ((pc' = 0 /\ pc \in {3, 16}) \/ pc' = pc + 1)
      /\ pc' # 0 => left' = IF pc' \in {1, 2, 3, 5, 8, 11, 15} THEN Standalone
                          ELSE IF pc' = 10 THEN {} ELSE Hybrid
      /\ pc' # 0 => left' \subseteq Servers /\ left' = Program[pc'].targets
  <2>1. pc' \in 0 .. 16 /\ ((pc' = 0 /\ pc \in {3, 16}) \/ pc' = pc + 1)
    BY <1>1, AfterSteps
  <2>2. pc' # 0 => left' = Program[pc'].targets
    OBVIOUS
  <2>3. ASSUME pc' # 0
        PROVE  /\ Program[pc'].targets = IF pc' \in {1, 2, 3, 5, 8, 11, 15} THEN Standalone
                                         ELSE IF pc' = 10 THEN {} ELSE Hybrid
               /\ Program[pc'].targets \subseteq Servers
    <3>1. pc' \in 1 .. 16
      BY <2>1, <2>3
    <3> QED  BY <3>1, Targets
  <2> QED  BY <2>1, <2>2, <2>3
<1>3. TypeOK'
  BY <1>2, ProgramSteps DEF TypeOK
<1>4. Stage'
  BY <1>1, <1>2 DEF Stage
<1>5. Stamping' /\ Running' /\ Answering' /\ OneVersionPerCall'
  BY DEF Stamping, Running, Answering, OneVersionPerCall
<1> QED
  BY <1>3, <1>4, <1>5

LEMMA LeftTargets ==
  ASSUME IInv, pc # 0
  PROVE  /\ pc \in 1 .. 16 /\ left \subseteq Servers
         /\ left \subseteq IF pc \in {1, 2, 3, 5, 8, 11, 15} THEN Standalone
                         ELSE IF pc = 10 THEN {} ELSE Hybrid
         /\ Standalone \cap Hybrid = {}
BY Targets, ProgramSteps, WeightSyncAssumption DEF IInv, TypeOK, Stage

LEMMA AbortInv ==
  ASSUME IInv, NEW s \in Servers, Abort(s)
  PROVE  IInv'
<1> USE DEF IInv, Abort, stampVars
<1>1. pc \in {1, 5, 6, 11, 12} /\ pc # 0
  BY ProgramSteps, DoingSteps DEF TypeOK
<1>2. DEFINE cut == {r \in At(s) : call[r] = "running"}
<1>3. PICK given \in [cut -> UNION {AbortedAnswers(r) : r \in cut}] :
        /\ \A r \in cut : given[r] \in AbortedAnswers(r)
        /\ answer' = [r \in Requests |-> IF r \in cut THEN given[r] ELSE answer[r]]
  OBVIOUS
<1>4. /\ call' = [r \in Requests |-> IF r \in cut THEN "answered" ELSE call[r]]
      /\ cut \subseteq Requests /\ \A r \in cut : at[r] = s /\ call[r] = "running"
      /\ \A r \in Requests \ cut : call[r] = "running" => at[r] # s
  BY DEF At
<1>5. \A r \in cut : given[r] \in Answers
  <2> SUFFICES ASSUME NEW r \in cut PROVE given[r] \in Answers
    OBVIOUS
  <2>1. fresh[r] \in SUBSET Versions /\ steps[at[r]] \in Stamp
    BY <1>4 DEF TypeOK, Stamp
  <2>2. AbortedAnswers(r) \subseteq Answers
    BY <2>1 DEF AbortedAnswers, Answers, Stamp
  <2> QED  BY <1>3, <2>2
<1> HIDE DEF cut
<1>6. TypeOK'
  <2>1. /\ answer' \in [Requests -> Answers \cup {None}] /\ call' \in [Requests -> Calls]
        /\ \A r \in Requests : (at[r] = None) <=> (call'[r] \in {"idle", "retry"})
    BY <1>3, <1>4, <1>5 DEF TypeOK, Calls
  <2> QED  BY <2>1 DEF TypeOK
<1>7. Stage'
  BY <1>1, LeftTargets DEF Stage
<1>8. Running'
  BY <1>4 DEF Running
<1>9. Answering'
  BY <1>3, <1>4, <1>5 DEF Answering
<1>10. Stamping' /\ OneVersionPerCall'
  BY <1>4 DEF Stamping, OneVersionPerCall
<1> QED
  BY <1>6, <1>7, <1>8, <1>9, <1>10

LEMMA LoadWeightsInv ==
  ASSUME IInv, NEW s \in Servers, LoadWeights(s)
  PROVE  IInv'
<1> USE DEF IInv, LoadWeights, Loaded, callVars, stampVars
<1>1. pc \in {2, 4} /\ pc # 0
  BY ProgramSteps, DoingSteps DEF TypeOK
<1>2. TypeOK'
  BY DEF TypeOK
<1>3. Stage'
  BY <1>1, LeftTargets DEF Stage
<1>4. Stamping'
  BY DEF Stamping, TypeOK
<1>5. Running' /\ Answering' /\ OneVersionPerCall'
  BY DEF Running, Answering, OneVersionPerCall
<1> QED
  BY <1>2, <1>3, <1>4, <1>5

LEMMA SetGlobalStepsInv ==
  ASSUME IInv, NEW s \in Servers, SetGlobalSteps(s)
  PROVE  IInv'
<1> USE DEF IInv, SetGlobalSteps, callVars, stampVars
<1>1. pc \in {2, 4} /\ pc # 0
  BY DEF Stage
<1>2. TypeOK'
  BY DEF TypeOK
<1>3. Stage'
  BY <1>1, LeftTargets, WeightSyncAssumption DEF Stage
<1>4. Stamping'
  BY DEF Stamping, TypeOK
<1>5. \A r \in Requests : call[r] = "running" /\ at[r] = s => fresh[r] = {}
  BY <1>1 DEF Running, Stage
<1>6. Running' /\ Answering'
  BY DEF Running, Answering
<1>7. OneVersionPerCall'
  BY <1>5 DEF OneVersionPerCall, TypeOK
<1> QED
  BY <1>2, <1>3, <1>4, <1>6, <1>7

LEMMA SwitchInv ==
  ASSUME IInv, NEW s \in Servers, Switch(s)
  PROVE  IInv'
<1> USE DEF IInv, Switch, callVars, stampVars
<1>1. pc \in {3, 8, 9, 15, 16, 14} /\ pc # 0
  BY ProgramSteps, DoingSteps DEF TypeOK
<1>2. Doing("sleep") => pc = 14
  BY ProgramSteps, DoingSteps DEF TypeOK
<1>3. Doing("resume") => pc # 14
  BY ProgramSteps, DoingSteps DEF TypeOK
<1>4. TypeOK'
  BY <1>1, <1>2, LeftTargets DEF TypeOK
<1>5. Stage'
  BY <1>1, <1>2, <1>3, LeftTargets DEF Stage
<1>6. asleep' # asleep => s \in paused
  BY <1>2, LeftTargets DEF Stage
<1>7. Running'
  BY <1>6 DEF Running
<1>8. Stamping' /\ Answering' /\ OneVersionPerCall'
  BY DEF Stamping, Answering, OneVersionPerCall
<1> QED
  BY <1>4, <1>5, <1>7, <1>8

LEMMA ChangePoolInv == IInv /\ ChangePool => IInv'
<1> SUFFICES ASSUME IInv, ChangePool PROVE IInv'
  OBVIOUS
<1> USE DEF IInv, ChangePool, callVars, stampVars
<1>1. pc \in {7, 13} /\ left = Hybrid
  BY ProgramSteps, DoingSteps DEF TypeOK, Stage
<1>2. TypeOK'
  <2>1. pool' \in {Standalone, Servers} /\ left' = {}
    <3>1. pool \in {Standalone, Servers}
      BY DEF TypeOK
    <3>2. pool' = pool \cup Hybrid \/ pool' = pool \ Hybrid
      BY <1>1
    <3>3. CASE pool' = pool \cup Hybrid
      BY <3>1, <3>3 DEF Servers
    <3>4. CASE pool' = pool \ Hybrid
      BY <3>1, <3>4, WeightSyncAssumption DEF Servers
    <3> QED
      BY <3>2, <3>3, <3>4
  <2>2. UNCHANGED <<version, pc, unstamped, weights, steps, paused, asleep, callVars, stampVars>>
    OBVIOUS
  <2> QED
    BY <2>1, <2>2 DEF TypeOK
<1>3. Stage'
  BY <1>1 DEF Stage
<1>4. Stamping' /\ Running' /\ Answering' /\ OneVersionPerCall'
  BY DEF Stamping, Running, Answering, OneVersionPerCall
<1> QED
  BY <1>2, <1>3, <1>4

-----------------------------------------------------------------------------
\* A conversation

LEMMA AcquireInv ==
  ASSUME IInv, NEW r \in Requests, Acquire(r)
  PROVE  IInv'
<1> USE DEF IInv, Acquire, trainerVars, serverVars, stampVars
<1>1. PICK s \in IF route[r] \in pool THEN {route[r]} ELSE pool :
        route' = [route EXCEPT ![r] = s] /\ at' = [at EXCEPT ![r] = s]
  OBVIOUS
<1>2. s \in Servers /\ s # None
  BY WeightSyncAssumption DEF TypeOK, Servers
<1>3. TypeOK'
  BY <1>1, <1>2 DEF TypeOK, Calls
<1>4. Stage' /\ Stamping'
  BY DEF Stage, Stamping
<1>5. Running' /\ Answering' /\ OneVersionPerCall'
  BY <1>1 DEF Running, Answering, OneVersionPerCall, TypeOK
<1> QED
  BY <1>3, <1>4, <1>5

LEMMA StartInv ==
  ASSUME IInv, NEW r \in Requests, Start(r)
  PROVE  IInv'
<1> USE DEF IInv, Start, trainerVars, serverVars, stampVars
<1>1. TypeOK'
  BY DEF TypeOK, Calls
<1>2. Stage' /\ Stamping'
  BY DEF Stage, Stamping
<1>3. Running' /\ Answering' /\ OneVersionPerCall'
  BY DEF Running, Answering, OneVersionPerCall, TypeOK
<1> QED
  BY <1>1, <1>2, <1>3

LEMMA DecodeInv ==
  ASSUME IInv, NEW r \in Requests, Decode(r)
  PROVE  IInv'
<1> USE DEF IInv, Decode, trainerVars, serverVars, stampVars
<1>1. at[r] \in Servers
  BY DEF TypeOK
<1>2. TypeOK'
  BY <1>1 DEF TypeOK
<1>3. Stage' /\ Stamping'
  BY DEF Stage, Stamping
<1>4. at[r] \notin unstamped
  BY DEF Stage, Running
<1>5. weights[at[r]] = steps[at[r]]
  BY <1>1, <1>4 DEF Stamping
<1>6. Running' /\ Answering' /\ OneVersionPerCall'
  BY <1>5 DEF Running, Answering, OneVersionPerCall, TypeOK
<1> QED
  BY <1>2, <1>3, <1>6

LEMMA CompleteInv ==
  ASSUME IInv, NEW r \in Requests, Complete(r)
  PROVE  IInv'
<1> USE DEF IInv, Complete, trainerVars, serverVars, stampVars
<1>1. [tokens |-> fresh[r], steps |-> steps[at[r]], aborted |-> FALSE] \in Answers
  BY DEF TypeOK, Answers, Stamp
<1>2. TypeOK'
  BY <1>1 DEF TypeOK, Calls
<1>3. Stage' /\ Stamping'
  BY DEF Stage, Stamping
<1>4. Running' /\ Answering' /\ OneVersionPerCall'
  BY <1>1 DEF Running, Answering, OneVersionPerCall, TypeOK
<1> QED
  BY <1>2, <1>3, <1>4

LEMMA TakeInv ==
  ASSUME IInv, NEW r \in Requests, Take(r),
         call' \in {[call EXCEPT ![r] = "retry"], [call EXCEPT ![r] = "idle"]},
         lo' \in [Requests -> Stamp],
         stamps' \in [Requests -> [min : Stamp, max : Stamp] \cup {None}]
  PROVE  IInv'
<1> USE DEF IInv, Take, trainerVars, serverVars
<1>1. answer[r] \in Answers
  BY DEF Answering
<1>2. TypeOK'
  BY <1>1 DEF TypeOK, Calls, Answers
<1>3. Stage' /\ Stamping'
  BY DEF Stage, Stamping
<1>4. Running' /\ Answering' /\ OneVersionPerCall'
  BY DEF Running, Answering, OneVersionPerCall, TypeOK
<1> QED
  BY <1>2, <1>3, <1>4

LEMMA RetryInv ==
  ASSUME IInv, NEW r \in Requests, Retry(r)
  PROVE  IInv'
<1>1. Minimum(r) \in Stamp
  BY DEF IInv, Retry, Take, Answering, Answers, Minimum, TypeOK
<1>2. lo' \in [Requests -> Stamp] /\ stamps' = stamps
  BY <1>1 DEF IInv, Retry, TypeOK
<1> QED
  BY <1>2, TakeInv DEF IInv, Retry, TypeOK

LEMMA ReturnInv ==
  ASSUME IInv, NEW r \in Requests, Return(r)
  PROVE  IInv'
<1>1. Minimum(r) \in Stamp /\ answer[r].steps \in Stamp
  BY DEF IInv, Return, Take, Answering, Answers, Minimum, TypeOK
<1>2. Stamped(r) \in [min : Stamp, max : Stamp] \cup {None}
  BY <1>1 DEF Stamped, IInv, TypeOK
<1>3. /\ lo' \in [Requests -> Stamp]
      /\ stamps' \in [Requests -> [min : Stamp, max : Stamp] \cup {None}]
  BY <1>2 DEF IInv, Return, TypeOK, Stamp
<1> QED
  BY <1>3, TakeInv DEF Return

LEMMA NewConversationInv ==
  ASSUME IInv, NEW r \in Requests, NewConversation(r)
  PROVE  IInv'
<1> USE DEF IInv, NewConversation, trainerVars, serverVars
<1>1. TypeOK'
  BY DEF TypeOK
<1>2. Stage' /\ Stamping'
  BY DEF Stage, Stamping
<1>3. Running' /\ Answering' /\ OneVersionPerCall'
  BY DEF Running, Answering, OneVersionPerCall
<1> QED
  BY <1>1, <1>2, <1>3

-----------------------------------------------------------------------------
LEMMA StepInv == IInv /\ [Next]_vars => IInv'
<1> SUFFICES ASSUME IInv, [Next]_vars PROVE IInv'
  OBVIOUS
<1>1. CASE Train
  BY <1>1, TrainInv
<1>2. CASE TrainerStep
  BY <1>2, StepDoneInv, ChangePoolInv, AbortInv, LoadWeightsInv, SetGlobalStepsInv, SwitchInv
  DEF TrainerStep
<1>3. ASSUME NEW r \in Requests, Acquire(r) \/ CallStep(r) \/ NewConversation(r)
      PROVE  IInv'
  BY <1>3, AcquireInv, StartInv, DecodeInv, CompleteInv, RetryInv, ReturnInv,
     NewConversationInv DEF CallStep
<1>4. CASE UNCHANGED vars
  BY <1>4 DEF vars, trainerVars, serverVars, callVars, stampVars, IInv, TypeOK, Stage,
     Stamping, Running, Answering, OneVersionPerCall
<1> QED
  BY <1>1, <1>2, <1>3, <1>4 DEF Next

\* The invariant of trainer, replicas and conversations through update_weights
\* and the trainer-side validation.
THEOREM Invariance == Spec => []IInv
BY InitInv, StepInv, PTL DEF Spec

\* Versions, stamps and the places of calls and replicas keep to their types.
THEOREM TypeCorrect == Spec => []TypeOK
<1>1. IInv => TypeOK
  BY DEF IInv
<1> QED
  BY <1>1, Invariance, PTL

\* Whatever the interleaving of aborts, weight transfers, stamps, resumes and
\* the calls of the clients, no call gets tokens of two versions, and the server
\* reports the version they come from.
THEOREM OneVersion == Spec => []OneVersionPerCall
<1>1. IInv => OneVersionPerCall
  BY DEF IInv
<1> QED
  BY <1>1, Invariance, PTL

-----------------------------------------------------------------------------
\* The version that is served, and the stamps of a conversation

\* The version the engines generate with: the new one once all replicas of the
\* rollout side have it.
Serving == IF pc \in {1, 2} THEN version - 1 ELSE version

ServersCurrent ==
  /\ pc \in {1, 2} => version # 0
  /\ \A s \in Standalone :
       weights[s] = IF pc = 2 /\ s \notin left THEN version ELSE Serving
  /\ \A s \in Hybrid \ asleep : pc \in 4 .. 14 /\ weights[s] = version
  /\ pc = 4 => Hybrid \cap asleep \subseteq left \cup unstamped
  /\ pc \in 5 .. 13 => Hybrid \cap asleep = {}

\* A conversation has no token from a version that is not served yet; an
\* answer names the version of its tokens, or has none.
TokensServed ==
  \A r \in Requests :
    /\ \A u \in made[r] : u <= Serving
    /\ call[r] = "answered" =>
         IF answer[r].steps = None THEN answer[r].aborted /\ answer[r].tokens = {}
         ELSE /\ answer[r].tokens \subseteq {answer[r].steps}
              /\ answer[r].steps <= Serving
              /\ \A u \in made[r] : u <= answer[r].steps

\* The minimum the conversation has been given, or its first turn will be.
Floor(r) == IF stamps[r] # None THEN stamps[r].min ELSE lo[r]

StampsBound ==
  PartialRollout =>
    \A r \in Requests :
      /\ stamps[r] # None => stamps[r].min # None /\ stamps[r].max # None
      /\ IF Floor(r) = None THEN made[r] = {}
         ELSE /\ \A u \in made[r] : Floor(r) <= u
              /\ Floor(r) <= Serving
              /\ call[r] = "answered" /\ answer[r].steps # None => Floor(r) <= answer[r].steps
      /\ call[r] = "idle" => lo[r] = None
      /\ call[r] = "idle" /\ stamps[r] # None => \A u \in made[r] : u <= stamps[r].max

CoverInv == ServersCurrent /\ TokensServed /\ StampsBound

LEMMA Numbers ==
  ASSUME IInv
  PROVE  /\ version \in Nat /\ pc \in 0 .. 16 /\ Versions \subseteq Nat /\ None \notin Versions
         /\ Serving \in Int
         /\ \A s \in Servers : weights[s] \in Nat /\ steps[s] \in Nat /\ steps[s] # None
         /\ \A r \in Requests : /\ made[r] \subseteq Nat /\ Floor(r) \in Nat \cup {None}
                                /\ Floor(r) \in Stamp
                                /\ call[r] = "answered" => answer[r].steps \in Nat \cup {None}
<1> USE DEF IInv, TypeOK
<1>1. version \in Nat /\ pc \in 0 .. 16 /\ Versions \subseteq Nat /\ None \notin Versions
  BY WeightSyncAssumption, ProgramSteps DEF Versions
<1>2. Serving \in Int
  BY <1>1 DEF Serving
<1>3. \A s \in Servers : weights[s] \in Nat /\ steps[s] \in Nat /\ steps[s] # None
  BY <1>1
<1>4. ASSUME NEW r \in Requests
      PROVE  /\ made[r] \subseteq Nat /\ Floor(r) \in Nat \cup {None} /\ Floor(r) \in Stamp
             /\ call[r] = "answered" => answer[r].steps \in Nat \cup {None}
  <2>1. Floor(r) \in Stamp
    BY DEF Floor
  <2>2. call[r] = "answered" => answer[r].steps \in Stamp
    BY DEF Answering, Answers
  <2> QED  BY <1>1, <2>1, <2>2 DEF Stamp
<1> QED
  BY <1>1, <1>2, <1>3, <1>4

\* An engine that generates does so with the version served.
LEMMA ServingAt ==
  ASSUME IInv, ServersCurrent, NEW r \in Requests, call[r] = "running", at[r] \notin asleep
  PROVE  weights[at[r]] = Serving /\ steps[at[r]] = Serving
<1>1. at[r] \in Servers /\ at[r] \notin paused
  BY DEF IInv, TypeOK, Running
<1>2. at[r] \notin unstamped
  BY <1>1 DEF IInv, Stage
<1>3. weights[at[r]] = Serving
  BY <1>1, Numbers DEF IInv, Stage, ServersCurrent, Serving, Servers
<1> QED
  BY <1>1, <1>2, <1>3 DEF IInv, Stamping

LEMMA InitCover == Init => CoverInv
BY DEF Init, CoverInv, ServersCurrent, TokensServed, StampsBound, Serving, Floor, Servers

\* Steps of the trainer that leave conversations alone only need the version
\* served to grow.
LEMMA ServingGrows ==
  ASSUME IInv, TokensServed, StampsBound, UNCHANGED <<call, answer, stampVars>>,
         Serving' \in Int, Serving <= Serving'
  PROVE  TokensServed' /\ StampsBound'
<1> USE DEF stampVars
<1>0. /\ \A n \in Nat \cup Int : n <= Serving => n <= Serving'
      /\ \A r \in Requests : /\ made[r] \subseteq Nat /\ Floor(r) \in Nat \cup {None}
                             /\ call[r] = "answered" => answer[r].steps \in Nat \cup {None}
  <2>1. Serving \in Int
    BY Numbers
  <2>2. \A n \in Nat \cup Int : n <= Serving => n <= Serving'
    BY <2>1
  <2> QED  BY <2>2, Numbers
<1>1. TokensServed'
  <2> SUFFICES ASSUME NEW r \in Requests
               PROVE  /\ \A u \in made[r] : u <= Serving'
                      /\ call[r] = "answered" =>
                           IF answer[r].steps = None
                           THEN answer[r].aborted /\ answer[r].tokens = {}
                           ELSE /\ answer[r].tokens \subseteq {answer[r].steps}
                                /\ answer[r].steps <= Serving'
                                /\ \A u \in made[r] : u <= answer[r].steps
    BY DEF TokensServed
  <2> QED  BY <1>0 DEF TokensServed
<1>2. StampsBound'
  <2>1. \A r \in Requests : Floor(r)' = Floor(r)
    BY DEF Floor
  <2>2. \A r \in Requests : Floor(r) # None /\ Floor(r) <= Serving => Floor(r) <= Serving'
    BY <1>0
  <2> QED  BY <2>1, <2>2 DEF StampsBound
<1> QED
  BY <1>1, <1>2

LEMMA TrainCover == IInv /\ CoverInv /\ Train => CoverInv'
<1> SUFFICES ASSUME IInv, CoverInv, Train PROVE CoverInv'
  OBVIOUS
<1> USE Numbers DEF Train, CoverInv, serverVars, callVars, stampVars
<1>1. Serving' = Serving
  BY DEF Serving
<1>2. ServersCurrent'
  BY <1>1, ProgramSteps DEF ServersCurrent, Op, Serving
<1> QED
  BY <1>1, <1>2, ServingGrows

LEMMA StepDoneCover == IInv /\ CoverInv /\ StepDone => CoverInv'
<1> SUFFICES ASSUME IInv, CoverInv, StepDone PROVE CoverInv'
  OBVIOUS
<1> USE Numbers DEF StepDone, CoverInv, serverVars, callVars, stampVars
<1>1. /\ pc \in 1 .. 16 /\ pc' \in 0 .. 16
      /\ (pc' = 0 /\ pc \in {3, 16}) \/ pc' = pc + 1
      /\ pc' = 2 => left' = Standalone
      /\ pc' = 4 => left' = Hybrid
  BY AfterSteps, ProgramSteps DEF Op
<1>2. Serving <= Serving' /\ Serving' \in Int
  BY <1>1 DEF Serving
<1>3. ServersCurrent'
  <2>1. \A s \in Standalone : weights[s] = IF pc' = 2 /\ s \notin left' THEN version ELSE Serving'
    BY <1>1 DEF ServersCurrent, Serving
  <2>2. \A s \in Hybrid \ asleep : pc' \in 4 .. 14 /\ weights[s] = version
    BY <1>1 DEF ServersCurrent, IInv, Stage
  <2> QED  BY <1>1, <2>1, <2>2 DEF ServersCurrent
<1> QED
  BY <1>2, <1>3, ServingGrows

LEMMA AbortCover ==
  ASSUME IInv, CoverInv, NEW s \in Servers, Abort(s)
  PROVE  CoverInv'
<1> USE Numbers DEF Abort, CoverInv, stampVars
<1>1. pc \in {1, 5, 6, 11, 12} /\ pc # 0 /\ Serving' = Serving
  BY ProgramSteps, DoingSteps DEF IInv, TypeOK, Serving
<1>2. ServersCurrent'
  BY <1>1, LeftTargets DEF ServersCurrent, Serving
<1>3. DEFINE cut == {r \in At(s) : call[r] = "running"}
<1>4. PICK given \in [cut -> UNION {AbortedAnswers(r) : r \in cut}] :
        /\ \A r \in cut : given[r] \in AbortedAnswers(r)
        /\ answer' = [r \in Requests |-> IF r \in cut THEN given[r] ELSE answer[r]]
  OBVIOUS
<1>5. /\ call' = [r \in Requests |-> IF r \in cut THEN "answered" ELSE call[r]]
      /\ cut \subseteq Requests /\ \A r \in cut : at[r] = s /\ call[r] = "running"
  BY DEF At
<1>6. ASSUME NEW r \in cut
      PROVE  /\ given[r].steps \in {None, Serving} /\ given[r].aborted
             /\ given[r].tokens \subseteq {given[r].steps} /\ None \notin given[r].tokens
  <2>1. s \notin asleep
    <3>1. asleep \subseteq Hybrid /\ s \in left
      BY DEF IInv, TypeOK
    <3>2. CASE pc \in {1, 5, 11}
      BY <3>1, <3>2, LeftTargets
    <3>3. CASE pc \in {6, 12}
      BY <3>1, <3>3 DEF ServersCurrent
    <3> QED
      BY <1>1, <3>2, <3>3
  <2>a. r \in Requests /\ call[r] = "running" /\ at[r] = s
    BY <1>5
  <2>b. steps[s] = Serving
    BY <2>a, <2>1, ServingAt
  <2>c. fresh[r] \subseteq {steps[s]}
    BY <2>a DEF IInv, OneVersionPerCall
  <2>d. steps[s] # None
    BY Numbers DEF IInv, TypeOK
  <2>2. steps[s] = Serving /\ fresh[r] \subseteq {Serving} /\ Serving # None
    BY <2>b, <2>c, <2>d
  <2>3. given[r] = [tokens |-> fresh[r], steps |-> Serving, aborted |-> TRUE]
        \/ given[r] = [tokens |-> {}, steps |-> None, aborted |-> TRUE]
    BY <1>4, <1>5, <2>2 DEF AbortedAnswers
  <2> QED  BY <2>2, <2>3
<1> HIDE DEF cut
<1>7. TokensServed'
  <2> SUFFICES ASSUME NEW r \in Requests
               PROVE  /\ \A u \in made[r] : u <= Serving
                      /\ call'[r] = "answered" =>
                           IF answer'[r].steps = None
                           THEN answer'[r].aborted /\ answer'[r].tokens = {}
                           ELSE /\ answer'[r].tokens \subseteq {answer'[r].steps}
                                /\ answer'[r].steps <= Serving
                                /\ \A u \in made[r] : u <= answer'[r].steps
    BY <1>1 DEF TokensServed
  <2>1. CASE r \in cut
    BY <1>4, <1>5, <1>6, <2>1 DEF TokensServed
  <2>2. CASE r \notin cut
    BY <1>4, <1>5, <2>2 DEF TokensServed
  <2> QED  BY <2>1, <2>2
<1>8. StampsBound'
  <2>1. \A r \in Requests : Floor(r)' = Floor(r)
    BY DEF Floor
  <2> SUFFICES ASSUME PartialRollout, NEW r \in Requests
               PROVE  /\ Floor(r) # None /\ call'[r] = "answered" /\ answer'[r].steps # None
                           => Floor(r) <= answer'[r].steps
                      /\ call'[r] = "idle" => call[r] = "idle"
    BY <1>1, <2>1 DEF StampsBound
  <2>2. CASE r \in cut
    BY <1>4, <1>5, <1>6, <2>2 DEF StampsBound
  <2>3. CASE r \notin cut
    BY <1>4, <1>5, <2>3 DEF StampsBound
  <2> QED  BY <2>2, <2>3
<1> QED
  BY <1>2, <1>7, <1>8

LEMMA LoadWeightsCover ==
  ASSUME IInv, CoverInv, NEW s \in Servers, LoadWeights(s)
  PROVE  CoverInv'
<1> USE Numbers DEF LoadWeights, Loaded, CoverInv, callVars, stampVars
<1>1. pc \in {2, 4} /\ pc # 0 /\ Serving' = Serving
  BY ProgramSteps, DoingSteps DEF IInv, TypeOK, Serving
<1>2. weights' = [weights EXCEPT ![s] = version] /\ weights \in [Servers -> Versions]
  BY DEF IInv, TypeOK
<1>3. ServersCurrent'
  BY <1>1, <1>2, LeftTargets DEF ServersCurrent, Serving, Servers
<1> QED
  BY <1>1, <1>3, ServingGrows

LEMMA SetGlobalStepsCover ==
  ASSUME IInv, CoverInv, NEW s \in Servers, SetGlobalSteps(s)
  PROVE  CoverInv'
<1> USE Numbers DEF SetGlobalSteps, CoverInv, callVars, stampVars
<1>1. pc \in {2, 4} /\ Serving' = Serving /\ weights[s] = version
  BY DEF IInv, Stage, Stamping, Serving
<1>2. ServersCurrent'
  BY <1>1, WeightSyncAssumption DEF ServersCurrent, Serving, IInv, Stage
<1> QED
  BY <1>1, <1>2, ServingGrows

LEMMA SwitchCover ==
  ASSUME IInv, CoverInv, NEW s \in Servers, Switch(s)
  PROVE  CoverInv'
<1> USE Numbers DEF Switch, CoverInv, callVars, stampVars
<1>1. pc \in {3, 8, 9, 15, 16, 14} /\ Serving' = Serving
  BY ProgramSteps, DoingSteps DEF IInv, TypeOK, Serving
<1>2. ServersCurrent'
  <2>1. (asleep' = asleep \/ pc = 14) /\ asleep \subseteq asleep'
    BY ProgramSteps, DoingSteps DEF IInv, TypeOK
  <2> QED  BY <1>1, <2>1 DEF ServersCurrent, Serving
<1> QED
  BY <1>1, <1>2, ServingGrows

LEMMA ChangePoolCover == IInv /\ CoverInv /\ ChangePool => CoverInv'
<1> SUFFICES ASSUME IInv, CoverInv, ChangePool PROVE CoverInv'
  OBVIOUS
<1> USE Numbers DEF ChangePool, CoverInv, callVars, stampVars
<1>1. pc \in {7, 13} /\ Serving' = Serving
  BY ProgramSteps, DoingSteps DEF IInv, TypeOK, Serving
<1>2. ServersCurrent'
  BY <1>1 DEF ServersCurrent, Serving
<1> QED
  BY <1>1, <1>2, ServingGrows

-----------------------------------------------------------------------------
LEMMA ServersCurrentStays ==
  ASSUME ServersCurrent, UNCHANGED <<trainerVars, serverVars>>
  PROVE  ServersCurrent' /\ Serving' = Serving
BY DEF ServersCurrent, Serving, trainerVars, serverVars

\* A call on its way to an answer.
LEMMA AskingCover ==
  ASSUME IInv, CoverInv, NEW r \in Requests, UNCHANGED <<trainerVars, serverVars, stampVars, answer>>,
         \E c \in {"sent", "running"} : call' = [call EXCEPT ![r] = c]
  PROVE  CoverInv'
<1> USE Numbers DEF CoverInv, stampVars
<1>1. ServersCurrent' /\ Serving' = Serving
  BY ServersCurrentStays
<1>2. \A q \in Requests : /\ call'[q] = "answered" => call[q] = "answered"
                          /\ call'[q] = "idle" => call[q] = "idle"
  BY DEF IInv, TypeOK
<1>3. TokensServed'
  BY <1>1, <1>2 DEF TokensServed
<1>4. StampsBound'
  <2>1. \A q \in Requests : Floor(q)' = Floor(q)
    BY DEF Floor
  <2> QED  BY <1>1, <1>2, <2>1 DEF StampsBound
<1> QED
  BY <1>1, <1>3, <1>4

LEMMA DecodeCover ==
  ASSUME IInv, CoverInv, NEW r \in Requests, Decode(r)
  PROVE  CoverInv'
<1>1. call' = [call EXCEPT ![r] = "running"]
  BY DEF Decode, IInv, TypeOK
<1> QED
  BY <1>1, AskingCover DEF Decode

LEMMA CompleteCover ==
  ASSUME IInv, CoverInv, NEW r \in Requests, Complete(r)
  PROVE  CoverInv'
<1> USE Numbers DEF Complete, CoverInv, stampVars
<1>1. ServersCurrent' /\ Serving' = Serving
  BY ServersCurrentStays
<1>2. steps[at[r]] = Serving /\ fresh[r] \subseteq {Serving} /\ Serving # None
  <2>1. at[r] \in Servers
    BY DEF IInv, TypeOK
  <2> QED  BY <2>1, ServingAt DEF IInv, OneVersionPerCall
<1>3. /\ answer'[r].steps = Serving /\ answer'[r].tokens = fresh[r] /\ call'[r] = "answered"
      /\ \A q \in Requests \ {r} : answer'[q] = answer[q] /\ call'[q] = call[q]
  BY <1>2 DEF IInv, TypeOK
<1>4. TokensServed'
  <2> SUFFICES ASSUME NEW q \in Requests
               PROVE  /\ \A u \in made[q] : u <= Serving
                      /\ call'[q] = "answered" =>
                           IF answer'[q].steps = None
                           THEN answer'[q].aborted /\ answer'[q].tokens = {}
                           ELSE /\ answer'[q].tokens \subseteq {answer'[q].steps}
                                /\ answer'[q].steps <= Serving
                                /\ \A u \in made[q] : u <= answer'[q].steps
    BY <1>1 DEF TokensServed
  <2>1. CASE q = r
    BY <1>2, <1>3, <2>1 DEF TokensServed
  <2>2. CASE q # r
    BY <1>3, <2>2 DEF TokensServed
  <2> QED  BY <2>1, <2>2
<1>5. StampsBound'
  <2>1. \A q \in Requests : Floor(q)' = Floor(q)
    BY DEF Floor
  <2> SUFFICES ASSUME PartialRollout, NEW q \in Requests
               PROVE  /\ Floor(q) # None /\ call'[q] = "answered" /\ answer'[q].steps # None
                           => Floor(q) <= answer'[q].steps
                      /\ call'[q] = "idle" => call[q] = "idle"
    BY <1>1, <2>1 DEF StampsBound
  <2>2. CASE q = r
    BY <1>3, <2>2 DEF StampsBound
  <2>3. CASE q # r
    BY <1>3, <2>3 DEF StampsBound
  <2> QED  BY <2>2, <2>3
<1> QED
  BY <1>1, <1>4, <1>5

\* What the client does with an answer that has global_steps, or is aborted and
\* empty.
LEMMA TakeCover ==
  ASSUME IInv, CoverInv, NEW r \in Requests, Take(r)
  PROVE  /\ ServersCurrent' /\ Serving' = Serving
         /\ \A u \in made'[r] : u <= Serving
         /\ answer[r].steps # None =>
              answer[r].steps <= Serving /\ \A u \in made'[r] : u <= answer[r].steps
         /\ answer[r].steps = None => made'[r] = made[r] /\ answer[r].aborted
         /\ \A q \in Requests \ {r} : made'[q] = made[q] /\ answer'[q] = answer[q]
         /\ PartialRollout =>
              IF Minimum(r) = None THEN Floor(r) = None => made'[r] = {}
              ELSE Floor(r) = None =>
                     Minimum(r) <= Serving /\ \A u \in made'[r] : Minimum(r) <= u
         /\ PartialRollout /\ Floor(r) # None =>
              Floor(r) <= Serving /\ \A u \in made'[r] : Floor(r) <= u
         /\ PartialRollout /\ Floor(r) = None => lo[r] = None /\ stamps[r] = None
<1> USE DEF CoverInv, Take
<1>1. ServersCurrent' /\ Serving' = Serving
  BY ServersCurrentStays
<1>2. /\ made'[r] = made[r] \cup answer[r].tokens
      /\ \A q \in Requests \ {r} : made'[q] = made[q] /\ answer'[q] = answer[q]
  BY DEF IInv, TypeOK
<1>3. \/ answer[r].steps = None /\ answer[r].aborted /\ answer[r].tokens = {}
      \/ /\ answer[r].steps # None /\ answer[r].steps \in Nat
         /\ answer[r].tokens \subseteq {answer[r].steps}
         /\ answer[r].steps <= Serving /\ \A u \in made[r] : u <= answer[r].steps
  BY Numbers DEF TokensServed
<1>4. /\ \A u \in made'[r] : u <= Serving
      /\ answer[r].steps # None =>
           answer[r].steps <= Serving /\ \A u \in made'[r] : u <= answer[r].steps
      /\ answer[r].steps = None => made'[r] = made[r] /\ answer[r].aborted
  <2>1. CASE answer[r].steps = None /\ answer[r].aborted /\ answer[r].tokens = {}
    BY <1>2, <2>1 DEF TokensServed
  <2>2. CASE /\ answer[r].steps # None /\ answer[r].steps \in Nat
             /\ answer[r].tokens \subseteq {answer[r].steps}
             /\ answer[r].steps <= Serving /\ \A u \in made[r] : u <= answer[r].steps
    <3>2. \A u \in made'[r] : u <= answer[r].steps
      BY <1>2, <2>2
    <3>3. \A u \in made'[r] : u <= Serving
      BY <1>2, <2>2 DEF TokensServed
    <3> QED  BY <2>2, <3>2, <3>3
  <2> QED  BY <1>3, <2>1, <2>2
<1>5. ASSUME PartialRollout, Floor(r) = None
      PROVE  /\ made[r] = {} /\ lo[r] = None /\ stamps[r] = None
             /\ Minimum(r) = answer[r].steps
  BY <1>5, WeightSyncAssumption DEF StampsBound, Floor, Minimum
<1>6. ASSUME PartialRollout, Floor(r) = None, Minimum(r) # None
      PROVE  Minimum(r) <= Serving /\ \A u \in made'[r] : Minimum(r) <= u
  BY <1>2, <1>3, <1>5, <1>6
<1>7. ASSUME PartialRollout, Floor(r) = None, Minimum(r) = None
      PROVE  made'[r] = {}
  BY <1>2, <1>3, <1>5, <1>7, Numbers
<1>8. ASSUME PartialRollout, Floor(r) # None
      PROVE  Floor(r) <= Serving /\ \A u \in made'[r] : Floor(r) <= u
  <2>1. \A u \in made[r] : Floor(r) <= u
    BY <1>8 DEF StampsBound
  <2>2. answer[r].steps # None => Floor(r) <= answer[r].steps
    BY <1>8 DEF StampsBound
  <2>3. Floor(r) <= Serving
    BY <1>8 DEF StampsBound
  <2>4. \A u \in answer[r].tokens : Floor(r) <= u
    BY <1>3, <2>2
  <2> QED  BY <1>2, <2>1, <2>3, <2>4
<1> QED
  BY <1>1, <1>2, <1>4, <1>5, <1>6, <1>7, <1>8

LEMMA RetryCover ==
  ASSUME IInv, CoverInv, NEW r \in Requests, Retry(r)
  PROVE  CoverInv'
<1> USE DEF CoverInv
<1>1. Take(r) /\ UNCHANGED stamps
  BY DEF Retry
<1>2. /\ call'[r] = "retry" /\ lo'[r] = Minimum(r)
      /\ \A q \in Requests \ {r} : call'[q] = call[q] /\ lo'[q] = lo[q]
  BY DEF Retry, IInv, TypeOK
<1>3. TokensServed'
  BY <1>1, <1>2, TakeCover DEF TokensServed
<1>4. StampsBound'
  <2> SUFFICES ASSUME PartialRollout, NEW q \in Requests
               PROVE  /\ stamps[q] # None => stamps[q].min # None /\ stamps[q].max # None
                      /\ IF Floor(q)' = None THEN made'[q] = {}
                         ELSE /\ \A u \in made'[q] : Floor(q)' <= u
                              /\ Floor(q)' <= Serving'
                              /\ call'[q] = "answered" /\ answer'[q].steps # None =>
                                   Floor(q)' <= answer'[q].steps
                      /\ call'[q] = "idle" => lo'[q] = None
                      /\ call'[q] = "idle" /\ stamps[q] # None =>
                           \A u \in made'[q] : u <= stamps[q].max
    BY <1>1 DEF StampsBound
  <2>1. CASE q # r
    <3>1. Floor(q)' = Floor(q)
      BY <1>1, <1>2, <2>1 DEF Floor
    <3> QED  BY <1>1, <1>2, <2>1, <3>1, TakeCover DEF StampsBound
  <2>2. CASE q = r
    <3>1. stamps[r] # None => Floor(r)' = Floor(r) /\ Floor(r) # None
      BY <1>1 DEF Floor, StampsBound
    <3>2. stamps[r] = None => Floor(r)' = Minimum(r) /\ Floor(r) = lo[r]
      BY <1>1, <1>2 DEF Floor
    <3>3. lo[r] # None => Minimum(r) = lo[r]
      BY DEF Minimum
    <3> QED  BY <1>1, <1>2, <2>2, <3>1, <3>2, <3>3, TakeCover DEF StampsBound
  <2> QED  BY <2>1, <2>2
<1> QED
  BY <1>1, <1>3, <1>4, TakeCover

LEMMA ReturnCover ==
  ASSUME IInv, CoverInv, NEW r \in Requests, Return(r)
  PROVE  CoverInv'
<1> USE DEF CoverInv
<1>1. Take(r)
  BY DEF Return
<1>2. /\ call'[r] = "idle" /\ lo'[r] = None /\ stamps'[r] = Stamped(r)
      /\ \A q \in Requests \ {r} : /\ call'[q] = call[q] /\ lo'[q] = lo[q]
                                 /\ stamps'[q] = stamps[q]
  BY DEF Return, IInv, TypeOK
<1>3. TokensServed'
  BY <1>1, <1>2, TakeCover DEF TokensServed
<1>4. StampsBound'
  <2> SUFFICES ASSUME PartialRollout, NEW q \in Requests
               PROVE  /\ stamps'[q] # None => stamps'[q].min # None /\ stamps'[q].max # None
                      /\ IF Floor(q)' = None THEN made'[q] = {}
                         ELSE /\ \A u \in made'[q] : Floor(q)' <= u
                              /\ Floor(q)' <= Serving'
                              /\ call'[q] = "answered" /\ answer'[q].steps # None =>
                                   Floor(q)' <= answer'[q].steps
                      /\ call'[q] = "idle" => lo'[q] = None
                      /\ call'[q] = "idle" /\ stamps'[q] # None =>
                           \A u \in made'[q] : u <= stamps'[q].max
    BY DEF StampsBound
  <2>1. CASE q # r
    <3>1. Floor(q)' = Floor(q)
      BY <1>2, <2>1 DEF Floor
    <3> QED  BY <1>1, <1>2, <2>1, <3>1, TakeCover DEF StampsBound
  <2>2. CASE q = r
    <3>1. answer[r].steps # None
      BY <1>1, TakeCover DEF Return, Retried
    <3>2. CASE stamps[r] = None
      <4>1. stamps'[r] = [min |-> Minimum(r), max |-> answer[r].steps]
        BY <1>2, <3>2 DEF Stamped
      <4>2. stamps'[r] # None
        <5>1. Minimum(r) \in Stamp /\ answer[r].steps \in Stamp
          BY <1>1 DEF IInv, Take, Answering, Answers, Minimum, TypeOK
        <5> QED  BY <4>1, <5>1, WeightSyncAssumption DEF Stamp
      <4>3. Floor(r)' = Minimum(r) /\ Floor(r) = lo[r]
        BY <3>2, <4>1, <4>2 DEF Floor
      <4>4. Minimum(r) # None /\ (lo[r] # None => Minimum(r) = lo[r])
        BY <3>1 DEF Minimum
      <4> QED  BY <1>1, <1>2, <2>2, <3>1, <4>1, <4>3, <4>4, TakeCover
    <3>3. CASE stamps[r] # None
      <4>1. stamps'[r] = [stamps[r] EXCEPT !.max = answer[r].steps]
        BY <1>2, <3>1, <3>3 DEF Stamped
      <4>2. stamps'[r].min = stamps[r].min /\ stamps'[r].max = answer[r].steps
        BY <3>3, <4>1 DEF IInv, TypeOK
      <4>5. stamps'[r] # None
        <5>1. stamps[r] \in [min : Stamp, max : Stamp] /\ answer[r].steps \in Stamp
          BY <1>1, <3>3 DEF IInv, Take, Answering, Answers, TypeOK
        <5>2. stamps'[r] = [min |-> stamps[r].min, max |-> answer[r].steps]
          BY <4>1, <5>1
        <5> QED  BY <5>1, <5>2, WeightSyncAssumption DEF Stamp
      <4>3. Floor(r)' = Floor(r) /\ Floor(r) # None
        BY <3>3, <4>2, <4>5 DEF Floor, StampsBound
      <4> QED  BY <1>1, <1>2, <2>2, <3>1, <3>3, <4>2, <4>3, TakeCover DEF StampsBound
    <3> QED  BY <3>2, <3>3
  <2> QED  BY <2>1, <2>2
<1> QED
  BY <1>1, <1>3, <1>4, TakeCover

LEMMA NewConversationCover ==
  ASSUME IInv, CoverInv, NEW r \in Requests, NewConversation(r)
  PROVE  CoverInv'
<1> USE DEF CoverInv, NewConversation
<1>1. ServersCurrent' /\ Serving' = Serving
  BY ServersCurrentStays
<1>2. /\ made'[r] = {} /\ stamps'[r] = None
      /\ \A q \in Requests \ {r} : made'[q] = made[q] /\ stamps'[q] = stamps[q]
  BY DEF IInv, TypeOK
<1>3. TokensServed'
  BY <1>1, <1>2 DEF TokensServed
<1>4. StampsBound'
  <2>1. \A q \in Requests \ {r} : Floor(q)' = Floor(q)
    BY <1>2 DEF Floor
  <2>2. PartialRollout => Floor(r)' = None /\ lo[r] = None
    BY <1>2 DEF Floor, StampsBound
  <2> QED  BY <1>1, <1>2, <2>1, <2>2 DEF StampsBound
<1> QED
  BY <1>1, <1>3, <1>4

LEMMA StepCover == IInv /\ CoverInv /\ [Next]_vars => CoverInv'
<1> SUFFICES ASSUME IInv, CoverInv, [Next]_vars PROVE CoverInv'
  OBVIOUS
<1>1. CASE Train
  BY <1>1, TrainCover
<1>2. CASE TrainerStep
  BY <1>2, StepDoneCover, ChangePoolCover, AbortCover, LoadWeightsCover, SetGlobalStepsCover,
     SwitchCover DEF TrainerStep
<1>3. ASSUME NEW r \in Requests, Acquire(r) \/ Start(r)
      PROVE  CoverInv'
  BY <1>3, AskingCover DEF Acquire, Start
<1>4. ASSUME NEW r \in Requests, CallStep(r) \/ NewConversation(r)
      PROVE  CoverInv'
  BY <1>3, <1>4, DecodeCover, CompleteCover, RetryCover, ReturnCover, NewConversationCover
  DEF CallStep
<1>5. CASE UNCHANGED vars
  <2>1. \A r \in Requests : Floor(r)' = Floor(r)
    BY <1>5 DEF vars, stampVars, Floor
  <2>2. ServersCurrent' /\ Serving' = Serving
    BY <1>5, ServersCurrentStays DEF CoverInv, vars
  <2> QED  BY <1>5, <2>1, <2>2
           DEF vars, callVars, stampVars, CoverInv, TokensServed, StampsBound
<1> QED
  BY <1>1, <1>2, <1>3, <1>4, <1>5 DEF Next

\* The invariant of what is served and of what the stamps cover.
THEOREM CoverInvariance == Spec => [](IInv /\ CoverInv)
<1>1. Init => IInv /\ CoverInv
  BY InitInv, InitCover
<1>2. (IInv /\ CoverInv) /\ [Next]_vars => (IInv /\ CoverInv)'
  BY StepInv, StepCover
<1> QED
  BY <1>1, <1>2, PTL DEF Spec

\* With partial rollouts every conversation that assemble_batch reads has both
\* its version stamps, and all its tokens come from versions between them.
THEOREM StampsAlwaysCover == Spec => []StampsCover
<1>1. IInv /\ CoverInv => StampsCover
  <2> SUFFICES ASSUME IInv, CoverInv, PartialRollout, NEW r \in Requests, stamps[r] # None
               PROVE  /\ stamps[r].min # None /\ stamps[r].max # None
                      /\ call[r] = "idle" => made[r] \subseteq stamps[r].min .. stamps[r].max
    BY DEF StampsCover
  <2>1. stamps[r].min # None /\ stamps[r].max # None
    BY DEF CoverInv, StampsBound
  <2>2. stamps[r].min \in Nat /\ stamps[r].max \in Nat /\ made[r] \subseteq Nat
    BY <2>1, Numbers DEF IInv, TypeOK, Stamp
  <2>3. call[r] = "idle" =>
          \A u \in made[r] : stamps[r].min <= u /\ u <= stamps[r].max
    BY <2>1 DEF CoverInv, StampsBound, Floor
  <2> QED  BY <2>1, <2>2, <2>3
<1> QED
  BY <1>1, CoverInvariance, PTL

\* Syncs, validations and the move to and from a hybrid replica never take a
\* conversation back to older weights than it has tokens from.
THEOREM NeverGoesBackwards == Spec => NeverBackwards
<1>1. IInv /\ CoverInv /\ [Next]_vars =>
        [\A r \in Requests : \A v \in fresh'[r] \ fresh[r] :
           \A u \in made[r] \cup fresh[r] : u <= v]_vars
  <2> SUFFICES ASSUME IInv, CoverInv, Next,
                      NEW r \in Requests, NEW v \in fresh'[r] \ fresh[r],
                      NEW u \in made[r] \cup fresh[r]
               PROVE  u <= v
    BY DEF NeverBackwards
  <2>1. Decode(r)
    BY DEF Next, Train, TrainerStep, StepDone, ChangePool, Abort, LoadWeights, SetGlobalSteps,
       Switch, Acquire, CallStep, Start, Decode, Complete, Retry, Return, Take,
       NewConversation, serverVars, trainerVars, callVars, stampVars, IInv, TypeOK
  <2>2. v = weights[at[r]] /\ call[r] = "running" /\ at[r] \notin asleep
    BY <2>1 DEF Decode, IInv, TypeOK
  <2>3. v = Serving /\ fresh[r] \subseteq {Serving}
    BY <2>2, ServingAt DEF CoverInv, IInv, OneVersionPerCall
  <2>4. u <= Serving
    BY <2>3, Numbers DEF CoverInv, TokensServed
  <2> QED  BY <2>3, <2>4
<1> QED
  BY <1>1, CoverInvariance, PTL DEF Spec, NeverBackwards

=============================================================================
