------------------------- MODULE FullyAsync_proofs --------------------------
(***************************************************************************)
(* Proofs about the streaming core for any batch size, trigger, staleness  *)
(* threshold, number of replicas and number of samples, and whatever       *)
(* samples fail: types, the pause protocol and the freshness bounds.       *)
(***************************************************************************)
EXTENDS FullyAsync, FiniteSetTheorems, TLAPS

USE FullyAsyncAssumption

Items == Samples \cup {None}

-----------------------------------------------------------------------------
\* Lemmas about the operators

LEMMA LimitType == max_required_samples \in Nat \ {0}
<1> DEFINE perSync == RequiredSamples * TriggerSyncStep
<1>1. perSync \in Nat \ {0}
  OBVIOUS
<1>2. perSync * StalenessPercent \in Nat
  BY <1>1
<1> HIDE DEF perSync
<1>3. (perSync * StalenessPercent) \div 100 \in Nat
  BY <1>2
<1>4. perSync + (perSync * StalenessPercent) \div 100 \in Nat \ {0}
  BY <1>1, <1>3
<1> QED  BY <1>4 DEF max_required_samples, perSync

LEMMA TaskSets ==
  ASSUME NEW S \in SUBSET Samples
  PROVE  IsFiniteSet(S) /\ Cardinality(S) \in Nat
<1>1. IsFiniteSet(Samples)
  BY FS_Interval DEF Samples
<1> QED  BY <1>1, FS_Subset, FS_CardinalityType

LEMMA SeqSteps ==
  ASSUME NEW S, NEW s \in Seq(S)
  PROVE  /\ \A e \in S : Append(s, e) \in Seq(S) /\ Len(Append(s, e)) = Len(s) + 1
         /\ Len(s) \in Nat
         /\ s # <<>> => /\ Head(s) \in S
                        /\ Tail(s) \in Seq(S)
                        /\ Len(Tail(s)) = Len(s) - 1
OBVIOUS

\* put_sample grows the queue by one at most.
LEMMA PutLemma ==
  ASSUME TypeOK, NEW s \in Items, MQ!PutSample(s)
  PROVE  /\ queue' \in Seq(Items)
         /\ Len(queue') \in Nat
         /\ Len(queue') <= Len(queue) + 1
         /\ mq_running' \in BOOLEAN
         /\ {total_produced', total_consumed', dropped_samples'} \subseteq Nat
<1>1. queue \in Seq(Items)
  BY DEF TypeOK, Items
<1>2. MQ!Evict \in Seq(Items) /\ Len(MQ!Evict) <= Len(queue)
  <2>1. CASE MQ!Full
    <3>1. queue # <<>>
      BY <2>1, LimitType DEF MQ!Full, max_queue_size
    <3> QED  BY <1>1, <2>1, <3>1, SeqSteps DEF MQ!Evict
  <2>2. CASE ~MQ!Full
    BY <1>1, <2>2, SeqSteps DEF MQ!Evict
  <2> QED  BY <2>1, <2>2
<1>3. queue' = Append(MQ!Evict, s)
  BY DEF MQ!PutSample
<1>4. /\ queue' \in Seq(Items)
      /\ Len(queue') \in Nat
      /\ Len(queue') = Len(MQ!Evict) + 1
  BY <1>2, <1>3, SeqSteps
<1>5. mq_running' \in BOOLEAN
  BY DEF MQ!PutSample, TypeOK
<1>6. {total_produced', total_consumed', dropped_samples'} \subseteq Nat
  BY DEF MQ!PutSample, TypeOK
<1> QED  BY <1>1, <1>2, <1>4, <1>5, <1>6, SeqSteps

\* get_sample takes the head.
LEMMA GetLemma ==
  ASSUME TypeOK, MQ!GetSample
  PROVE  /\ queue # <<>> /\ Head(queue) \in Items
         /\ queue' \in Seq(Items)
         /\ Len(queue') = Len(queue) - 1
         /\ Len(queue) \in Nat /\ Len(queue') \in Nat
         /\ mq_running' \in BOOLEAN
         /\ {total_produced', total_consumed', dropped_samples'} \subseteq Nat
<1>1. queue \in Seq(Items) /\ queue # <<>> /\ queue' = Tail(queue)
  BY DEF TypeOK, Items, MQ!GetSample
<1>2. {total_produced', total_consumed', dropped_samples'} \subseteq Nat
  BY DEF MQ!GetSample, TypeOK
<1>3. mq_running' \in BOOLEAN
  BY DEF MQ!GetSample, TypeOK
<1> QED  BY <1>1, <1>2, <1>3, SeqSteps

Coroutines == {"processor", "reset", "monitor", "main"}

\* Whoever gets the lock or a place in its line, the line stays one of coroutines.
LEMMA TurnLemma ==
  ASSUME TypeOK, NEW c, Turn(c)
  PROVE  lock = "free" /\ waiters' \in Seq(Coroutines)
<1>1. waiters \in Seq(Coroutines)
  BY DEF TypeOK, Coroutines
<1>2. CASE waiters = <<>> /\ UNCHANGED waiters
  BY <1>1, <1>2 DEF Turn, Free
<1>3. CASE waiters # <<>> /\ waiters' = Tail(waiters)
  BY <1>1, <1>3, SeqSteps DEF Turn, Free
<1> QED  BY <1>2, <1>3 DEF Turn

LEMMA LineUpLemma ==
  ASSUME TypeOK, NEW c \in Coroutines, LineUp(c)
  PROVE  TypeOK'
<1>1. waiters' \in Seq({"processor", "reset", "monitor", "main"})
  <2>1. waiters \in Seq(Coroutines)
    BY DEF TypeOK, Coroutines
  <2>2. waiters' = Append(waiters, c)
    BY DEF LineUp
  <2> QED  BY <2>1, <2>2, SeqSteps DEF Coroutines
<1>2. UNCHANGED <<mqVars, lock, pauseVars, staleness_samples, taskVars, feedVars, procVars,
                  gen_pc, running, mon_pc, trainVars, main_pc>>
  BY DEF LineUp
<1> QED  BY <1>1, <1>2 DEF TypeOK, mqVars, pauseVars, taskVars, feedVars, procVars, trainVars

LEMMA IterateLemma ==
  ASSUME TypeOK, NEW line \in Seq(Coroutines), Iterate(line)
  PROVE  waiters' \in Seq(Coroutines) /\ mon_pc' \in {"top", "sleep", "done"}
<1>1. Append(line, "monitor") \in Seq(Coroutines)
  BY SeqSteps DEF Coroutines
<1> QED  BY <1>1 DEF Iterate

-----------------------------------------------------------------------------
\* Types

LEMMA InitTypeOK == Init => TypeOK
<1> SUFFICES ASSUME Init PROVE TypeOK
  OBVIOUS
<1>1. /\ mq_running \in BOOLEAN /\ paused \in BOOLEAN /\ resume_event \in BOOLEAN
      /\ running \in BOOLEAN /\ stopping \in BOOLEAN
  BY DEF Init, MQ!MQInit
<1>2. global_steps \in Samples /\ local_trigger_step \in 1 .. TriggerSyncStep
  BY DEF Init, Samples
<1>3. /\ queue = <<>> /\ pending_queue = <<>> /\ batch = <<>> /\ trained = <<>>
      /\ {total_produced, total_consumed, dropped_samples} \subseteq Nat
  BY DEF Init, MQ!MQInit
<1>4. /\ waiters \in Seq(Coroutines)
      /\ generating = {} /\ returning = {} /\ finished = {} /\ failed = {} /\ reaping = {}
      /\ held = None /\ proc_pc = "check"
  BY DEF Init
<1> QED  BY <1>1, <1>2, <1>3, <1>4 DEF Init, TypeOK, Free, Coroutines

LEMMA FeederTypeOK == TypeOK /\ (FeedSample \/ FeedEndSignal) => TypeOK'
<1> SUFFICES ASSUME TypeOK, FeedSample \/ FeedEndSignal PROVE TypeOK'
  OBVIOUS
<1>1. pending_queue' \in Seq(Items)
  <2>1. pending_queue \in Seq(Items) /\ global_steps \in Items /\ None \in Items
    BY DEF TypeOK, Items
  <2> QED  BY <2>1, SeqSteps DEF FeedSample, FeedEndSignal
<1>2. global_steps' \in Samples /\ feed_pc' \in {"feed", "end", "done"}
  <2>1. global_steps \in 1 .. TotalRolloutSteps /\ TotalRolloutSteps \in Nat
    BY FullyAsyncAssumption DEF TypeOK, Samples
  <2>2. \/ UNCHANGED global_steps
        \/ global_steps' = global_steps + 1 /\ ~ (global_steps >= TotalRolloutSteps)
    BY DEF FeedSample, FeedEndSignal
  <2>3. global_steps' \in 1 .. TotalRolloutSteps
    BY <2>1, <2>2
  <2>4. feed_pc' \in {"feed", "end", "done"}
    BY DEF FeedSample, FeedEndSignal, TypeOK
  <2> QED  BY <2>3, <2>4 DEF Samples
<1>3. UNCHANGED <<mqVars, lockVars, pauseVars, staleness_samples, taskVars, procVars,
                  gen_pc, running, mon_pc, trainVars, main_pc>>
  BY DEF FeedSample, FeedEndSignal
<1> QED  BY <1>1, <1>2, <1>3 DEF TypeOK, Items, mqVars, lockVars, pauseVars, taskVars, procVars, trainVars

LEMMA ProcTypeOK == TypeOK /\ ProcStep => TypeOK'
<1> SUFFICES ASSUME TypeOK, ProcStep PROVE TypeOK'
  OBVIOUS
<1> USE DEF TypeOK, mqVars, lockVars, pauseVars, taskVars, feedVars, procVars, trainVars
<1>1. CASE ProcCheck
  BY <1>1 DEF ProcCheck
<1>2. CASE ProcDecide
  BY <1>2 DEF ProcDecide
<1>3. CASE ProcPause
  <2>1. paused' = TRUE /\ resume_event' = FALSE
    BY <1>3 DEF ProcPause
  <2>2. paused' \in BOOLEAN /\ resume_event' \in BOOLEAN
    BY <2>1
  <2>3. waiters' \in Seq(Coroutines) /\ UNCHANGED lock
    BY <1>3, TurnLemma DEF ProcPause, Section
  <2> QED  BY <1>3, <2>2, <2>3 DEF ProcPause, Coroutines
<1>4. CASE ProcWake
  BY <1>4 DEF ProcWake
<1>5. CASE ProcReap
  <2>1. waiters' \in Seq(Coroutines) /\ UNCHANGED lock
    BY <1>5, TurnLemma DEF ProcReap, Section
  <2> QED  BY <1>5, <2>1 DEF ProcReap, Reap, Coroutines
<1>6. CASE ProcGet
  <2>1. /\ Head(pending_queue) \in Samples \cup {None}
        /\ pending_queue' \in Seq(Samples \cup {None})
    BY <1>6, SeqSteps DEF ProcGet
  <2> QED  BY <1>6, <2>1 DEF ProcGet
<1>7. CASE ProcLock
  <2>1. waiters' \in Seq(Coroutines) /\ lock' = "processor"
    BY <1>7, TurnLemma DEF ProcLock, TakeLock
  <2> QED  BY <1>7, <2>1 DEF ProcLock, Coroutines
<1>8. CASE ProcUnlock
  <2>1. finished' \subseteq finished /\ failed' \subseteq finished' /\ lock' = "free"
    BY <1>8 DEF ProcUnlock, Reap, Free
  <2>2. proc_pc' \in {"limit", "end", "failed"} /\ (proc_pc' = "limit" => proc_pc = "limit")
    BY <1>8 DEF ProcUnlock, Reap
  <2>3. reaping' = {}
    BY <1>8 DEF ProcUnlock
  <2> QED  BY <1>8, <2>1, <2>2, <2>3 DEF ProcUnlock, Reap, Free
<1>9. CASE ProcSubmit
  <2>1. waiters' \in Seq(Coroutines) /\ UNCHANGED lock
    BY <1>9, TurnLemma DEF ProcSubmit, Section
  <2> QED  BY <1>9, <2>1 DEF ProcSubmit, Coroutines
<1>10. CASE ProcEnd
  BY <1>10 DEF ProcEnd
<1>11. CASE LineUp("processor")
  BY <1>11, LineUpLemma DEF Coroutines
<1> QED  BY <1>1, <1>2, <1>3, <1>4, <1>5, <1>6, <1>7, <1>8, <1>9, <1>10, <1>11 DEF ProcStep

LEMMA TaskTypeOK ==
  ASSUME TypeOK, NEW t \in Samples, TaskPut(t) \/ TaskReturn(t) \/ TaskRaise(t)
  PROVE  TypeOK'
<1> USE DEF mqVars, lockVars, pauseVars, taskVars, feedVars, procVars, trainVars
<1>1. CASE TaskPut(t)
  BY <1>1, PutLemma DEF TaskPut, TypeOK, Items
<1>2. CASE TaskReturn(t)
  BY <1>2 DEF TaskReturn, TypeOK
<1>3. CASE TaskRaise(t)
  BY <1>3 DEF TaskRaise, TypeOK
<1> QED  BY <1>1, <1>2, <1>3

LEMMA FinishTypeOK == TypeOK /\ FinishStep => TypeOK'
<1> SUFFICES ASSUME TypeOK, FinishStep PROVE TypeOK'
  OBVIOUS
<1> USE DEF mqVars, lockVars, pauseVars, taskVars, feedVars, procVars, trainVars
<1>1. CASE FinishSignal
  BY <1>1, PutLemma DEF FinishSignal, TypeOK, Items
<1>2. CASE FinishRunning
  <2>1. running' = FALSE /\ gen_pc' = "done"
    BY <1>2 DEF FinishRunning
  <2>2. running' \in BOOLEAN
    BY <2>1
  <2>3. waiters' \in Seq(Coroutines) /\ UNCHANGED lock
    BY <1>2, TurnLemma DEF FinishRunning, Section
  <2> QED  BY <1>2, <2>1, <2>2, <2>3 DEF FinishRunning, TypeOK, Coroutines
<1>3. CASE LineUp("main")
  BY <1>3, LineUpLemma DEF Coroutines
<1> QED  BY <1>1, <1>2, <1>3 DEF FinishStep

LEMMA ResumeType == Resume => paused' \in BOOLEAN /\ resume_event' \in BOOLEAN
BY DEF Resume

LEMMA MonitorTypeOK == TypeOK /\ MonitorStep => TypeOK'
<1> SUFFICES ASSUME TypeOK, MonitorStep PROVE TypeOK'
  OBVIOUS
<1>1. /\ waiters \in Seq(Coroutines) /\ waiters # <<>> => Tail(waiters) \in Seq(Coroutines)
      /\ Append(waiters, "monitor") \in Seq(Coroutines)
      /\ paused \in BOOLEAN /\ resume_event \in BOOLEAN
  BY SeqSteps DEF TypeOK, Coroutines
<1> DEFINE Typed ==
      /\ waiters' \in Seq(Coroutines)
      /\ mon_pc' \in {"top", "sleep", "not_full", "resume", "done"}
      /\ paused' \in BOOLEAN /\ resume_event' \in BOOLEAN
<1>2. ASSUME MonitorCheck PROVE Typed
  <2>1. CASE paused /\ ~QueueFull
    BY <1>1, <1>2, <2>1 DEF MonitorCheck, pauseVars
  <2>2. CASE ~(paused /\ ~QueueFull)
    <3>1. Iterate(waiters) /\ UNCHANGED pauseVars
      BY <1>2, <2>2 DEF MonitorCheck
    <3> QED  BY <1>1, <3>1, IterateLemma DEF pauseVars
  <2> QED  BY <2>1, <2>2
<1>3. ASSUME MonitorDecide PROVE Typed
  <2>1. CASE Iterate(waiters) /\ (UNCHANGED pauseVars \/ Resume)
    BY <1>1, <2>1, IterateLemma, ResumeType DEF pauseVars
  <2>2. CASE waiters' = Append(waiters, "monitor") /\ mon_pc' = "resume" /\ UNCHANGED pauseVars
    BY <1>1, <2>2 DEF pauseVars
  <2> QED  BY <1>3, <2>1, <2>2 DEF MonitorDecide
<1>4. ASSUME MonitorServed PROVE Typed
  <2>1. waiters # <<>>
    BY <1>4 DEF MonitorServed
  <2>2. CASE Iterate(Tail(waiters)) /\ Resume
    <3>1. Tail(waiters) \in Seq(Coroutines) /\ Iterate(Tail(waiters))
      BY <1>1, <2>1, <2>2
    <3>2. waiters' \in Seq(Coroutines) /\ mon_pc' \in {"top", "sleep", "done"}
      BY <3>1, IterateLemma, Zenon
    <3> QED  BY <2>2, <3>2, ResumeType
  <2>3. CASE waiters' = Tail(waiters) /\ mon_pc' \in {"sleep", "done"} /\ UNCHANGED pauseVars
    BY <1>1, <2>1, <2>3 DEF pauseVars
  <2> QED  BY <1>4, <2>2, <2>3 DEF MonitorServed
<1>5. Typed
  BY <1>2, <1>3, <1>4 DEF MonitorStep
<1>6. UNCHANGED <<mqVars, lock, staleness_samples, taskVars, feedVars, procVars,
                  gen_pc, running, trainVars, main_pc>>
  BY DEF MonitorStep
<1> QED  BY <1>5, <1>6 DEF TypeOK, Coroutines, mqVars, taskVars, feedVars, procVars, trainVars

LEMMA TrainerTypeOK == TypeOK /\ TrainerActs => TypeOK'
<1> SUFFICES ASSUME TypeOK, TrainerActs PROVE TypeOK'
  OBVIOUS
<1> USE DEF mqVars, lockVars, pauseVars, taskVars, feedVars, procVars, trainVars
<1>1. CASE TrainerGet
  <2> DEFINE Rest == UNCHANGED <<lockVars, pauseVars, staleness_samples, taskVars, feedVars,
                                 procVars, gen_pc, running, mon_pc, stopping, trained,
                                 local_trigger_step, current_param_version, rollout_version,
                                 snapshot, main_pc>>
  <2>1. MQ!GetSample /\ Rest
    BY <1>1 DEF TrainerGet
  <2>2. /\ queue' \in Seq(Samples \cup {None}) /\ mq_running' \in BOOLEAN
        /\ {total_produced', total_consumed', dropped_samples'} \subseteq Nat
    BY <2>1, GetLemma DEF Items
  <2>3. CASE Head(queue) = None
    <3>1. batch' = <<>> /\ train_pc' = "stop"
      BY <1>1, <2>3 DEF TrainerGet
    <3> QED  BY <2>1, <2>2, <3>1 DEF TypeOK
  <2>4. CASE Head(queue) # None
    <3>1. Head(queue) \in Samples
      BY <1>1, <2>4, GetLemma DEF TrainerGet, Items
    <3>2. batch' = Append(batch, Head(queue)) /\ train_pc' \in {"collect", "train"}
      BY <1>1, <2>4 DEF TrainerGet
    <3>3. batch' \in Seq(Samples)
      BY <3>1, <3>2, SeqSteps DEF TypeOK
    <3>4. train_pc' \in {"collect", "train"}
      BY <3>2
    <3> QED  BY <2>1, <2>2, <3>3, <3>4 DEF TypeOK
  <2> QED  BY <2>3, <2>4
<1>2. CASE TrainerStep
  <2>1. trained' \in Seq(Samples) /\ batch' \in Seq(Samples)
    <3>1. trained \in Seq(Samples) /\ batch \in Seq(Samples)
      BY DEF TypeOK
    <3>2. trained \o batch \in Seq(Samples)
      BY <3>1
    <3> QED  BY <1>2, <3>2 DEF TrainerStep
  <2>2. local_trigger_step' \in 1 .. TriggerSyncStep /\ current_param_version' \in Nat
    BY <1>2 DEF TrainerStep, MidTrigger, TypeOK
  <2>3. /\ train_pc' = "update_weights"
        /\ UNCHANGED <<mqVars, lockVars, pauseVars, staleness_samples, taskVars, feedVars, procVars,
                       gen_pc, running, mon_pc, stopping, rollout_version, snapshot, main_pc>>
    BY <1>2 DEF TrainerStep
  <2> QED  BY <2>1, <2>2, <2>3 DEF TypeOK
<1>3. CASE TrainerStop
  BY <1>3 DEF TrainerStop, TypeOK
<1>4. CASE TrainerSync
  BY <1>4 DEF TrainerSync, AfterUpdate, TypeOK
<1>5. CASE ResetBegin
  <2>1. active_tasks \in SUBSET Samples
    BY DEF active_tasks, TypeOK
  <2>2. Cardinality(active_tasks) \in Nat
    BY <2>1, TaskSets
  <2>3. paused' \in BOOLEAN /\ resume_event' \in BOOLEAN
    BY <1>5, ResumeType DEF ResetBegin
  <2>4. waiters' \in Seq(Coroutines) /\ lock' = "reset"
    BY <1>5, TurnLemma DEF ResetBegin, TakeLock
  <2> QED  BY <1>5, <2>2, <2>3, <2>4 DEF ResetBegin, TypeOK, Coroutines
<1>6. CASE ResetFinish
  <2>1. ResetCount \in Nat
    BY SeqSteps DEF ResetCount, TypeOK
  <2> QED  BY <1>6, <2>1 DEF ResetFinish, AfterUpdate, TypeOK, Free
<1>7. CASE LineUp("reset")
  BY <1>7, LineUpLemma DEF Coroutines
<1> QED  BY <1>1, <1>2, <1>3, <1>4, <1>5, <1>6, <1>7 DEF TrainerActs

LEMMA MainTypeOK == TypeOK /\ MainFinish => TypeOK'
BY DEF MainFinish, MQ!ClearQueue, TypeOK, mqVars, lockVars, pauseVars, taskVars, feedVars, procVars,
       trainVars

LEMMA NextTypeOK == TypeOK /\ [Next]_vars => TypeOK'
<1> SUFFICES ASSUME TypeOK, [Next]_vars PROVE TypeOK'
  OBVIOUS
<1>1. CASE UNCHANGED vars
  BY <1>1 DEF vars, TypeOK, mqVars, lockVars, pauseVars, taskVars, feedVars, procVars, trainVars
<1> QED  BY <1>1, FeederTypeOK, ProcTypeOK, TaskTypeOK, FinishTypeOK, MonitorTypeOK,
            TrainerTypeOK, MainTypeOK DEF Next, Terminated

\* Every variable of the pipeline keeps its type, whatever the constants.
THEOREM TypeCorrect == Spec => []TypeOK
BY InitTypeOK, NextTypeOK, PTL DEF Spec

-----------------------------------------------------------------------------
\* The pause protocol

\* paused and _resume_event agree, and while paused the processor is parked.
THEOREM PausedIsParked == Spec => []ParkedWhilePaused
<1>1. Init => ParkedWhilePaused
  BY DEF Init, ParkedWhilePaused
<1>2. TypeOK /\ ParkedWhilePaused /\ [Next]_vars => ParkedWhilePaused'
  <2> SUFFICES ASSUME TypeOK, ParkedWhilePaused, [Next]_vars
               PROVE  ParkedWhilePaused'
    OBVIOUS
  <2> USE DEF ParkedWhilePaused, TypeOK, procVars, pauseVars
  <2>1. CASE ProcStep
    <3>1. CASE ProcCheck
      BY <3>1 DEF ProcCheck
    <3>2. CASE ProcDecide
      BY <3>2 DEF ProcDecide
    <3>3. CASE ProcPause
      BY <3>3 DEF ProcPause
    <3>4. CASE ProcWake
      BY <3>4 DEF ProcWake
    <3>5. CASE ProcReap
      BY <3>5 DEF ProcReap, Reap
    <3>6. CASE ProcGet
      BY <3>6 DEF ProcGet
    <3>7. CASE ProcLock
      BY <3>7 DEF ProcLock
    <3>8. CASE ProcUnlock
      BY <3>8 DEF ProcUnlock, Reap
    <3>9. CASE ProcSubmit
      BY <3>9 DEF ProcSubmit
    <3>10. CASE ProcEnd
      BY <3>10 DEF ProcEnd
    <3>11. CASE LineUp("processor")
      BY <3>11 DEF LineUp
    <3> QED  BY <2>1, <3>1, <3>2, <3>3, <3>4, <3>5, <3>6, <3>7, <3>8, <3>9, <3>10, <3>11
             DEF ProcStep
  <2>2. CASE MonitorStep
    <3>1. UNCHANGED pauseVars \/ Resume
      BY <2>2 DEF MonitorStep, MonitorCheck, MonitorDecide, MonitorServed
    <3>2. UNCHANGED proc_pc
      BY <2>2 DEF MonitorStep
    <3>3. CASE UNCHANGED pauseVars
      BY <3>2, <3>3
    <3>4. CASE Resume
      <4>1. paused' = FALSE /\ resume_event' = TRUE
        BY <3>4 DEF Resume
      <4> QED  BY <4>1
    <3> QED  BY <3>1, <3>3, <3>4
  <2>3. CASE TrainerActs
    <3>1. CASE TrainerGet
      BY <3>1 DEF TrainerGet
    <3>2. CASE TrainerStep
      BY <3>2 DEF TrainerStep
    <3>3. CASE TrainerStop
      BY <3>3 DEF TrainerStop
    <3>4. CASE TrainerSync
      BY <3>4 DEF TrainerSync
    <3>5. CASE ResetBegin
      BY <3>5 DEF ResetBegin, Resume
    <3>6. CASE ResetFinish
      BY <3>6 DEF ResetFinish
    <3>7. CASE LineUp("reset")
      BY <3>7 DEF LineUp
    <3> QED  BY <2>3, <3>1, <3>2, <3>3, <3>4, <3>5, <3>6, <3>7 DEF TrainerActs
  <2>4. ASSUME NEW t \in Samples, TaskPut(t) \/ TaskReturn(t) \/ TaskRaise(t)
        PROVE  ParkedWhilePaused'
    BY <2>4 DEF TaskPut, TaskReturn, TaskRaise
  <2>5. CASE FeedSample \/ FeedEndSignal \/ FinishStep \/ MainFinish
    BY <2>5 DEF FeedSample, FeedEndSignal, FinishStep, FinishSignal, FinishRunning, LineUp,
                MainFinish
  <2>6. CASE UNCHANGED vars
    BY <2>6 DEF vars
  <2> QED  BY <2>1, <2>2, <2>3, <2>4, <2>5, <2>6 DEF Next, Terminated
<1> QED  BY <1>1, <1>2, TypeCorrect, PTL DEF Spec

-----------------------------------------------------------------------------
\* The freshness bounds

IInv == TypeOK /\ FreshnessInv

LEMMA InitFreshness == Init => FreshnessInv
<1> SUFFICES ASSUME Init PROVE FreshnessInv
  OBVIOUS
<1>1. Cardinality(generating) = 0 /\ Len(queue) = 0 /\ Holding = 0
  BY FS_EmptySet DEF Init, MQ!MQInit, Holding
<1>2. Outstanding = 0
  BY <1>1 DEF Outstanding
<1>3. OutstandingBound /\ CounterUndercountsByOne
  BY <1>2, LimitType DEF OutstandingBound, CounterUndercountsByOne, Init
<1>4. Roles /\ SnapshotCovers /\ RoomBeforeGet
  BY DEF Init, Roles, SnapshotCovers, RoomBeforeGet, Free
<1> QED  BY <1>3, <1>4 DEF FreshnessInv

\* What the bounds are about, in numbers.
LEMMA Numbers ==
  ASSUME TypeOK, TypeOK'
  PROVE  /\ Cardinality(generating) \in Nat /\ Cardinality(generating') \in Nat
         /\ Len(queue) \in Nat /\ Len(queue') \in Nat
         /\ Holding \in {0, 1} /\ Holding' \in {0, 1}
         /\ Outstanding \in Nat /\ Outstanding' \in Nat
         /\ staleness_samples \in Nat /\ staleness_samples' \in Nat
         /\ snapshot \in Nat /\ snapshot' \in Nat
         /\ max_required_samples \in Nat
<1>1. generating \in SUBSET Samples /\ generating' \in SUBSET Samples
  BY DEF TypeOK
<1>2. Cardinality(generating) \in Nat /\ Cardinality(generating') \in Nat
  BY <1>1, TaskSets
<1>3. queue \in Seq(Items) /\ queue' \in Seq(Items)
  BY DEF TypeOK, Items
<1>4. Len(queue) \in Nat /\ Len(queue') \in Nat
  BY <1>3, SeqSteps
<1>5. Holding \in {0, 1} /\ Holding' \in {0, 1}
  BY DEF Holding
<1>6. Outstanding \in Nat /\ Outstanding' \in Nat
  BY <1>2, <1>4, <1>5 DEF Outstanding
<1>7. staleness_samples \in Nat /\ staleness_samples' \in Nat
      /\ snapshot \in Nat /\ snapshot' \in Nat
  BY DEF TypeOK
<1> QED  BY <1>2, <1>4, <1>5, <1>6, <1>7, LimitType

\* A step that neither touches the counter nor adds to what is outstanding keeps
\* both bounds.
LEMMA NotMoreOutstanding ==
  ASSUME TypeOK, TypeOK', FreshnessInv,
         Outstanding' <= Outstanding,
         staleness_samples' = staleness_samples,
         gen_pc' = "stream" => gen_pc = "stream"
  PROVE  OutstandingBound' /\ CounterUndercountsByOne'
BY Numbers DEF FreshnessInv, OutstandingBound, CounterUndercountsByOne

\* Steps that leave the tasks that generate, the queue and the counter alone.
LEMMA FreshnessUntouched ==
  ASSUME TypeOK, TypeOK', FreshnessInv, Roles',
         UNCHANGED <<generating, queue, staleness_samples, held>>,
         gen_pc' = "stream" => gen_pc = "stream",
         lock' = "reset" => lock = "reset" /\ snapshot' = snapshot,
         proc_pc' = "get" => proc_pc = "get"
  PROVE  FreshnessInv'
<1>1. Outstanding' = Outstanding
  BY DEF Outstanding, Holding
<1>2. OutstandingBound' /\ CounterUndercountsByOne'
  BY <1>1, Numbers, NotMoreOutstanding
<1>3. SnapshotCovers' /\ RoomBeforeGet'
  BY DEF FreshnessInv, SnapshotCovers, RoomBeforeGet, max_required_samples
<1> QED  BY <1>2, <1>3 DEF FreshnessInv

LEMMA LineUpFreshness ==
  ASSUME TypeOK, TypeOK', FreshnessInv, NEW c \in Coroutines, LineUp(c)
  PROVE  FreshnessInv'
<1>1. UNCHANGED <<generating, queue, staleness_samples, held, proc_pc, train_pc, snapshot,
                  lock, gen_pc>>
  BY DEF LineUp, mqVars, taskVars, procVars, trainVars
<1>2. Roles'
  BY <1>1 DEF FreshnessInv, Roles, ProcessorOver
<1> QED  BY <1>1, <1>2, FreshnessUntouched

LEMMA ProcFreshness ==
  ASSUME TypeOK, TypeOK', FreshnessInv, ProcStep
  PROVE  FreshnessInv'
<1> USE DEF procVars, taskVars, lockVars, mqVars, trainVars, feedVars
<1>1. CASE ProcCheck
  <2>1. Roles'
    BY <1>1 DEF ProcCheck, FreshnessInv, Roles, ProcessorOver
  <2> QED  BY <1>1, <2>1, FreshnessUntouched DEF ProcCheck
<1>2. CASE ProcDecide
  <2>1. Roles'
    BY <1>2 DEF ProcDecide, FreshnessInv, Roles, ProcessorOver
  <2>2. UNCHANGED <<generating, queue, staleness_samples, held, lock, snapshot, gen_pc>>
    BY <1>2 DEF ProcDecide
  <2>3. Outstanding' = Outstanding
    BY <2>2 DEF Outstanding, Holding
  <2>4. OutstandingBound' /\ CounterUndercountsByOne'
    BY <2>2, <2>3, Numbers, NotMoreOutstanding
  <2>5. RoomBeforeGet'
    <3> SUFFICES ASSUME proc_pc' = "get"
                 PROVE  Cardinality(generating) + Len(queue) <= max_required_samples
      BY <2>2 DEF RoomBeforeGet, max_required_samples
    <3>1. staleness_samples < max_required_samples
      BY <1>2, Numbers DEF ProcDecide, TooStale
    <3>2. gen_pc = "stream" /\ held = None
      BY <1>2 DEF ProcDecide, FreshnessInv, Roles, ProcessorOver
    <3>3. Outstanding <= staleness_samples + 1 /\ Holding = 0
      BY <3>2 DEF FreshnessInv, CounterUndercountsByOne, Holding
    <3> QED  BY <3>1, <3>3, Numbers DEF Outstanding
  <2>6. SnapshotCovers'
    BY <2>2 DEF FreshnessInv, SnapshotCovers
  <2> QED  BY <2>1, <2>4, <2>5, <2>6 DEF FreshnessInv
<1>3. CASE ProcPause
  <2>1. Roles'
    BY <1>3 DEF ProcPause, Section, FreshnessInv, Roles, ProcessorOver
  <2> QED  BY <1>3, <2>1, FreshnessUntouched DEF ProcPause, Section
<1>4. CASE ProcWake
  <2>1. Roles'
    BY <1>4 DEF ProcWake, FreshnessInv, Roles, ProcessorOver
  <2> QED  BY <1>4, <2>1, FreshnessUntouched DEF ProcWake
<1>5. CASE ProcReap
  <2>1. Roles'
    BY <1>5 DEF ProcReap, Reap, Section, FreshnessInv, Roles, ProcessorOver, Free
  <2> QED  BY <1>5, <2>1, FreshnessUntouched DEF ProcReap, Reap, Section
<1>6. CASE ProcGet
  <2>1. Roles'
    BY <1>6 DEF ProcGet, FreshnessInv, Roles, ProcessorOver
  <2>2. /\ UNCHANGED <<generating, queue, lock, snapshot, gen_pc>>
        /\ staleness_samples' = staleness_samples + 1
        /\ held = None /\ proc_pc' # "get"
    BY <1>6 DEF ProcGet, FreshnessInv, Roles
  <2>3. Cardinality(generating) + Len(queue) <= max_required_samples
    BY <1>6 DEF ProcGet, FreshnessInv, RoomBeforeGet
  <2>4. Outstanding' = Cardinality(generating) + Holding' + Len(queue)
        /\ Outstanding = Cardinality(generating) + Len(queue)
    <3>1. Holding = 0 /\ Cardinality(generating') = Cardinality(generating)
          /\ Len(queue') = Len(queue)
      BY <2>2 DEF Holding
    <3>2. Cardinality(generating) \in Nat /\ Len(queue) \in Nat
      BY Numbers
    <3> QED  BY <3>1, <3>2 DEF Outstanding
  <2>5. OutstandingBound'
    <3>1. Cardinality(generating) \in Nat /\ Len(queue) \in Nat /\ max_required_samples \in Nat
          /\ Holding' \in {0, 1}
      BY Numbers
    <3>2. Outstanding' <= max_required_samples + 1
      BY <2>3, <2>4, <3>1
    <3> QED  BY <3>2 DEF OutstandingBound, max_required_samples
  <2>6. CounterUndercountsByOne'
    BY <2>2, <2>4, Numbers DEF FreshnessInv, CounterUndercountsByOne
  <2>7. SnapshotCovers' /\ RoomBeforeGet'
    BY <2>2 DEF FreshnessInv, SnapshotCovers, RoomBeforeGet
  <2> QED  BY <2>1, <2>5, <2>6, <2>7 DEF FreshnessInv
<1>7. CASE ProcLock
  <2>1. Roles'
    BY <1>7 DEF ProcLock, TakeLock, Turn, FreshnessInv, Roles, ProcessorOver, Free
  <2> QED  BY <1>7, <2>1, FreshnessUntouched DEF ProcLock, TakeLock
<1>8. CASE ProcUnlock
  <2>1. Roles'
    BY <1>8 DEF ProcUnlock, Reap, FreshnessInv, Roles, ProcessorOver, Free
  <2> QED  BY <1>8, <2>1, FreshnessUntouched DEF ProcUnlock, Reap, Free
<1>9. CASE ProcSubmit
  <2>1. Roles'
    BY <1>9 DEF ProcSubmit, Section, Turn, FreshnessInv, Roles, ProcessorOver, Free
  <2>2. /\ generating' = generating \cup {held}
        /\ UNCHANGED <<queue, staleness_samples, gen_pc>>
        /\ held # None /\ held' = None /\ lock' = "free" /\ proc_pc' = "check"
    BY <1>9 DEF ProcSubmit, Section, Turn, Free, TypeOK
  <2>3. Cardinality(generating') <= Cardinality(generating) + 1
    <3>1. generating \in SUBSET Samples
      BY DEF TypeOK
    <3>2. IsFiniteSet(generating)
      BY <3>1, TaskSets
    <3>3. CASE held \in generating
      <4>1. generating' = generating
        BY <2>2, <3>3
      <4> QED  BY <4>1, Numbers
    <3>4. CASE held \notin generating
      <4>1. Cardinality(generating \cup {held}) = Cardinality(generating) + 1
        BY <3>2, <3>4, FS_AddElement
      <4> QED  BY <2>2, <4>1, Numbers
    <3> QED  BY <3>3, <3>4
  <2>4. Outstanding' <= Outstanding
    BY <2>2, <2>3, Numbers DEF Outstanding, Holding
  <2>5. OutstandingBound' /\ CounterUndercountsByOne'
    BY <2>2, <2>4, NotMoreOutstanding
  <2>6. SnapshotCovers' /\ RoomBeforeGet'
    BY <2>2 DEF SnapshotCovers, RoomBeforeGet
  <2> QED  BY <2>1, <2>5, <2>6 DEF FreshnessInv
<1>10. CASE ProcEnd
  <2>1. Roles'
    BY <1>10 DEF ProcEnd, FreshnessInv, Roles, ProcessorOver, Drained, Free
  <2> QED  BY <1>10, <2>1, FreshnessUntouched DEF ProcEnd
<1>11. CASE LineUp("processor")
  BY <1>11, LineUpFreshness DEF Coroutines
<1> QED  BY <1>1, <1>2, <1>3, <1>4, <1>5, <1>6, <1>7, <1>8, <1>9, <1>10, <1>11 DEF ProcStep

\* A task that leaves `generating' makes room for the sample it puts.
LEMMA TaskLeaves ==
  ASSUME TypeOK, NEW t \in generating
  PROVE  Cardinality(generating \ {t}) = Cardinality(generating) - 1
<1>1. generating \in SUBSET Samples
  BY DEF TypeOK
<1> QED  BY <1>1, TaskSets, FS_RemoveElement

LEMMA TaskFreshness ==
  ASSUME TypeOK, TypeOK', FreshnessInv,
         NEW t \in Samples, TaskPut(t) \/ TaskReturn(t) \/ TaskRaise(t)
  PROVE  FreshnessInv'
<1> USE DEF procVars, lockVars, mqVars, trainVars
<1>1. UNCHANGED <<lock, staleness_samples, proc_pc, held, gen_pc, train_pc, snapshot>>
  BY DEF TaskPut, TaskReturn, TaskRaise
<1>2. Roles'
  BY <1>1 DEF FreshnessInv, Roles, ProcessorOver
<1>3. CASE TaskReturn(t)
  BY <1>1, <1>2, <1>3, FreshnessUntouched DEF TaskReturn
<1>4. CASE TaskPut(t) \/ TaskRaise(t)
  <2>1. t \in generating /\ generating' = generating \ {t}
    BY <1>4 DEF TaskPut, TaskRaise
  <2>2. Cardinality(generating') = Cardinality(generating) - 1
    BY <2>1, TaskLeaves
  <2>3. Len(queue') <= Len(queue) + 1
    <3>1. CASE TaskPut(t)
      BY <3>1, PutLemma DEF TaskPut, Items
    <3>2. CASE TaskRaise(t)
      BY <3>2, Numbers DEF TaskRaise
    <3> QED  BY <1>4, <3>1, <3>2
  <2>4. Cardinality(generating') + Len(queue') <= Cardinality(generating) + Len(queue)
    BY <2>2, <2>3, Numbers
  <2>5. Outstanding' <= Outstanding
    BY <1>1, <2>4, Numbers DEF Outstanding, Holding
  <2>6. OutstandingBound' /\ CounterUndercountsByOne'
    BY <1>1, <2>5, NotMoreOutstanding
  <2>7. RoomBeforeGet'
    BY <1>1, <2>4, Numbers DEF FreshnessInv, RoomBeforeGet, max_required_samples
  <2>8. SnapshotCovers'
    BY <1>1, <2>2, Numbers DEF FreshnessInv, SnapshotCovers
  <2> QED  BY <1>2, <2>6, <2>7, <2>8 DEF FreshnessInv
<1> QED  BY <1>3, <1>4

LEMMA TrainerFreshness ==
  ASSUME TypeOK, TypeOK', FreshnessInv, TrainerActs
  PROVE  FreshnessInv'
<1> USE DEF procVars, taskVars, lockVars, mqVars, trainVars
<1>1. CASE TrainerGet
  <2>1. /\ UNCHANGED <<lock, staleness_samples, generating, proc_pc, held, gen_pc, snapshot>>
        /\ train_pc = "collect" /\ train_pc' # "reset_size"
    BY <1>1 DEF TrainerGet
  <2>2. Roles'
    BY <2>1 DEF FreshnessInv, Roles, ProcessorOver
  <2>3. Len(queue') = Len(queue) - 1
    BY <1>1, GetLemma DEF TrainerGet
  <2>4. Outstanding' <= Outstanding
    BY <2>1, <2>3, Numbers DEF Outstanding, Holding
  <2>5. OutstandingBound' /\ CounterUndercountsByOne'
    BY <2>1, <2>4, NotMoreOutstanding
  <2>6. SnapshotCovers' /\ RoomBeforeGet'
    BY <2>1, <2>3, Numbers DEF FreshnessInv, SnapshotCovers, RoomBeforeGet, max_required_samples
  <2> QED  BY <2>2, <2>5, <2>6 DEF FreshnessInv
<1>2. CASE TrainerStep
  <2>1. Roles'
    BY <1>2 DEF TrainerStep, FreshnessInv, Roles, ProcessorOver
  <2> QED  BY <1>2, <2>1, FreshnessUntouched DEF TrainerStep
<1>3. CASE TrainerStop
  <2>1. Roles'
    BY <1>3 DEF TrainerStop, FreshnessInv, Roles, ProcessorOver
  <2> QED  BY <1>3, <2>1, FreshnessUntouched DEF TrainerStop
<1>4. CASE TrainerSync
  <2>1. Roles'
    BY <1>4 DEF TrainerSync, AfterUpdate, FreshnessInv, Roles, ProcessorOver
  <2> QED  BY <1>4, <2>1, FreshnessUntouched DEF TrainerSync
<1>5. CASE ResetBegin
  <2>1. /\ UNCHANGED <<queue, staleness_samples, generating, proc_pc, held, gen_pc>>
        /\ lock' = "reset" /\ train_pc' = "reset_size"
        /\ snapshot' = Cardinality(active_tasks)
    BY <1>5 DEF ResetBegin, TakeLock
  <2>2. Roles'
    BY <2>1 DEF FreshnessInv, Roles, ProcessorOver
  <2>3. Cardinality(generating) <= Cardinality(active_tasks)
    <3>1. active_tasks \in SUBSET Samples /\ generating \subseteq active_tasks
      BY DEF active_tasks, TypeOK
    <3> QED  BY <3>1, TaskSets, FS_Subset
  <2>4. SnapshotCovers'
    BY <2>1, <2>3 DEF SnapshotCovers
  <2>5. Outstanding' = Outstanding
    BY <2>1 DEF Outstanding, Holding
  <2>6. OutstandingBound' /\ CounterUndercountsByOne'
    BY <2>1, <2>5, Numbers, NotMoreOutstanding
  <2>7. RoomBeforeGet'
    BY <2>1 DEF FreshnessInv, RoomBeforeGet, max_required_samples
  <2> QED  BY <2>2, <2>4, <2>6, <2>7 DEF FreshnessInv
<1>6. CASE ResetFinish
  <2>1. /\ UNCHANGED <<queue, generating, proc_pc, held, gen_pc>>
        /\ train_pc = "reset_size" /\ lock' = "free" /\ train_pc' # "reset_size"
        /\ staleness_samples' = snapshot + Len(queue)
    BY <1>6 DEF ResetFinish, ResetCount, AfterUpdate, Free
  <2>2. Roles'
    BY <2>1 DEF FreshnessInv, Roles, ProcessorOver
  <2>3. Cardinality(generating) <= snapshot
    BY <2>1 DEF FreshnessInv, Roles, SnapshotCovers
  <2>4. Outstanding' = Outstanding
    BY <2>1 DEF Outstanding, Holding
  <2>5. OutstandingBound'
    BY <2>1, <2>4 DEF FreshnessInv, OutstandingBound, max_required_samples
  <2>6. CounterUndercountsByOne'
    BY <2>1, <2>3, <2>4, Numbers DEF CounterUndercountsByOne, Outstanding
  <2>7. SnapshotCovers' /\ RoomBeforeGet'
    BY <2>1 DEF FreshnessInv, SnapshotCovers, RoomBeforeGet, max_required_samples
  <2> QED  BY <2>2, <2>5, <2>6, <2>7 DEF FreshnessInv
<1>7. CASE LineUp("reset")
  BY <1>7, LineUpFreshness DEF Coroutines
<1> QED  BY <1>1, <1>2, <1>3, <1>4, <1>5, <1>6, <1>7 DEF TrainerActs

LEMMA FinishFreshness ==
  ASSUME TypeOK, TypeOK', FreshnessInv, FinishStep \/ MainFinish
  PROVE  FreshnessInv'
<1> USE DEF procVars, taskVars, lockVars, mqVars, trainVars
<1>1. /\ UNCHANGED <<generating, staleness_samples, held, proc_pc, train_pc, snapshot, lock>>
      /\ gen_pc' # "stream"
      /\ ProcessorOver
  BY DEF FinishStep, FinishSignal, FinishRunning, Section, LineUp, AtLock, MainFinish,
         FreshnessInv, Roles
<1>2. Roles' /\ SnapshotCovers' /\ RoomBeforeGet'
  BY <1>1 DEF FreshnessInv, Roles, SnapshotCovers, RoomBeforeGet, ProcessorOver
<1>3. OutstandingBound' /\ CounterUndercountsByOne'
  BY <1>1 DEF OutstandingBound, CounterUndercountsByOne
<1> QED  BY <1>2, <1>3 DEF FreshnessInv

LEMMA OtherFreshness ==
  ASSUME TypeOK, TypeOK', FreshnessInv,
         FeedSample \/ FeedEndSignal \/ MonitorStep \/ UNCHANGED vars
  PROVE  FreshnessInv'
<1> USE DEF procVars, taskVars, lockVars, mqVars, trainVars
<1>1. UNCHANGED <<generating, queue, staleness_samples, held, proc_pc, train_pc, snapshot,
                  lock, gen_pc>>
  BY DEF FeedSample, FeedEndSignal, MonitorStep, vars
<1>2. Roles'
  BY <1>1 DEF FreshnessInv, Roles, ProcessorOver
<1> QED  BY <1>1, <1>2, FreshnessUntouched

\* The invariant of the processor, the lock and the resets (_processor_worker,
\* reset_staleness), also for a reset that begins while a sample is held.
THEOREM FreshnessInvariance == Spec => []IInv
<1>1. Init => IInv
  BY InitTypeOK, InitFreshness DEF IInv
<1>2. IInv /\ [Next]_vars => IInv'
  <2> SUFFICES ASSUME IInv, [Next]_vars PROVE IInv'
    OBVIOUS
  <2>1. TypeOK /\ TypeOK' /\ FreshnessInv
    BY NextTypeOK DEF IInv
  <2>2. FreshnessInv'
    BY <2>1, ProcFreshness, TaskFreshness, TrainerFreshness, FinishFreshness, OtherFreshness
       DEF Next, Terminated
  <2> QED  BY <2>1, <2>2 DEF IInv
<1> QED  BY <1>1, <1>2, PTL DEF Spec

\* reset_staleness and _should_pause_generation: however the reset interleaves
\* with the processor, at most one sample more than the limit is outstanding.
THEOREM Freshness == Spec => []OutstandingBound
<1>1. IInv => OutstandingBound
  BY DEF IInv, FreshnessInv
<1> QED  BY <1>1, FreshnessInvariance, PTL

\* The overwritten increment is the only one the counter can lose.
THEOREM CounterIsAlmostExact == Spec => []CounterUndercountsByOne
<1>1. IInv => CounterUndercountsByOne
  BY DEF IInv, FreshnessInv
<1> QED  BY <1>1, FreshnessInvariance, PTL

=============================================================================
