----------------------- MODULE FullyAsyncStream_proofs -----------------------
(***************************************************************************)
(* Proofs about the stream of samples of FullyAsync, for every value of    *)
(* its constants and whatever samples fail: every sample is in one place,  *)
(* the end signal closes the queue and is never dropped, no sample is lost *)
(* in a run without a failure, and the pipeline implements TrainingStream. *)
(***************************************************************************)
EXTENDS FullyAsync_proofs

USE FullyAsyncAssumption

-----------------------------------------------------------------------------
\* The samples of a sequence, the end signal left out

Elems(s) == {s[i] : i \in 1 .. Len(s)} \ {None}

\* No sample twice.
Distinct(s) == \A i, j \in 1 .. Len(s) : s[i] = s[j] /\ s[i] # None => i = j

LEMMA EmptyElems == Elems(<<>>) = {} /\ Distinct(<<>>)
BY DEF Elems, Distinct

LEMMA AppendElems ==
  ASSUME NEW s \in Seq(Items), NEW e \in Items
  PROVE  /\ Elems(Append(s, e)) = Elems(s) \cup ({e} \ {None})
         /\ Distinct(s) /\ e \notin Elems(s) => Distinct(Append(s, e))
<1>1. /\ Append(s, e) \in Seq(Items)
      /\ Len(Append(s, e)) = Len(s) + 1
      /\ Len(s) \in Nat
      /\ \A i \in 1 .. Len(s) : Append(s, e)[i] = s[i]
      /\ Append(s, e)[Len(s) + 1] = e
  OBVIOUS
<1>2. 1 .. Len(s) + 1 = (1 .. Len(s)) \cup {Len(s) + 1}
  BY <1>1
<1>3. Elems(Append(s, e)) = Elems(s) \cup ({e} \ {None})
  <2>1. {Append(s, e)[i] : i \in 1 .. Len(s) + 1} = {s[i] : i \in 1 .. Len(s)} \cup {e}
    BY <1>1, <1>2
  <2> QED  BY <1>1, <2>1 DEF Elems
<1>4. ASSUME Distinct(s), e \notin Elems(s)
      PROVE  Distinct(Append(s, e))
  <2> SUFFICES ASSUME NEW i \in 1 .. Len(s) + 1, NEW j \in 1 .. Len(s) + 1,
                      Append(s, e)[i] = Append(s, e)[j], Append(s, e)[i] # None
               PROVE  i = j
    BY <1>1 DEF Distinct
  <2>1. \A k \in 1 .. Len(s) : s[k] = e => e = None
    BY <1>4 DEF Elems
  <2>2. CASE i \in 1 .. Len(s) /\ j \in 1 .. Len(s)
    BY <1>1, <1>4, <2>2 DEF Distinct
  <2>3. CASE ~(i \in 1 .. Len(s) /\ j \in 1 .. Len(s))
    BY <1>1, <1>2, <2>1, <2>3
  <2> QED  BY <2>2, <2>3
<1> QED  BY <1>3, <1>4

LEMMA TailElems ==
  ASSUME NEW s \in Seq(Items), s # <<>>
  PROVE  /\ Elems(Tail(s)) \subseteq Elems(s)
         /\ Distinct(s) => Distinct(Tail(s))
         /\ Head(s) # None => Head(s) \in Elems(s)
         /\ Distinct(s) => Head(s) \notin Elems(Tail(s))
<1>1. /\ Len(s) \in Nat \ {0}
      /\ Tail(s) \in Seq(Items)
      /\ Len(Tail(s)) = Len(s) - 1
      /\ \A i \in 1 .. Len(s) - 1 : Tail(s)[i] = s[i + 1]
      /\ Head(s) = s[1]
  OBVIOUS
<1>2. \A i \in 1 .. Len(s) - 1 : i + 1 \in 1 .. Len(s) /\ i + 1 # 1
  BY <1>1
<1>3. Elems(Tail(s)) \subseteq Elems(s)
  BY <1>1, <1>2 DEF Elems
<1>4. Distinct(s) => Distinct(Tail(s))
  BY <1>1, <1>2 DEF Distinct
<1>5. 1 \in 1 .. Len(s)
  BY <1>1
<1>6. Head(s) # None => Head(s) \in Elems(s)
  BY <1>1, <1>5 DEF Elems
<1>7. Distinct(s) => Head(s) \notin Elems(Tail(s))
  BY <1>1, <1>2, <1>5 DEF Elems, Distinct
<1> QED  BY <1>3, <1>4, <1>6, <1>7

LEMMA ConcatElems ==
  ASSUME NEW s \in Seq(Items), NEW t \in Seq(Items)
  PROVE  /\ Elems(s \o t) = Elems(s) \cup Elems(t)
         /\ Distinct(s) /\ Distinct(t) /\ Elems(s) \cap Elems(t) = {} => Distinct(s \o t)
<1>1. /\ s \o t \in Seq(Items)
      /\ Len(s) \in Nat /\ Len(t) \in Nat
      /\ Len(s \o t) = Len(s) + Len(t)
      /\ \A i \in 1 .. Len(s) : (s \o t)[i] = s[i]
      /\ \A i \in 1 .. Len(t) : (s \o t)[Len(s) + i] = t[i]
  OBVIOUS
<1>2. \A i \in 1 .. Len(s) + Len(t) :
         i \in 1 .. Len(s) \/ \E k \in 1 .. Len(t) : i = Len(s) + k
  <2> SUFFICES ASSUME NEW i \in 1 .. Len(s) + Len(t), i \notin 1 .. Len(s)
               PROVE  \E k \in 1 .. Len(t) : i = Len(s) + k
    OBVIOUS
  <2>1. i - Len(s) \in 1 .. Len(t) /\ i = Len(s) + (i - Len(s))
    BY <1>1
  <2> QED  BY <2>1
<1>3. /\ \A i \in 1 .. Len(s) : i \in 1 .. Len(s) + Len(t)
      /\ \A k \in 1 .. Len(t) : Len(s) + k \in 1 .. Len(s) + Len(t)
  BY <1>1
<1>4. {(s \o t)[i] : i \in 1 .. Len(s) + Len(t)}
        = {s[i] : i \in 1 .. Len(s)} \cup {t[i] : i \in 1 .. Len(t)}
  BY <1>1, <1>2, <1>3
<1>5. Elems(s \o t) = Elems(s) \cup Elems(t)
  BY <1>1, <1>4 DEF Elems
<1>6. ASSUME Distinct(s), Distinct(t), Elems(s) \cap Elems(t) = {}
      PROVE  Distinct(s \o t)
  <2> SUFFICES ASSUME NEW i \in 1 .. Len(s) + Len(t), NEW j \in 1 .. Len(s) + Len(t),
                      (s \o t)[i] = (s \o t)[j], (s \o t)[i] # None
               PROVE  i = j
    BY <1>1 DEF Distinct
  <2>1. ASSUME NEW k \in 1 .. Len(s), NEW l \in 1 .. Len(t), s[k] = t[l], s[k] # None
        PROVE  FALSE
    <3>1. s[k] \in Elems(s) /\ t[l] \in Elems(t)
      BY <2>1 DEF Elems
    <3> QED  BY <1>6, <2>1, <3>1
  <2>2. CASE i \in 1 .. Len(s) /\ j \in 1 .. Len(s)
    BY <1>1, <1>6, <2>2 DEF Distinct
  <2>3. CASE i \in 1 .. Len(s) /\ j \notin 1 .. Len(s)
    <3>1. PICK l \in 1 .. Len(t) : j = Len(s) + l
      BY <1>2, <2>3
    <3>2. (s \o t)[i] = s[i] /\ (s \o t)[j] = t[l]
      BY <1>1, <2>3, <3>1
    <3>3. s[i] = t[l] /\ s[i] # None
      BY <3>2
    <3> QED  BY <2>1, <2>3, <3>3
  <2>4. CASE i \notin 1 .. Len(s) /\ j \in 1 .. Len(s)
    <3>1. PICK l \in 1 .. Len(t) : i = Len(s) + l
      BY <1>2, <2>4
    <3>2. (s \o t)[j] = s[j] /\ (s \o t)[i] = t[l]
      BY <1>1, <2>4, <3>1
    <3>3. s[j] = t[l] /\ s[j] # None
      BY <3>2
    <3> QED  BY <2>1, <2>4, <3>3
  <2>5. CASE i \notin 1 .. Len(s) /\ j \notin 1 .. Len(s)
    <3>1. PICK k \in 1 .. Len(t), l \in 1 .. Len(t) : i = Len(s) + k /\ j = Len(s) + l
      BY <1>2, <2>5
    <3>2. t[k] = t[l] /\ t[k] # None
      BY <1>1, <3>1
    <3> QED  BY <1>6, <3>1, <3>2 DEF Distinct
  <2> QED  BY <2>2, <2>3, <2>4, <2>5
<1> QED  BY <1>5, <1>6

\* A sequence of distinct samples has as many samples as its length says.
LEMMA DistinctCardinality ==
  ASSUME NEW s \in Seq(Samples), Distinct(s)
  PROVE  Elems(s) \in SUBSET Samples /\ Cardinality(Elems(s)) = Len(s)
<1> DEFINE f == [i \in 1 .. Len(s) |-> s[i]]
<1>1. Len(s) \in Nat /\ \A i \in 1 .. Len(s) : s[i] \in Samples /\ s[i] # None
  BY DEF Samples
<1>2. Elems(s) = {s[i] : i \in 1 .. Len(s)}
  BY <1>1 DEF Elems
<1>3. f \in [1 .. Len(s) -> Elems(s)]
  BY <1>2
<1>4. \A i, j \in 1 .. Len(s) : f[i] = f[j] => i = j
  BY <1>1 DEF Distinct
<1>5. \A e \in Elems(s) : \E i \in 1 .. Len(s) : f[i] = e
  BY <1>2
<1> HIDE DEF f
<1>6. f \in Bijection(1 .. Len(s), Elems(s))
  BY <1>3, <1>4, <1>5 DEF Bijection, Injection, Surjection, IsInjective
<1>7. ExistsBijection(1 .. Len(s), Elems(s))
  BY <1>6 DEF ExistsBijection
<1>8. IsFiniteSet(1 .. Len(s)) /\ Cardinality(1 .. Len(s)) = Len(s)
  <2>1. 1 \in Int /\ Len(s) \in Int
    BY <1>1
  <2>2. /\ IsFiniteSet(1 .. Len(s))
        /\ Cardinality(1 .. Len(s)) = IF 1 > Len(s) THEN 0 ELSE Len(s) - 1 + 1
    BY <2>1, FS_Interval
  <2>3. (IF 1 > Len(s) THEN 0 ELSE Len(s) - 1 + 1) = Len(s)
    BY <1>1
  <2> QED  BY <2>2, <2>3
<1>9. Cardinality(Elems(s)) = Len(s)
  BY <1>7, <1>8, FS_Bijection
<1> QED  BY <1>1, <1>2, <1>9

-----------------------------------------------------------------------------
\* Every sample is in one place

\* Samples the feeder has yet to queue; the sample the processor holds.
Upcoming == IF feed_pc = "feed" THEN global_steps .. TotalRolloutSteps ELSE {}

Held == {held} \ {None}

\* Samples no task was created for; samples the trainer trains or trained on.
Unsubmitted == Elems(pending_queue) \cup Held \cup Upcoming

Learned == Elems(trained) \cup Elems(batch)

Put == Learned \cup Elems(queue)

EachDistinct ==
  Distinct(pending_queue) /\ Distinct(queue) /\ Distinct(batch) /\ Distinct(trained)

OnePlace ==
  /\ Elems(trained) \cap Elems(batch) = {}
  /\ Learned \cap Elems(queue) = {}
  /\ Put \cap generating = {}
  /\ Unsubmitted \cap (Put \cup active_tasks) = {}
  /\ Elems(pending_queue) \cap Held = {}
  /\ (Elems(pending_queue) \cup Held) \cap Upcoming = {}

\* The stages of a task.
OneStage ==
  /\ generating \cap returning = {}
  /\ finished \cap (generating \cup returning) = {}

OnceInv == EachDistinct /\ OnePlace /\ OneStage

LEMMA InitOnce == Init => OnceInv
<1> SUFFICES ASSUME Init PROVE OnceInv
  OBVIOUS
<1>1. /\ queue = <<>> /\ pending_queue = <<>> /\ batch = <<>> /\ trained = <<>>
      /\ generating = {} /\ returning = {} /\ finished = {} /\ held = None
  BY DEF Init, MQ!MQInit
<1>2. EachDistinct
  BY <1>1, EmptyElems DEF EachDistinct
<1>3. Put = {} /\ Learned = {} /\ Elems(pending_queue) = {} /\ Held = {}
      /\ active_tasks = {} /\ Elems(trained) = {} /\ Elems(queue) = {}
  BY <1>1, EmptyElems DEF Put, Learned, Held, active_tasks
<1> QED  BY <1>1, <1>2, <1>3 DEF OnceInv, OnePlace, OneStage

\* A step that only takes samples away, or moves a task on, keeps OnceInv.
LEMMA OnceShrinks ==
  ASSUME OnceInv, EachDistinct', OneStage',
         Elems(trained)' \cap Elems(batch)' = {},
         Learned' \subseteq Learned,
         Elems(queue)' \subseteq Elems(queue),
         generating' \subseteq generating,
         active_tasks' \subseteq active_tasks,
         UNCHANGED <<pending_queue, held, feed_pc, global_steps>>
  PROVE  OnceInv'
<1>1. UNCHANGED <<Elems(pending_queue), Held, Upcoming, Unsubmitted>>
  BY DEF Held, Upcoming, Unsubmitted
<1>2. Put' \subseteq Put
  BY DEF Put
<1>3. (Learned \cap Elems(queue))' = {} /\ (Put \cap generating)' = {}
  BY <1>2 DEF OnceInv, OnePlace
<1>4. (Unsubmitted \cap (Put \cup active_tasks))' = {}
  BY <1>1, <1>2 DEF OnceInv, OnePlace
<1>5. (Elems(pending_queue) \cap Held)' = {}
      /\ ((Elems(pending_queue) \cup Held) \cap Upcoming)' = {}
  BY <1>1 DEF OnceInv, OnePlace
<1> QED  BY <1>3, <1>4, <1>5 DEF OnceInv, OnePlace

LEMMA FeedOnce ==
  ASSUME TypeOK, OnceInv, FeedSample \/ FeedEndSignal
  PROVE  OnceInv'
<1>1. UNCHANGED <<queue, batch, trained, generating, returning, finished, held>>
  BY DEF FeedSample, FeedEndSignal, mqVars, taskVars, procVars, trainVars
<1>2. pending_queue \in Seq(Items)
  BY DEF TypeOK, Items
<1>3. UNCHANGED <<Elems(trained), Elems(batch), Learned, Elems(queue), Put, active_tasks, Held>>
  BY <1>1 DEF Learned, Put, active_tasks, Held
<1>4. PICK e \in Items :
        /\ pending_queue' = Append(pending_queue, e)
        /\ e \notin Elems(pending_queue)
        /\ ({e} \ {None}) \cup Upcoming' \subseteq Upcoming
        /\ e # None => e \notin Upcoming'
  <2>1. CASE FeedSample
    <3>1. /\ pending_queue' = Append(pending_queue, global_steps)
          /\ feed_pc = "feed" /\ global_steps \in Samples
      BY <2>1 DEF FeedSample, TypeOK
    <3>2. global_steps \in Upcoming /\ global_steps \in Items /\ global_steps # None
      BY <3>1 DEF Upcoming, Samples, Items
    <3>3. Upcoming' \subseteq Upcoming /\ global_steps \notin Upcoming'
      BY <2>1, <3>1 DEF FeedSample, Upcoming, Samples
    <3>4. global_steps \notin Elems(pending_queue)
      BY <3>2 DEF OnceInv, OnePlace
    <3> QED  BY <3>1, <3>2, <3>3, <3>4
  <2>2. CASE FeedEndSignal
    <3>1. pending_queue' = Append(pending_queue, None) /\ Upcoming' = {}
      BY <2>2 DEF FeedEndSignal, Upcoming
    <3>2. None \in Items /\ None \notin Elems(pending_queue)
      BY DEF Items, Elems
    <3> QED  BY <3>1, <3>2
  <2> QED  BY <2>1, <2>2
<1>5. Elems(pending_queue)' = Elems(pending_queue) \cup ({e} \ {None})
      /\ Distinct(pending_queue)'
  BY <1>2, <1>4, AppendElems DEF OnceInv, EachDistinct
<1>6. EachDistinct' /\ OneStage'
  BY <1>1, <1>5 DEF OnceInv, EachDistinct, OneStage
<1>7. Unsubmitted' \subseteq Unsubmitted
  BY <1>3, <1>4, <1>5 DEF Unsubmitted
<1>8. (Unsubmitted \cap (Put \cup active_tasks))' = {}
  BY <1>3, <1>7 DEF OnceInv, OnePlace
<1>9. (Elems(pending_queue) \cap Held)' = {}
  BY <1>3, <1>4, <1>5 DEF OnceInv, OnePlace
<1>10. ((Elems(pending_queue) \cup Held) \cap Upcoming)' = {}
  BY <1>3, <1>4, <1>5 DEF OnceInv, OnePlace
<1> QED  BY <1>1, <1>3, <1>6, <1>8, <1>9, <1>10 DEF OnceInv, OnePlace

\* The processor takes the head of pending_queue.
LEMMA GetOnce ==
  ASSUME TypeOK, Roles, OnceInv, ProcGet
  PROVE  OnceInv'
<1> DEFINE h == Head(pending_queue)
<1>1. /\ UNCHANGED <<queue, batch, trained, generating, returning, finished,
                     feed_pc, global_steps>>
      /\ pending_queue # <<>> /\ pending_queue' = Tail(pending_queue)
      /\ held' = h /\ held = None
  BY DEF ProcGet, mqVars, taskVars, trainVars, Roles
<1>2. pending_queue \in Seq(Items)
  BY DEF TypeOK, Items
<1>3. UNCHANGED <<Elems(trained), Elems(batch), Learned, Elems(queue), Put, active_tasks, Upcoming>>
  BY <1>1 DEF Learned, Put, active_tasks, Upcoming
<1>4. /\ Elems(pending_queue)' \subseteq Elems(pending_queue)
      /\ Distinct(pending_queue)'
      /\ h # None => h \in Elems(pending_queue)
      /\ h \notin Elems(pending_queue)'
  BY <1>1, <1>2, TailElems DEF OnceInv, EachDistinct
<1>5. Held' \subseteq Elems(pending_queue) /\ Held' \cap Elems(pending_queue)' = {}
  BY <1>1, <1>4 DEF Held
<1>6. EachDistinct' /\ OneStage'
  BY <1>1, <1>4 DEF OnceInv, EachDistinct, OneStage
<1>7. Unsubmitted' \subseteq Unsubmitted
  BY <1>3, <1>4, <1>5 DEF Unsubmitted
<1>8. (Unsubmitted \cap (Put \cup active_tasks))' = {}
  BY <1>3, <1>7 DEF OnceInv, OnePlace
<1>9. ((Elems(pending_queue) \cup Held) \cap Upcoming)' = {}
  BY <1>3, <1>4, <1>5 DEF OnceInv, OnePlace
<1> QED  BY <1>1, <1>3, <1>5, <1>6, <1>8, <1>9 DEF OnceInv, OnePlace

\* The held sample becomes a task.
LEMMA SubmitOnce ==
  ASSUME TypeOK, OnceInv, ProcSubmit
  PROVE  /\ OnceInv'
         /\ held \in Samples /\ held \notin active_tasks
         /\ active_tasks' = active_tasks \cup {held}
<1>1. /\ UNCHANGED <<queue, batch, trained, returning, finished, feed_pc, global_steps,
                     pending_queue>>
      /\ generating' = generating \cup {held} /\ held' = None
      /\ held \in Samples /\ held # None
  BY DEF ProcSubmit, mqVars, feedVars, trainVars, TypeOK
<1>2. UNCHANGED <<Elems(trained), Elems(batch), Learned, Elems(queue), Put, Upcoming,
                  Elems(pending_queue)>>
  BY <1>1 DEF Learned, Put, Upcoming
<1>3. Held = {held} /\ Held' = {} /\ held \in Unsubmitted
  BY <1>1 DEF Held, Unsubmitted
<1>4. active_tasks' = active_tasks \cup {held}
  BY <1>1 DEF active_tasks
<1>5. held \notin Put /\ held \notin active_tasks
  BY <1>3 DEF OnceInv, OnePlace
<1>6. EachDistinct'
  BY <1>1 DEF OnceInv, EachDistinct
<1>7. OneStage'
  BY <1>1, <1>5 DEF OnceInv, OneStage, active_tasks
<1>8. (Put \cap generating)' = {}
  BY <1>1, <1>2, <1>5 DEF OnceInv, OnePlace
<1>9. Unsubmitted' \subseteq Unsubmitted /\ held \notin Unsubmitted'
  BY <1>2, <1>3 DEF Unsubmitted, OnceInv, OnePlace
<1>10. (Unsubmitted \cap (Put \cup active_tasks))' = {}
  BY <1>2, <1>4, <1>9 DEF OnceInv, OnePlace
<1> QED  BY <1>1, <1>2, <1>3, <1>4, <1>5, <1>6, <1>7, <1>8, <1>10 DEF OnceInv, OnePlace

\* What a put leaves of the queue before it appends.
LEMMA EvictLemma ==
  ASSUME TypeOK
  PROVE  /\ MQ!Evict \in Seq(Items)
         /\ Elems(MQ!Evict) \subseteq Elems(queue)
         /\ Distinct(queue) => Distinct(MQ!Evict)
<1>1. queue \in Seq(Items)
  BY DEF TypeOK, Items
<1>2. CASE MQ!Full
  <2>1. queue # <<>>
    BY <1>2, LimitType DEF MQ!Full, max_queue_size
  <2>2. MQ!Evict = Tail(queue)
    BY <1>2 DEF MQ!Evict
  <2> QED  BY <1>1, <2>1, <2>2, TailElems, SeqSteps
<1>3. CASE ~MQ!Full
  BY <1>1, <1>3 DEF MQ!Evict
<1> QED  BY <1>2, <1>3

LEMMA PutElems ==
  ASSUME TypeOK, NEW s \in Items, MQ!PutSample(s), Distinct(queue), s \notin Elems(queue)
  PROVE  /\ Distinct(queue)'
         /\ Elems(queue)' \subseteq Elems(queue) \cup ({s} \ {None})
<1>1. queue' = Append(MQ!Evict, s)
  BY DEF MQ!PutSample
<1>2. s \notin Elems(MQ!Evict)
  BY EvictLemma
<1>3. /\ Elems(queue') = Elems(MQ!Evict) \cup ({s} \ {None})
      /\ Distinct(queue')
  BY <1>1, <1>2, EvictLemma, AppendElems
<1> QED  BY <1>3, EvictLemma

LEMMA TaskOnce ==
  ASSUME TypeOK, OnceInv, NEW t \in Samples, TaskPut(t) \/ TaskReturn(t) \/ TaskRaise(t)
  PROVE  OnceInv' /\ active_tasks' = active_tasks
<1>1. UNCHANGED <<batch, trained, pending_queue, held, feed_pc, global_steps>>
  BY DEF TaskPut, TaskReturn, TaskRaise, feedVars, procVars, trainVars
<1>2. UNCHANGED <<Elems(trained), Elems(batch), Learned, Elems(pending_queue), Held,
                  Upcoming, Unsubmitted>>
  BY <1>1 DEF Learned, Held, Upcoming, Unsubmitted
<1>3. active_tasks' = active_tasks /\ OneStage' /\ generating' \subseteq generating
  <2>1. CASE TaskPut(t)
    BY <2>1 DEF TaskPut, active_tasks, OnceInv, OneStage
  <2>2. CASE TaskReturn(t)
    BY <2>2 DEF TaskReturn, active_tasks, OnceInv, OneStage
  <2>3. CASE TaskRaise(t)
    BY <2>3 DEF TaskRaise, active_tasks, OnceInv, OneStage
  <2> QED  BY <2>1, <2>2, <2>3
<1>4. CASE TaskPut(t)
  <2>1. t \in generating /\ generating' = generating \ {t} /\ MQ!PutSample(t)
    BY <1>4 DEF TaskPut
  <2>2. t \notin Put /\ t \notin Elems(queue) /\ t \in Items /\ t \in active_tasks
    BY <2>1 DEF OnceInv, OnePlace, Put, Items, active_tasks
  <2>3. Distinct(queue)' /\ Elems(queue)' \subseteq Elems(queue) \cup {t}
    BY <2>1, <2>2, PutElems DEF OnceInv, EachDistinct
  <2>4. EachDistinct'
    BY <1>1, <2>3 DEF OnceInv, EachDistinct
  <2>5. (Learned \cap Elems(queue))' = {}
    BY <1>2, <2>2, <2>3 DEF OnceInv, OnePlace, Put
  <2>6. Put' \subseteq Put \cup {t}
    BY <1>2, <2>3 DEF Put
  <2>7. (Put \cap generating)' = {}
    BY <2>1, <2>6 DEF OnceInv, OnePlace
  <2>8. (Unsubmitted \cap (Put \cup active_tasks))' = {}
    BY <1>2, <1>3, <2>2, <2>6 DEF OnceInv, OnePlace
  <2> QED  BY <1>2, <1>3, <2>4, <2>5, <2>7, <2>8 DEF OnceInv, OnePlace
<1>5. CASE TaskReturn(t) \/ TaskRaise(t)
  <2>1. queue' = queue
    BY <1>5 DEF TaskReturn, TaskRaise, mqVars
  <2>2. EachDistinct'
    BY <1>1, <2>1 DEF OnceInv, EachDistinct
  <2>3. (Elems(trained) \cap Elems(batch))' = {}
    BY <1>2 DEF OnceInv, OnePlace
  <2> QED  BY <1>1, <1>2, <1>3, <2>1, <2>2, <2>3, OnceShrinks
<1> QED  BY <1>3, <1>4, <1>5

LEMMA TrainerOnce ==
  ASSUME TypeOK, OnceInv, TrainerActs
  PROVE  OnceInv'
<1>1. UNCHANGED <<generating, returning, finished, pending_queue, held, feed_pc, global_steps>>
  BY DEF TrainerActs, TrainerGet, TrainerStep, TrainerStop, TrainerSync, ResetBegin,
         ResetFinish, LineUp, taskVars, feedVars, procVars
<1>2. OneStage' /\ active_tasks' = active_tasks
  BY <1>1 DEF OnceInv, OneStage, active_tasks
<1>3. UNCHANGED <<Held, Upcoming, Elems(pending_queue), Unsubmitted>>
  BY <1>1 DEF Held, Upcoming, Unsubmitted
<1>4. queue \in Seq(Items) /\ batch \in Seq(Items) /\ trained \in Seq(Items)
  BY DEF TypeOK, Items
<1>5. CASE TrainerGet
  <2>1. queue # <<>> /\ queue' = Tail(queue) /\ trained' = trained
    BY <1>5 DEF TrainerGet, MQ!GetSample
  <2>2. /\ Elems(queue)' \subseteq Elems(queue) /\ Distinct(queue)'
        /\ Head(queue) # None => Head(queue) \in Elems(queue)
        /\ Head(queue) \notin Elems(queue)'
    BY <1>4, <2>1, TailElems DEF OnceInv, EachDistinct
  <2>3. CASE Head(queue) = None
    <3>1. batch' = <<>>
      BY <1>5, <2>3 DEF TrainerGet
    <3>2. Elems(batch)' = {} /\ Distinct(batch)'
      BY <3>1, EmptyElems
    <3>3. EachDistinct' /\ Learned' \subseteq Learned
      BY <1>1, <2>1, <2>2, <3>2 DEF OnceInv, EachDistinct, Learned
    <3> QED  BY <1>1, <1>2, <2>2, <3>2, <3>3, OnceShrinks
  <2>4. CASE Head(queue) # None
    <3>1. batch' = Append(batch, Head(queue)) /\ Head(queue) \in Items
      BY <1>4, <1>5, <2>1, <2>4, SeqSteps DEF TrainerGet
    <3>2. Head(queue) \notin Learned
      BY <2>2, <2>4 DEF OnceInv, OnePlace
    <3>3. Elems(batch)' = Elems(batch) \cup {Head(queue)} /\ Distinct(batch)'
      BY <1>4, <2>4, <3>1, <3>2, AppendElems DEF OnceInv, EachDistinct, Learned
    <3>4. Learned' = Learned \cup {Head(queue)}
      BY <2>1, <3>3 DEF Learned
    <3>5. Put' \subseteq Put
      BY <2>2, <2>4, <3>4 DEF Put
    <3>6. EachDistinct'
      BY <1>1, <2>1, <2>2, <3>3 DEF OnceInv, EachDistinct
    <3>7. (Elems(trained) \cap Elems(batch))' = {}
      BY <2>1, <3>2, <3>3 DEF OnceInv, OnePlace, Learned
    <3>8. (Learned \cap Elems(queue))' = {}
      BY <2>2, <3>4 DEF OnceInv, OnePlace
    <3>9. (Put \cap generating)' = {} /\ (Unsubmitted \cap (Put \cup active_tasks))' = {}
      BY <1>1, <1>2, <1>3, <3>5 DEF OnceInv, OnePlace
    <3> QED  BY <1>2, <1>3, <3>6, <3>7, <3>8, <3>9 DEF OnceInv, OnePlace
  <2> QED  BY <2>3, <2>4
<1>6. CASE TrainerStep
  <2>1. trained' = trained \o batch /\ batch' = <<>> /\ queue' = queue
    BY <1>6 DEF TrainerStep, mqVars
  <2>2. /\ Elems(trained)' = Elems(trained) \cup Elems(batch) /\ Distinct(trained)'
        /\ Elems(batch)' = {} /\ Distinct(batch)'
    BY <1>4, <2>1, ConcatElems, EmptyElems DEF OnceInv, EachDistinct, OnePlace
  <2>3. EachDistinct' /\ Learned' = Learned
    BY <1>1, <2>1, <2>2 DEF OnceInv, EachDistinct, Learned
  <2> QED  BY <1>1, <1>2, <2>1, <2>2, <2>3, OnceShrinks
<1>7. CASE TrainerStop \/ TrainerSync \/ ResetBegin \/ ResetFinish \/ LineUp("reset")
  <2>1. UNCHANGED <<queue, batch, trained>>
    BY <1>7 DEF TrainerStop, TrainerSync, ResetBegin, ResetFinish, LineUp, mqVars, trainVars
  <2>2. EachDistinct' /\ Learned' = Learned /\ (Elems(trained) \cap Elems(batch))' = {}
    BY <1>1, <2>1 DEF OnceInv, EachDistinct, Learned, OnePlace
  <2> QED  BY <1>1, <1>2, <2>1, <2>2, OnceShrinks
<1> QED  BY <1>5, <1>6, <1>7 DEF TrainerActs

\* The other steps touch nothing but the stages of a task and the queue.
LEMMA OtherOnce ==
  ASSUME TypeOK, OnceInv,
         \/ ProcCheck \/ ProcDecide \/ ProcPause \/ ProcWake \/ ProcReap
         \/ ProcLock \/ ProcUnlock \/ ProcEnd \/ LineUp("processor")
         \/ FinishRunning \/ LineUp("main") \/ MonitorStep \/ MainFinish \/ UNCHANGED vars
  PROVE  OnceInv'
<1>1. UNCHANGED <<batch, trained, pending_queue, held, feed_pc, global_steps, generating,
                  returning>>
      /\ finished' \subseteq finished
      /\ (queue' = queue \/ queue' = <<>>)
  BY DEF ProcCheck, ProcDecide, ProcPause, ProcWake, ProcReap, ProcLock, ProcUnlock, ProcEnd,
         Reap, LineUp, FinishRunning, MonitorStep, MainFinish, MQ!ClearQueue, vars, mqVars, taskVars, feedVars, procVars,
         trainVars
<1>2. OneStage' /\ active_tasks' \subseteq active_tasks
  BY <1>1 DEF OnceInv, OneStage, active_tasks
<1>3. Distinct(queue)' /\ Elems(queue)' \subseteq Elems(queue)
  BY <1>1, EmptyElems DEF OnceInv, EachDistinct
<1>4. EachDistinct' /\ Learned' = Learned /\ (Elems(trained) \cap Elems(batch))' = {}
  BY <1>1, <1>3 DEF OnceInv, EachDistinct, Learned, OnePlace
<1> QED  BY <1>1, <1>2, <1>3, <1>4, OnceShrinks

LEMMA FinishOnce ==
  ASSUME TypeOK, Roles, OnceInv, FinishSignal
  PROVE  OnceInv'
<1>1. /\ UNCHANGED <<batch, trained, pending_queue, held, global_steps, generating,
                     returning, finished>>
      /\ feed_pc' = "done" /\ MQ!PutSample(None)
  BY DEF FinishSignal, taskVars, procVars, trainVars
<1>2. Distinct(queue)' /\ Elems(queue)' \subseteq Elems(queue)
  <2>1. None \in Items /\ None \notin Elems(queue)
    BY DEF Items, Elems
  <2> QED  BY <1>1, <2>1, PutElems DEF OnceInv, EachDistinct
<1>3. UNCHANGED <<Elems(trained), Elems(batch), Learned, Elems(pending_queue), Held,
                  active_tasks>>
  BY <1>1 DEF Learned, Held, active_tasks
<1>4. Upcoming' = {} /\ Unsubmitted' \subseteq Unsubmitted /\ Put' \subseteq Put
  BY <1>1, <1>2, <1>3 DEF Upcoming, Unsubmitted, Put
<1>5. EachDistinct' /\ OneStage'
  BY <1>1, <1>2 DEF OnceInv, EachDistinct, OneStage
<1>6. OnePlace'
  BY <1>1, <1>2, <1>3, <1>4 DEF OnceInv, OnePlace
<1> QED  BY <1>5, <1>6 DEF OnceInv

LEMMA NextOnce ==
  ASSUME IInv, OnceInv, [Next]_vars
  PROVE  OnceInv'
<1>1. TypeOK /\ Roles
  BY DEF IInv, FreshnessInv
<1> QED  BY <1>1, FeedOnce, GetOnce, SubmitOnce, TaskOnce, TrainerOnce, FinishOnce, OtherOnce
            DEF Next, ProcStep, FinishStep, Terminated

-----------------------------------------------------------------------------
\* The active tasks and the end signal

LEMMA ConcurrencyType ==
  /\ max_concurrent_samples \in Nat \ {0}
  /\ max_concurrent_samples <= max_required_samples
BY LimitType DEF max_concurrent_samples

\* The concurrency limit holds, with room to spare after a failure: the task
\* that raised has been taken out.
ActiveInv ==
  /\ Cardinality(active_tasks) <= max_concurrent_samples
  /\ proc_pc = "failed" => Cardinality(active_tasks) < max_concurrent_samples
  /\ proc_pc = "done" => active_tasks = {}

\* Tasks that were added, if any, are fewer than the limit.
LEMMA TaskNumbers ==
  ASSUME TypeOK
  PROVE  /\ IsFiniteSet(active_tasks) /\ Cardinality(active_tasks) \in Nat
         /\ IsFiniteSet(generating) /\ Cardinality(generating) \in Nat
         /\ Cardinality(generating) <= Cardinality(active_tasks)
         /\ IsFiniteSet(failed) /\ Cardinality(failed) \in Nat
<1>1. active_tasks \in SUBSET Samples /\ generating \in SUBSET active_tasks
      /\ generating \in SUBSET Samples /\ failed \in SUBSET Samples
  BY DEF active_tasks, TypeOK
<1> QED  BY <1>1, TaskSets, FS_Subset

LEMMA InitActive == Init => ActiveInv
<1> SUFFICES ASSUME Init PROVE ActiveInv
  OBVIOUS
<1>1. active_tasks = {} /\ proc_pc = "check"
  BY DEF Init, active_tasks
<1> QED  BY <1>1, ConcurrencyType, FS_EmptySet DEF ActiveInv

\* Taking done tasks out of active_tasks, in any of the processor's waits.
LEMMA ReapActive ==
  ASSUME TypeOK, OnceInv, ActiveInv, NEW done \in SUBSET finished, NEW next_pc,
         Reap(done, next_pc), next_pc \notin {"failed", "done"}
  PROVE  ActiveInv'
<1>1. /\ finished' = finished \ done
      /\ UNCHANGED <<generating, returning>>
      /\ proc_pc' = IF done \cap failed = {} THEN next_pc ELSE "failed"
  BY DEF Reap
<1>2. active_tasks' = active_tasks \ done
  BY <1>1 DEF active_tasks, OnceInv, OneStage
<1>3. IsFiniteSet(active_tasks) /\ Cardinality(active_tasks) \in Nat
  BY TaskNumbers
<1>4. active_tasks' \in SUBSET active_tasks
  BY <1>2
<1>5. Cardinality(active_tasks') <= Cardinality(active_tasks)
      /\ Cardinality(active_tasks') \in Nat
  BY <1>3, <1>4, FS_Subset, FS_CardinalityType
<1>6. UNCHANGED max_concurrent_samples
  BY DEF max_concurrent_samples, max_required_samples
<1>7. CASE done \cap failed = {}
  <2>1. proc_pc' \notin {"failed", "done"}
    BY <1>1, <1>7
  <2> QED  BY <1>3, <1>5, <1>6, <2>1, ConcurrencyType DEF ActiveInv
<1>8. CASE done \cap failed # {}
  <2>1. PICK t \in finished : t \in done
    BY <1>8
  <2>2. t \in active_tasks /\ t \notin active_tasks'
    BY <1>2, <2>1 DEF active_tasks
  <2>3. Cardinality(active_tasks') # Cardinality(active_tasks)
    BY <1>3, <1>4, <2>2, FS_Subset
  <2>4. Cardinality(active_tasks') < max_concurrent_samples /\ proc_pc' = "failed"
    BY <1>1, <1>3, <1>5, <1>8, <2>3, ConcurrencyType DEF ActiveInv
  <2> QED  BY <1>5, <1>6, <2>4, ConcurrencyType DEF ActiveInv
<1> QED  BY <1>7, <1>8

LEMMA NextActive ==
  ASSUME IInv, OnceInv, ActiveInv, [Next]_vars
  PROVE  ActiveInv'
<1>1. TypeOK
  BY DEF IInv
<1>2. UNCHANGED max_concurrent_samples
  BY DEF max_concurrent_samples, max_required_samples
<1>3. CASE ProcStep
  <2>1. CASE ProcReap
    <3>1. reaping \in SUBSET finished
      BY <1>1, <2>1 DEF ProcReap, TypeOK
    <3>2. Reap(reaping, IF resume_event THEN "check" ELSE "drain")
      BY <2>1 DEF ProcReap
    <3> QED  BY <1>1, <3>1, <3>2, ReapActive
  <2>2. CASE ProcUnlock
    <3>1. Reap(finished, proc_pc) /\ proc_pc \in {"limit", "end"}
      BY <2>2 DEF ProcUnlock
    <3> QED  BY <1>1, <3>1, ReapActive
  <2>3. CASE ProcSubmit
    <3>1. active_tasks' = active_tasks \cup {held} /\ held \notin active_tasks
      BY <1>1, <2>3, SubmitOnce
    <3>2. Cardinality(active_tasks') = Cardinality(active_tasks) + 1
      BY <1>1, <3>1, TaskNumbers, FS_AddElement
    <3>3. Cardinality(active_tasks) < max_concurrent_samples
      BY <1>1, <2>3, TaskNumbers, ConcurrencyType DEF ProcSubmit, AtLimit
    <3>4. proc_pc' = "check"
      BY <2>3 DEF ProcSubmit
    <3> QED  BY <1>1, <1>2, <3>2, <3>3, <3>4, TaskNumbers, ConcurrencyType DEF ActiveInv
  <2>4. CASE \/ ProcCheck \/ ProcDecide \/ ProcPause \/ ProcWake \/ ProcGet \/ ProcLock
             \/ ProcEnd \/ LineUp("processor")
    <3>1. active_tasks' = active_tasks
      BY <2>4 DEF ProcCheck, ProcDecide, ProcPause, ProcWake, ProcGet, ProcLock, ProcEnd,
                  LineUp, taskVars, active_tasks
    <3>2. /\ proc_pc' = "failed" => proc_pc = "failed"
          /\ proc_pc' = "done" => active_tasks = {} \/ proc_pc = "done"
      BY <2>4 DEF ProcCheck, ProcDecide, ProcPause, ProcWake, ProcGet, ProcLock, ProcEnd,
                  LineUp, procVars, Drained
    <3> QED  BY <1>2, <3>1, <3>2 DEF ActiveInv
  <2> QED  BY <1>3, <2>1, <2>2, <2>3, <2>4 DEF ProcStep
<1>4. ASSUME NEW t \in Samples, TaskPut(t) \/ TaskReturn(t) \/ TaskRaise(t)
      PROVE  ActiveInv'
  <2>1. active_tasks' = active_tasks
    BY <1>1, <1>4, TaskOnce
  <2>2. proc_pc' = proc_pc
    BY <1>4 DEF TaskPut, TaskReturn, TaskRaise, procVars
  <2> QED  BY <1>2, <2>1, <2>2 DEF ActiveInv
<1>5. CASE \/ FeedSample \/ FeedEndSignal \/ FinishStep \/ MonitorStep
           \/ TrainerActs \/ MainFinish \/ UNCHANGED vars
  <2>1. UNCHANGED <<generating, returning, finished, proc_pc>>
    BY <1>5 DEF FeedSample, FeedEndSignal, FinishStep, FinishSignal, FinishRunning, LineUp,
                MonitorStep, TrainerActs, TrainerGet, TrainerStep, TrainerStop, TrainerSync, ResetBegin, ResetFinish,
                MainFinish, vars, taskVars, procVars
  <2>2. active_tasks' = active_tasks
    BY <2>1 DEF active_tasks
  <2> QED  BY <1>2, <2>1, <2>2 DEF ActiveInv
<1> QED  BY <1>3, <1>4, <1>5 DEF Next, Terminated

\* Where the end signal is in the queue: behind it there is room for whatever
\* the tasks that still generate may put, and nothing after a normal end.
EndInv ==
  /\ gen_pc = "stream" => \A i \in 1 .. Len(queue) : queue[i] # None
  /\ \A i \in 1 .. Len(queue) :
       queue[i] = None =>
         Len(queue) - i + 1 + Cardinality(generating) <= max_required_samples
  /\ (gen_pc # "stream" /\ proc_pc = "done") =>
         \A i \in 1 .. Len(queue) : queue[i] = None => i = Len(queue)

LEMMA InitEnd == Init => EndInv
BY DEF Init, MQ!MQInit, EndInv

\* With tasks left to put, or none of them and no signal yet, a full queue
\* gives up a sample.
LEMMA HeadNotDropped ==
  ASSUME TypeOK, EndInv, MQ!Full, generating # {} \/ gen_pc = "stream"
  PROVE  queue # <<>> /\ Head(queue) # None
<1>1. queue \in Seq(Items) /\ Len(queue) \in Nat /\ Len(queue) >= max_required_samples
  BY SeqSteps DEF TypeOK, Items, MQ!Full, max_queue_size
<1>2. queue # <<>> /\ 1 \in 1 .. Len(queue) /\ Head(queue) = queue[1]
  BY <1>1, LimitType
<1>3. CASE gen_pc = "stream"
  BY <1>2, <1>3 DEF EndInv
<1>4. CASE generating # {}
  <2>1. Cardinality(generating) >= 1
    BY <1>4, TaskNumbers, FS_EmptySet
  <2>2. ~(Len(queue) - 1 + 1 + Cardinality(generating) <= max_required_samples)
    BY <1>1, <2>1, TaskNumbers, LimitType
  <2> QED  BY <1>2, <2>2 DEF EndInv
<1> QED  BY <1>3, <1>4

\* A put moves the end signal by the sample it evicts, if any.
LEMMA PutPositions ==
  ASSUME TypeOK, NEW s \in Items, MQ!PutSample(s)
  PROVE  \E k \in {0, 1} :
           /\ Len(queue') = Len(queue) + 1 - k
           /\ Len(queue) + 1 - k >= 1
           /\ queue'[Len(queue')] = s
           /\ \A i \in 1 .. Len(queue') - 1 :
                i + k \in 1 .. Len(queue) /\ queue'[i] = queue[i + k]
<1>1. queue \in Seq(Items) /\ Len(queue) \in Nat
  BY SeqSteps DEF TypeOK, Items
<1>2. queue' = Append(MQ!Evict, s)
  BY DEF MQ!PutSample
<1>3. CASE MQ!Full
  <2>1. queue # <<>>
    BY <1>3, LimitType DEF MQ!Full, max_queue_size
  <2>2. queue' = Append(Tail(queue), s)
    BY <1>2, <1>3 DEF MQ!Evict
  <2>3. /\ Len(queue') = Len(queue) + 1 - 1 /\ Len(queue) >= 1
        /\ queue'[Len(queue')] = s
        /\ \A i \in 1 .. Len(queue') - 1 :
             i + 1 \in 1 .. Len(queue) /\ queue'[i] = queue[i + 1]
    BY <1>1, <2>1, <2>2
  <2> QED  BY <1>1, <2>3
<1>4. CASE ~MQ!Full
  <2>1. queue' = Append(queue, s)
    BY <1>2, <1>4 DEF MQ!Evict
  <2>2. /\ Len(queue') = Len(queue) + 1 - 0
        /\ queue'[Len(queue')] = s
        /\ \A i \in 1 .. Len(queue') - 1 :
             i + 0 \in 1 .. Len(queue) /\ queue'[i] = queue[i + 0]
    BY <1>1, <2>1
  <2> QED  BY <1>1, <2>2
<1> QED  BY <1>3, <1>4

LEMMA TaskEnd ==
  ASSUME TypeOK, TypeOK', OnceInv, ActiveInv, EndInv, NEW t \in Samples,
         TaskPut(t) \/ TaskReturn(t) \/ TaskRaise(t)
  PROVE  EndInv'
<1>1. UNCHANGED <<gen_pc, proc_pc, max_required_samples>>
  BY DEF TaskPut, TaskReturn, TaskRaise, procVars, max_required_samples
<1>2. Len(queue) \in Nat /\ Cardinality(generating) \in Nat /\ Cardinality(generating') \in Nat
      /\ max_required_samples \in Nat
  BY Numbers
<1>3. CASE TaskPut(t)
  <2>1. t \in generating /\ generating' = generating \ {t} /\ MQ!PutSample(t)
        /\ t \in Items /\ t # None
    BY <1>3 DEF TaskPut, Items, Samples
  <2>2. Cardinality(generating') = Cardinality(generating) - 1
    BY <2>1, TaskLeaves
  <2>3. proc_pc # "done"
    BY <2>1 DEF ActiveInv, active_tasks
  <2>4. PICK k \in {0, 1} :
           /\ Len(queue') = Len(queue) + 1 - k
           /\ Len(queue) + 1 - k >= 1
           /\ queue'[Len(queue')] = t
           /\ \A i \in 1 .. Len(queue') - 1 :
                i + k \in 1 .. Len(queue) /\ queue'[i] = queue[i + k]
    BY <2>1, PutPositions
  <2>5. ASSUME NEW i \in 1 .. Len(queue'), queue'[i] = None
        PROVE  /\ gen_pc # "stream"
               /\ Len(queue') - i + 1 + Cardinality(generating') <= max_required_samples
    <3>1. i \in 1 .. Len(queue') - 1
      BY <1>2, <2>1, <2>4, <2>5
    <3>2. i + k \in 1 .. Len(queue) /\ queue[i + k] = None
      BY <2>4, <2>5, <3>1
    <3>3. Len(queue) - (i + k) + 1 + Cardinality(generating) <= max_required_samples
      BY <3>2 DEF EndInv
    <3>4. gen_pc # "stream"
      BY <3>2 DEF EndInv
    <3> QED  BY <1>2, <2>2, <2>4, <3>3, <3>4
  <2> QED  BY <1>1, <2>3, <2>5 DEF EndInv
<1>4. CASE TaskReturn(t) \/ TaskRaise(t)
  <2>1. queue' = queue
    BY <1>4 DEF TaskReturn, TaskRaise, mqVars
  <2>2. Cardinality(generating') <= Cardinality(generating)
    <3>1. generating' \in SUBSET generating
      BY <1>4 DEF TaskReturn, TaskRaise
    <3> QED  BY <3>1, TaskNumbers, FS_Subset
  <2> QED  BY <1>1, <1>2, <2>1, <2>2 DEF EndInv
<1> QED  BY <1>3, <1>4

LEMMA FinishEnd ==
  ASSUME TypeOK, TypeOK', ActiveInv, EndInv, FinishSignal
  PROVE  EndInv'
<1>1. /\ gen_pc = "stream" /\ gen_pc' # "stream" /\ ProcessorOver
      /\ UNCHANGED <<generating, proc_pc, max_required_samples>>
      /\ MQ!PutSample(None) /\ None \in Items
  BY DEF FinishSignal, taskVars, procVars, max_required_samples, Items
<1>2. Len(queue) \in Nat /\ Cardinality(generating) \in Nat /\ max_required_samples \in Nat
  BY Numbers
<1>3. PICK k \in {0, 1} :
         /\ Len(queue') = Len(queue) + 1 - k
         /\ \A i \in 1 .. Len(queue') - 1 :
              i + k \in 1 .. Len(queue) /\ queue'[i] = queue[i + k]
  BY <1>1, PutPositions
<1>4. \A i \in 1 .. Len(queue') : queue'[i] = None => i = Len(queue')
  <2>1. \A i \in 1 .. Len(queue') - 1 : queue'[i] # None
    BY <1>1, <1>3 DEF EndInv
  <2> QED  BY <1>2, <1>3, <2>1
<1>5. 1 + Cardinality(generating) <= max_required_samples
  <2>1. Cardinality(generating) <= Cardinality(active_tasks) /\ Cardinality(active_tasks) \in Nat
    BY TaskNumbers
  <2>2. Cardinality(active_tasks) < max_concurrent_samples
    BY <1>1, ConcurrencyType, FS_EmptySet DEF ActiveInv, ProcessorOver
  <2> QED  BY <1>2, <2>1, <2>2, ConcurrencyType
<1>6. \A i \in 1 .. Len(queue') :
         queue'[i] = None => Len(queue') - i + 1 + Cardinality(generating) <= max_required_samples
  BY <1>2, <1>3, <1>4, <1>5
<1> QED  BY <1>1, <1>4, <1>6 DEF EndInv

\* Samples that leave the queue at its head, and steps that leave it alone.
LEMMA HeadTakenEnd ==
  ASSUME TypeOK, EndInv,
         queue' \in {queue, <<>>} \/ (queue # <<>> /\ queue' = Tail(queue)),
         UNCHANGED <<generating, gen_pc>>,
         gen_pc # "stream" => proc_pc' = proc_pc
  PROVE  EndInv'
<1>1. queue \in Seq(Items) /\ Len(queue) \in Nat /\ UNCHANGED max_required_samples
      /\ Cardinality(generating) \in Nat /\ max_required_samples \in Nat
  BY SeqSteps, TaskNumbers, LimitType DEF TypeOK, Items, max_required_samples
<1>2. CASE queue' = queue
  BY <1>1, <1>2 DEF EndInv
<1>3. CASE queue' = <<>>
  BY <1>3 DEF EndInv
<1>4. CASE queue # <<>> /\ queue' = Tail(queue)
  <2>1. Len(queue') = Len(queue) - 1
        /\ \A i \in 1 .. Len(queue') : i + 1 \in 1 .. Len(queue) /\ queue'[i] = queue[i + 1]
    BY <1>1, <1>4
  <2>2. ASSUME NEW i \in 1 .. Len(queue'), queue'[i] = None
        PROVE  /\ gen_pc # "stream"
               /\ Len(queue') - i + 1 + Cardinality(generating) <= max_required_samples
               /\ proc_pc' = "done" => i = Len(queue')
    <3>1. i + 1 \in 1 .. Len(queue) /\ queue[i + 1] = None
      BY <2>1, <2>2
    <3>2. gen_pc # "stream"
          /\ Len(queue) - (i + 1) + 1 + Cardinality(generating) <= max_required_samples
      BY <3>1 DEF EndInv
    <3>3. proc_pc' = "done" => i + 1 = Len(queue)
      BY <3>1, <3>2 DEF EndInv
    <3> QED  BY <1>1, <2>1, <3>2, <3>3
  <2> QED  BY <1>1, <2>2 DEF EndInv
<1> QED  BY <1>2, <1>3, <1>4

LEMMA NextEnd ==
  ASSUME IInv, OnceInv, ActiveInv, EndInv, [Next]_vars
  PROVE  EndInv'
<1>1. TypeOK /\ TypeOK' /\ Roles
  BY NextTypeOK DEF IInv, FreshnessInv
<1>2. CASE ProcStep
  <2>1. gen_pc' = gen_pc /\ queue' = queue
    BY <1>2 DEF ProcStep, ProcCheck, ProcDecide, ProcPause, ProcWake, ProcReap, ProcGet,
                ProcLock, ProcUnlock, ProcSubmit, ProcEnd, LineUp, mqVars
  <2>2. gen_pc # "stream" => ProcessorOver
    BY <1>1 DEF Roles
  <2>3. ProcessorOver => ~ProcStep
    BY DEF ProcStep, ProcCheck, ProcDecide, ProcPause, ProcWake, ProcReap, ProcGet,
           ProcLock, ProcUnlock, ProcSubmit, ProcEnd, LineUp, AtLock, ProcessorOver
  <2>4. gen_pc = "stream"
    BY <1>2, <2>2, <2>3
  <2> QED  BY <2>1, <2>4 DEF EndInv
<1>3. ASSUME NEW t \in Samples, TaskPut(t) \/ TaskReturn(t) \/ TaskRaise(t)
      PROVE  EndInv'
  BY <1>1, <1>3, TaskEnd
<1>4. CASE FinishSignal
  BY <1>1, <1>4, FinishEnd
<1>5. CASE FinishRunning
  BY <1>5 DEF FinishRunning, EndInv, mqVars, taskVars, procVars, max_required_samples
<1>6. CASE \/ FeedSample \/ FeedEndSignal \/ LineUp("main") \/ MonitorStep \/ TrainerActs
           \/ MainFinish \/ UNCHANGED vars
  <2>1. UNCHANGED <<generating, gen_pc, proc_pc>>
        /\ (queue' \in {queue, <<>>} \/ (queue # <<>> /\ queue' = Tail(queue)))
    BY <1>6 DEF FeedSample, FeedEndSignal, LineUp, MonitorStep, TrainerActs, TrainerGet, TrainerStep,
                TrainerStop, TrainerSync, ResetBegin, ResetFinish, MainFinish,
                MQ!GetSample, MQ!ClearQueue, vars, mqVars, taskVars, procVars
  <2> QED  BY <1>1, <2>1, HeadTakenEnd
<1> QED  BY <1>2, <1>3, <1>4, <1>5, <1>6 DEF Next, FinishStep, Terminated

\* The places of the samples, the active tasks and the end signal together.
StreamInv == IInv /\ OnceInv /\ ActiveInv /\ EndInv

\* Streaming core: each sample is in one place, never twice in a queue or a
\* batch, no more tasks than the concurrency limit are active, and the end
\* signal is followed by no more than what the queue has room for.
THEOREM StreamInvariance == Spec => []StreamInv
<1>1. Init => StreamInv
  BY InitTypeOK, InitFreshness, InitOnce, InitActive, InitEnd DEF StreamInv, IInv
<1>2. StreamInv /\ [Next]_vars => StreamInv'
  <2> SUFFICES ASSUME StreamInv, [Next]_vars PROVE StreamInv'
    OBVIOUS
  <2>1. IInv /\ OnceInv /\ ActiveInv /\ EndInv
    BY DEF StreamInv
  <2>2. IInv'
    <3>1. TypeOK /\ TypeOK' /\ FreshnessInv
      BY <2>1, NextTypeOK DEF IInv
    <3>2. FreshnessInv'
      BY <3>1, ProcFreshness, TaskFreshness, TrainerFreshness, FinishFreshness,
         OtherFreshness DEF Next, Terminated
    <3> QED  BY <3>1, <3>2 DEF IInv
  <2>3. OnceInv' /\ ActiveInv' /\ EndInv'
    BY <2>1, NextOnce, NextActive, NextEnd
  <2> QED  BY <2>2, <2>3 DEF StreamInv
<1> QED  BY <1>1, <1>2, PTL DEF Spec

\* _streaming_generation_main: after a normal end of the processor no task is
\* left and the end signal is the last thing in the queue.
THEOREM EndSignalIsLast == Spec => []NothingAfterEndSignal
<1>1. StreamInv => NothingAfterEndSignal
  BY DEF StreamInv, ActiveInv, EndInv, NothingAfterEndSignal
<1> QED  BY <1>1, StreamInvariance, PTL

\* put_sample of a full queue never drops the end signal, not even when the
\* processor has failed and the tasks it leaves behind go on putting samples.
THEOREM EndSignalSurvives == Spec => EndSignalNotDropped
<1>1. StreamInv /\ [Next]_vars => [(dropped_samples' # dropped_samples) => Head(queue) # None]_vars
  <2> SUFFICES ASSUME StreamInv, Next, dropped_samples' # dropped_samples
               PROVE  Head(queue) # None
    OBVIOUS
  <2>1. TypeOK /\ EndInv
    BY DEF StreamInv, IInv
  <2>2. ASSUME NEW t \in Samples, TaskPut(t) \/ TaskReturn(t) \/ TaskRaise(t)
        PROVE  Head(queue) # None
    <3>1. t \in generating /\ MQ!Full
      BY <2>2 DEF TaskPut, TaskReturn, TaskRaise, mqVars, MQ!PutSample
    <3> QED  BY <2>1, <3>1, HeadNotDropped
  <2>3. CASE FinishSignal
    <3>1. gen_pc = "stream" /\ MQ!Full
      BY <2>3 DEF FinishSignal, MQ!PutSample
    <3> QED  BY <2>1, <3>1, HeadNotDropped
  <2>4. CASE \/ FeedSample \/ FeedEndSignal \/ ProcStep \/ FinishRunning \/ LineUp("main")
             \/ MonitorStep \/ TrainerActs \/ MainFinish \/ Terminated
    <3>1. dropped_samples' = dropped_samples
      BY <2>4 DEF FeedSample, FeedEndSignal, ProcStep, ProcCheck, ProcDecide, ProcPause,
                  ProcWake, ProcReap, ProcGet, ProcLock, ProcUnlock, ProcSubmit, ProcEnd,
                  LineUp, FinishRunning, MonitorStep, TrainerActs, TrainerGet, TrainerStep,
                  TrainerStop,
                  TrainerSync, ResetBegin, ResetFinish, MainFinish, Terminated,
                  MQ!GetSample, MQ!ClearQueue, vars, mqVars
    <3> QED  BY <3>1
  <2> QED  BY <2>2, <2>3, <2>4 DEF Next, FinishStep
<1> QED  BY <1>1, StreamInvariance, PTL DEF Spec, EndSignalNotDropped

-----------------------------------------------------------------------------
\* The Trainer's steps and versions

\* Completed optimisation steps, from the version and the position in it.
StepsDone == TriggerSyncStep * current_param_version + (local_trigger_step - 1)

\* A trained version that is still to be published.
Unpublished == train_pc = "update_weights" /\ SyncDue /\ ~stopping

TrainerInv ==
  /\ Len(trained) = RequiredSamples * StepsDone
  /\ train_pc = "train" => Len(batch) = RequiredSamples
  /\ train_pc = "collect" => Len(batch) < RequiredSamples
  /\ train_pc \notin {"collect", "train"} => batch = <<>>
  /\ train_pc \in {"collect", "train", "stop"} => ~stopping
  /\ train_pc = "done" => stopping
  /\ current_param_version = IF Unpublished THEN rollout_version + 1 ELSE rollout_version

LEMMA StepsNat == TypeOK => StepsDone \in Nat
<1> SUFFICES ASSUME TypeOK PROVE StepsDone \in Nat
  OBVIOUS
<1>1. local_trigger_step - 1 \in Nat
  BY DEF TypeOK
<1>2. TriggerSyncStep * current_param_version \in Nat
  BY DEF TypeOK
<1> QED  BY <1>1, <1>2 DEF StepsDone

LEMMA InitTrainer == Init => TrainerInv
<1> SUFFICES ASSUME Init PROVE TrainerInv
  OBVIOUS
<1>1. StepsDone = 0 /\ RequiredSamples * 0 = 0
  BY DEF Init, StepsDone
<1>2. ~Unpublished /\ Len(trained) = 0 /\ Len(batch) = 0
  BY DEF Init, Unpublished
<1> QED  BY <1>1, <1>2 DEF Init, TrainerInv

\* An optimisation step is counted once, the wrap-around of
\* local_trigger_step included.
LEMMA StepCounted ==
  ASSUME TypeOK, TrainerStep
  PROVE  StepsDone' = StepsDone + 1
<1>1. local_trigger_step \in 1 .. TriggerSyncStep /\ current_param_version \in Nat
  BY DEF TypeOK
<1>2. CASE MidTrigger
  <2>1. local_trigger_step' = local_trigger_step + 1
        /\ current_param_version' = current_param_version
    BY <1>2 DEF TrainerStep
  <2>2. TriggerSyncStep * current_param_version \in Nat
    BY <1>1
  <2> QED  BY <1>1, <2>1, <2>2 DEF StepsDone
<1>3. CASE ~MidTrigger
  <2>1. local_trigger_step' = 1 /\ current_param_version' = current_param_version + 1
    BY <1>3 DEF TrainerStep
  <2>2. local_trigger_step = TriggerSyncStep
    BY <1>1, <1>3 DEF MidTrigger
  <2>3. TriggerSyncStep * (current_param_version + 1)
          = TriggerSyncStep * current_param_version + TriggerSyncStep
    BY <1>1
  <2>4. TriggerSyncStep * current_param_version \in Nat
    BY <1>1
  <2> QED  BY <2>1, <2>2, <2>3, <2>4 DEF StepsDone
<1> QED  BY <1>2, <1>3

LEMMA TrainerTrainerInv ==
  ASSUME TypeOK, TrainerInv, TrainerActs
  PROVE  TrainerInv'
<1>1. /\ batch \in Seq(Samples) /\ trained \in Seq(Samples) /\ queue \in Seq(Items)
      /\ Len(batch) \in Nat /\ Len(trained) \in Nat
  BY DEF TypeOK, Items
<1>2. CASE TrainerGet
  <2>1. /\ train_pc = "collect" /\ queue # <<>>
        /\ UNCHANGED <<trained, stopping, local_trigger_step, current_param_version,
                       rollout_version>>
    BY <1>2 DEF TrainerGet, MQ!GetSample
  <2>2. /\ ~stopping /\ ~Unpublished /\ ~Unpublished' /\ Len(batch) < RequiredSamples
        /\ current_param_version = rollout_version
    BY <1>2, <2>1 DEF TrainerInv, Unpublished, TrainerGet
  <2>3. StepsDone' = StepsDone /\ Len(trained') = RequiredSamples * StepsDone
    BY <2>1 DEF TrainerInv, StepsDone
  <2>4. CASE Head(queue) = None
    <3>1. batch' = <<>> /\ train_pc' = "stop"
      BY <1>2, <2>4 DEF TrainerGet
    <3> QED  BY <2>1, <2>2, <2>3, <3>1 DEF TrainerInv
  <2>5. CASE Head(queue) # None
    <3>1. batch' = Append(batch, Head(queue)) /\ Head(queue) \in Samples
      BY <1>1, <1>2, <2>1, <2>5, SeqSteps DEF TrainerGet, Items
    <3>2. Len(batch') = Len(batch) + 1
      BY <1>1, <3>1, SeqSteps
    <3>3. train_pc' = IF Len(batch') >= RequiredSamples THEN "train" ELSE "collect"
      BY <1>2, <2>5 DEF TrainerGet, BatchComplete
    <3>4. /\ train_pc' = "train" => Len(batch') = RequiredSamples
          /\ train_pc' = "collect" => Len(batch') < RequiredSamples
          /\ train_pc' \in {"train", "collect"}
      BY <1>1, <2>2, <3>2, <3>3
    <3> QED  BY <2>1, <2>2, <2>3, <3>4 DEF TrainerInv
  <2> QED  BY <2>4, <2>5
<1>3. CASE TrainerStep
  <2>1. /\ train_pc = "train" /\ train_pc' = "update_weights" /\ batch' = <<>>
        /\ trained' = trained \o batch
        /\ UNCHANGED <<stopping, rollout_version>>
    BY <1>3 DEF TrainerStep
  <2>2. ~stopping /\ ~Unpublished /\ Len(batch) = RequiredSamples
        /\ current_param_version = rollout_version
    BY <2>1 DEF TrainerInv, Unpublished
  <2>3. Len(trained') = Len(trained) + Len(batch)
    BY <1>1, <2>1
  <2>4. RequiredSamples * (StepsDone + 1) = RequiredSamples * StepsDone + RequiredSamples
    BY StepsNat
  <2>5. Len(trained') = RequiredSamples * StepsDone'
    BY <1>3, <2>2, <2>3, <2>4, StepCounted DEF TrainerInv
  <2>6. current_param_version' = IF Unpublished' THEN rollout_version + 1 ELSE rollout_version
    <3>1. CASE MidTrigger
      <4>1. local_trigger_step' # 1 /\ current_param_version' = current_param_version
        BY <1>3, <3>1 DEF TrainerStep, TypeOK
      <4> QED  BY <2>2, <4>1 DEF Unpublished, SyncDue
    <3>2. CASE ~MidTrigger
      <4>1. local_trigger_step' = 1 /\ current_param_version' = current_param_version + 1
        BY <1>3, <3>2 DEF TrainerStep
      <4> QED  BY <2>1, <2>2, <4>1 DEF Unpublished, SyncDue
    <3> QED  BY <3>1, <3>2
  <2> QED  BY <2>1, <2>2, <2>5, <2>6 DEF TrainerInv
<1>4. CASE TrainerStop
  <2>1. /\ train_pc = "stop" /\ stopping' = TRUE /\ train_pc' \in {"update_weights", "done"}
        /\ UNCHANGED <<batch, trained, local_trigger_step, current_param_version,
                       rollout_version>>
    BY <1>4 DEF TrainerStop
  <2>2. ~Unpublished /\ ~Unpublished' /\ StepsDone' = StepsDone /\ batch = <<>>
    BY <2>1 DEF TrainerInv, Unpublished, StepsDone
  <2> QED  BY <2>1, <2>2 DEF TrainerInv
<1>5. CASE TrainerSync
  <2>1. /\ train_pc = "update_weights" /\ train_pc' \in {"reset", "done", "collect"}
        /\ train_pc' = "done" => stopping
        /\ train_pc' = "collect" => ~stopping
        /\ UNCHANGED <<stopping, batch, trained, local_trigger_step, current_param_version>>
        /\ rollout_version' = IF SyncDue THEN current_param_version ELSE rollout_version
    BY <1>5 DEF TrainerSync, AfterUpdate
  <2>2. ~Unpublished' /\ StepsDone' = StepsDone /\ batch = <<>> /\ Len(batch) < RequiredSamples
    BY <2>1 DEF TrainerInv, Unpublished, StepsDone
  <2>3. rollout_version' = current_param_version
    BY <2>1 DEF TrainerInv, Unpublished
  <2> QED  BY <2>1, <2>2, <2>3 DEF TrainerInv
<1>6. CASE ResetBegin \/ ResetFinish \/ LineUp("reset")
  <2>1. /\ train_pc \in {"reset", "reset_size"}
        /\ train_pc' \in {"reset", "reset_size", "done", "collect"}
        /\ train_pc' = "done" => stopping
        /\ train_pc' = "collect" => ~stopping
        /\ UNCHANGED <<stopping, batch, trained, local_trigger_step, current_param_version,
                       rollout_version>>
    BY <1>6 DEF ResetBegin, ResetFinish, LineUp, AtLock, AfterUpdate, trainVars
  <2>2. /\ ~Unpublished /\ ~Unpublished' /\ StepsDone' = StepsDone
        /\ batch = <<>> /\ Len(batch) < RequiredSamples
    BY <2>1 DEF TrainerInv, Unpublished, StepsDone
  <2> QED  BY <2>1, <2>2 DEF TrainerInv
<1> QED  BY <1>2, <1>3, <1>4, <1>5, <1>6 DEF TrainerActs

\* Nobody else touches the Trainer's state.
LEMMA TrainerAlone == ASSUME [Next]_vars, ~TrainerActs PROVE UNCHANGED trainVars
BY DEF Next, FeedSample, FeedEndSignal, ProcStep, ProcCheck, ProcDecide, ProcPause, ProcWake,
       ProcReap, ProcGet, ProcLock, ProcUnlock, ProcSubmit, ProcEnd, TaskPut, TaskReturn,
       TaskRaise, FinishStep, FinishSignal, FinishRunning, LineUp, MonitorStep, MainFinish,
       Terminated, vars

LEMMA NextTrainer ==
  ASSUME TypeOK, TrainerInv, [Next]_vars
  PROVE  TrainerInv'
<1>1. CASE TrainerActs
  BY <1>1, TrainerTrainerInv
<1>2. CASE ~TrainerActs
  BY <1>2, TrainerAlone DEF trainVars, TrainerInv, StepsDone, Unpublished, SyncDue
<1> QED  BY <1>1, <1>2

\* _get_samples_from_queue, _fit_update_local_step, _fit_update_weights: every
\* step takes a full batch, and outside of an update the rollout replicas have
\* the version the Trainer counts.
THEOREM TrainerInvariance == Spec => []TrainerInv
BY InitTrainer, NextTrainer, TypeCorrect, PTL DEF Spec

-----------------------------------------------------------------------------
\* The refinement of TrainingStream

\* The instance has a Cardinality of its own name.
LEMMA SameCardinality == ASSUME NEW S PROVE TS!Cardinality(S) = Cardinality(S)
BY DEF TS!Cardinality, Cardinality

LEMMA Quotient ==
  ASSUME NEW r \in Nat \ {0}, NEW k \in Nat
  PROVE  (r * k) \div r = k
OBVIOUS

\* The mapped variables, in the terms of the invariants.
LEMMA Mapped ==
  ASSUME TypeOK, TrainerInv
  PROVE  /\ Len(trained) \div RequiredSamples = StepsDone
         /\ {trained[i] : i \in 1 .. Len(trained)} = Elems(trained)
         /\ StepsDone \in Nat
<1>1. StepsDone \in Nat
  BY StepsNat
<1>2. Len(trained) \div RequiredSamples = StepsDone
  BY <1>1, Quotient DEF TrainerInv
<1>3. \A i \in 1 .. Len(trained) : trained[i] # None
  BY DEF TypeOK, Samples
<1> QED  BY <1>1, <1>2, <1>3 DEF Elems

\* A step may begin as long as no version is waiting to be published.
LEMMA MappedPublished ==
  ASSUME TypeOK, TrainerInv
  PROVE  TS!Published <=> ~Unpublished
<1>1. /\ local_trigger_step \in 1 .. TriggerSyncStep
      /\ current_param_version \in Nat /\ rollout_version \in Nat
  BY DEF TypeOK
<1>2. TS!Published <=> StepsDone < TriggerSyncStep * (rollout_version + 1)
  BY Mapped DEF TS!Published
<1>3. TriggerSyncStep * (rollout_version + 1)
        = TriggerSyncStep * rollout_version + TriggerSyncStep
      /\ TriggerSyncStep * rollout_version \in Nat
  BY <1>1
<1>4. CASE Unpublished
  <2>1. local_trigger_step = 1 /\ current_param_version = rollout_version + 1
    BY <1>4 DEF TrainerInv, Unpublished, SyncDue
  <2>2. StepsDone = TriggerSyncStep * (rollout_version + 1)
    BY <1>1, <1>3, <2>1 DEF StepsDone
  <2> QED  BY <1>2, <1>3, <1>4, <2>2
<1>5. CASE ~Unpublished
  <2>1. current_param_version = rollout_version
    BY <1>5 DEF TrainerInv
  <2>2. StepsDone = TriggerSyncStep * rollout_version + (local_trigger_step - 1)
    BY <2>1 DEF StepsDone
  <2> QED  BY <1>1, <1>2, <1>3, <1>5, <2>2
<1> QED  BY <1>4, <1>5

LEMMA StreamInitMaps == Init => TS!Init
<1> SUFFICES ASSUME Init PROVE TS!Init
  OBVIOUS
<1>1. trained = <<>> /\ stopping = FALSE /\ rollout_version = 0
  BY DEF Init
<1>2. {trained[i] : i \in 1 .. Len(trained)} = {} /\ Len(trained) = 0
  BY <1>1
<1>3. 0 \div RequiredSamples = 0
  OBVIOUS
<1> QED  BY <1>1, <1>2, <1>3 DEF TS!Init

\* A step of the Trainer's optimiser is Train.
LEMMA StepMaps ==
  ASSUME TypeOK, TypeOK', OnceInv, TrainerInv, TrainerInv', TrainerStep
  PROVE  TS!Train
<1>1. /\ train_pc = "train" /\ trained' = trained \o batch
      /\ UNCHANGED <<stopping, rollout_version>>
  BY DEF TrainerStep
<1>2. ~stopping /\ ~Unpublished /\ Len(batch) = RequiredSamples
  BY <1>1 DEF TrainerInv, Unpublished
<1>3. TS!Published
  BY <1>2, MappedPublished
<1>4. /\ Elems(batch) \in SUBSET Samples /\ Cardinality(Elems(batch)) = RequiredSamples
      /\ Elems(batch) \cap Elems(trained) = {}
      /\ Elems(trained)' = Elems(trained) \cup Elems(batch)
  <2>1. batch \in Seq(Samples) /\ Distinct(batch) /\ batch \in Seq(Items)
        /\ trained \in Seq(Items)
    <3>1. batch \in Seq(Samples) /\ trained \in Seq(Samples)
      BY DEF TypeOK
    <3>2. batch \in Seq(Items) /\ trained \in Seq(Items)
      BY <3>1 DEF Items
    <3>3. Distinct(batch)
      BY DEF OnceInv, EachDistinct
    <3> QED  BY <3>1, <3>2, <3>3
  <2>2. Elems(batch) \cap Elems(trained) = {}
    BY DEF OnceInv, OnePlace
  <2> QED  BY <1>1, <1>2, <2>1, <2>2, DistinctCardinality, ConcatElems
<1>5. /\ {trained[i] : i \in 1 .. Len(trained)} = Elems(trained)
      /\ {trained'[i] : i \in 1 .. Len(trained')} = Elems(trained)'
      /\ Len(trained) \div RequiredSamples = StepsDone
      /\ Len(trained') \div RequiredSamples = StepsDone'
  <2>1. /\ Len(trained) \div RequiredSamples = StepsDone
        /\ {trained[i] : i \in 1 .. Len(trained)} = Elems(trained)
    BY Mapped
  <2>2. Len(trained') \div RequiredSamples = StepsDone'
    <3>1. StepsDone' \in Nat
      BY StepsNat, StepCounted
    <3>2. Len(trained') = RequiredSamples * StepsDone'
      BY DEF TrainerInv
    <3> QED  BY <3>1, <3>2, Quotient
  <2>3. {trained'[i] : i \in 1 .. Len(trained')} = Elems(trained)'
    <3>1. None \notin Samples
      BY DEF Samples
    <3>2. trained' \in Seq(Samples)
      <4>1. trained \in Seq(Samples) /\ batch \in Seq(Samples)
        BY DEF TypeOK
      <4> QED  BY <1>1, <4>1
    <3>3. \A i \in 1 .. Len(trained') : trained'[i] \in Samples
      BY <3>2
    <3> QED  BY <3>1, <3>3 DEF Elems
  <2> QED  BY <2>1, <2>2, <2>3
<1>6. Len(trained') \div RequiredSamples = Len(trained) \div RequiredSamples + 1
  BY <1>5, StepCounted
<1>7. Samples \ {trained'[i] : i \in 1 .. Len(trained')}
        = (Samples \ {trained[i] : i \in 1 .. Len(trained)}) \ Elems(batch)
  BY <1>4, <1>5
<1>8. Elems(batch) \in SUBSET (Samples \ {trained[i] : i \in 1 .. Len(trained)})
  BY <1>4, <1>5
<1>9. \E b \in SUBSET (Samples \ {trained[i] : i \in 1 .. Len(trained)}) :
         /\ Cardinality(b) = RequiredSamples
         /\ Samples \ {trained'[i] : i \in 1 .. Len(trained')}
              = (Samples \ {trained[i] : i \in 1 .. Len(trained)}) \ b
  BY <1>4, <1>7, <1>8
<1>10. Samples' = Samples
  BY DEF Samples
<1> QED  BY <1>1, <1>2, <1>3, <1>6, <1>9, <1>10, SameCardinality DEF TS!Train

LEMMA SyncMaps ==
  ASSUME TypeOK, TrainerInv, TrainerSync
  PROVE  TS!Publish \/ UNCHANGED TS!streamVars
<1>1. /\ UNCHANGED <<trained, stopping>> /\ train_pc = "update_weights"
      /\ SyncDue => rollout_version' = current_param_version
      /\ ~SyncDue => rollout_version' = rollout_version
  BY DEF TrainerSync
<1>2. CASE Unpublished
  <2>1. stopping = FALSE /\ rollout_version' = rollout_version + 1 /\ ~TS!Published
    BY <1>1, <1>2, MappedPublished DEF TrainerInv, Unpublished, TypeOK
  <2> QED  BY <1>1, <2>1 DEF TS!Publish, Samples
<1>3. CASE ~Unpublished
  <2>1. current_param_version = rollout_version
    BY <1>3 DEF TrainerInv
  <2>2. rollout_version' = rollout_version
    BY <1>1, <2>1
  <2> QED  BY <1>1, <2>2 DEF TS!streamVars, Samples
<1> QED  BY <1>2, <1>3

LEMMA StopMaps ==
  ASSUME TypeOK, TrainerInv, TrainerStop
  PROVE  TS!Close
<1>1. UNCHANGED <<trained, rollout_version>> /\ train_pc = "stop" /\ stopping' = TRUE
  BY DEF TrainerStop
<1>2. stopping = FALSE /\ TS!Published
  BY <1>1, MappedPublished DEF TrainerInv, Unpublished, TypeOK
<1> QED  BY <1>1, <1>2 DEF TS!Close, Samples

\* Each step of the pipeline is a step of TrainingStream or a stutter.
LEMMA StreamStepMaps ==
  ASSUME StreamInv, TrainerInv, [Next]_vars
  PROVE  [TS!Next]_(TS!streamVars)
<1>1. TypeOK /\ TypeOK' /\ OnceInv /\ TrainerInv'
  BY NextTypeOK, NextTrainer DEF StreamInv, IInv
<1>2. CASE TrainerStep
  BY <1>1, <1>2, StepMaps DEF TS!Next
<1>3. CASE TrainerSync
  BY <1>1, <1>3, SyncMaps DEF TS!Next
<1>4. CASE TrainerStop
  BY <1>1, <1>4, StopMaps DEF TS!Next
<1>5. CASE ~TrainerStep /\ ~TrainerSync /\ ~TrainerStop
  <2>1. UNCHANGED <<trained, rollout_version, stopping>>
    <3>1. CASE TrainerActs
      BY <1>5, <3>1 DEF TrainerActs, TrainerGet, ResetBegin, ResetFinish, LineUp, trainVars
    <3>2. CASE ~TrainerActs
      BY <3>2, TrainerAlone DEF trainVars
    <3> QED  BY <3>1, <3>2
  <2> QED  BY <2>1 DEF TS!streamVars, Samples
<1> QED  BY <1>2, <1>3, <1>4, <1>5

\* The pipeline implements TrainingStream: no sample is trained on twice, every
\* optimisation step takes a full batch, every version is published before the
\* step after it, and nothing is trained once the stream has ended.
THEOREM StreamImplemented == Spec => ImplementsTrainingStream
BY StreamInitMaps, StreamStepMaps, StreamInvariance, TrainerInvariance, PTL
   DEF Spec, ImplementsTrainingStream, TS!Spec

-----------------------------------------------------------------------------
\* Every sample is accounted for

FedSamples == IF feed_pc = "feed" THEN global_steps - 1 ELSE TotalRolloutSteps

\* The end signal waits in pending_queue; the end signal was put.
PendingSignal == IF feed_pc = "done" /\ proc_pc \notin {"end", "done"} THEN 1 ELSE 0

SentSignal == IF gen_pc = "stream" THEN 0 ELSE 1

\* The trainer has met the end signal.
Stopped == train_pc = "stop" \/ stopping

PendingInv ==
  /\ proc_pc \in {"end", "done"} => feed_pc = "done" /\ pending_queue = <<>>
  /\ \A i \in 1 .. Len(pending_queue) :
       pending_queue[i] = None => PendingSignal = 1 /\ i = Len(pending_queue)
  /\ PendingSignal = 1 =>
       pending_queue # <<>> /\ pending_queue[Len(pending_queue)] = None

\* What was fed is waiting, held, being generated, lost to a failure, or was put.
FedCount ==
  FedSamples + PendingSignal + SentSignal
    = Len(pending_queue) + Holding + Cardinality(generating) + Cardinality(failed)
        + total_produced

\* What was put is queued, dropped or consumed, and what was consumed is in the
\* batch or trained; the end signal and the partial batch it discards are not.
PutCount ==
  /\ total_produced = Len(queue) + dropped_samples + total_consumed
  /\ ~Stopped => total_consumed = Len(batch) + Len(trained)
  /\ Stopped => /\ gen_pc # "stream"
                /\ queue = <<>>
                /\ total_consumed > Len(trained)
                /\ total_consumed <= Len(trained) + RequiredSamples

\* A failure of the processor leaves the rest of the samples where they are.
Accounted == proc_pc # "failed" => PendingInv /\ FedCount /\ PutCount

LEMMA CountNumbers ==
  ASSUME TypeOK
  PROVE  /\ Len(queue) \in Nat /\ Len(pending_queue) \in Nat
         /\ Len(batch) \in Nat /\ Len(trained) \in Nat
         /\ Cardinality(generating) \in Nat /\ Cardinality(failed) \in Nat
         /\ total_produced \in Nat /\ total_consumed \in Nat /\ dropped_samples \in Nat
         /\ Holding \in {0, 1} /\ PendingSignal \in {0, 1} /\ SentSignal \in {0, 1}
         /\ FedSamples \in Nat
<1>1. /\ Len(queue) \in Nat /\ Len(pending_queue) \in Nat
      /\ Len(batch) \in Nat /\ Len(trained) \in Nat
  BY SeqSteps DEF TypeOK
<1>2. Cardinality(generating) \in Nat /\ Cardinality(failed) \in Nat
  BY TaskNumbers
<1>3. total_produced \in Nat /\ total_consumed \in Nat /\ dropped_samples \in Nat
  BY DEF TypeOK
<1>4. Holding \in {0, 1} /\ PendingSignal \in {0, 1} /\ SentSignal \in {0, 1}
  BY DEF Holding, PendingSignal, SentSignal
<1>5. FedSamples \in Nat
  BY DEF FedSamples, TypeOK, Samples
<1> QED  BY <1>1, <1>2, <1>3, <1>4, <1>5

LEMMA InitAccounted == Init => Accounted
<1> SUFFICES ASSUME Init PROVE Accounted
  OBVIOUS
<1>1. /\ queue = <<>> /\ pending_queue = <<>> /\ batch = <<>> /\ trained = <<>>
      /\ generating = {} /\ failed = {} /\ held = None
      /\ total_produced = 0 /\ total_consumed = 0 /\ dropped_samples = 0
      /\ feed_pc = "feed" /\ global_steps = 1 /\ proc_pc = "check" /\ gen_pc = "stream"
      /\ train_pc = "collect" /\ stopping = FALSE
  BY DEF Init, MQ!MQInit
<1>2. PendingSignal = 0 /\ SentSignal = 0 /\ FedSamples = 0 /\ Holding = 0 /\ ~Stopped
  BY <1>1 DEF PendingSignal, SentSignal, FedSamples, Holding, Stopped
<1>3. Cardinality(generating) = 0 /\ Cardinality(failed) = 0
  BY <1>1, FS_EmptySet
<1> QED  BY <1>1, <1>2, <1>3 DEF Accounted, PendingInv, FedCount, PutCount

\* A failed processor stays failed.
LEMMA FailedStays == ASSUME [Next]_vars, proc_pc = "failed" PROVE proc_pc' = "failed"
<1>1. ~ProcStep
  BY DEF ProcStep, ProcCheck, ProcDecide, ProcPause, ProcWake, ProcReap, ProcGet, ProcLock,
         ProcUnlock, ProcSubmit, ProcEnd, LineUp, AtLock
<1>2. CASE UNCHANGED vars
  BY <1>2 DEF vars, procVars
<1>3. CASE Next
  BY <1>1, <1>3
     DEF Next, FeedSample, FeedEndSignal, TaskPut, TaskReturn, TaskRaise, FinishStep,
         FinishSignal, FinishRunning, LineUp, MonitorStep, TrainerActs, TrainerGet, TrainerStep, TrainerStop, TrainerSync, ResetBegin,
         ResetFinish, MainFinish, Terminated, vars, procVars
<1> QED  BY <1>2, <1>3

\* The parts of the accounts, each when what it speaks of stands still.
LEMMA PendingFrame ==
  ASSUME PendingInv, UNCHANGED <<feed_pc, pending_queue>>,
         proc_pc' \in {"end", "done"} <=> proc_pc \in {"end", "done"}
  PROVE  PendingInv' /\ PendingSignal' = PendingSignal
<1>1. PendingSignal' = PendingSignal
  BY DEF PendingSignal
<1> QED  BY <1>1 DEF PendingInv

LEMMA PutFrame ==
  ASSUME PutCount,
         UNCHANGED <<queue, dropped_samples, total_consumed, total_produced, batch, trained,
                     train_pc, stopping, gen_pc>>
  PROVE  PutCount'
BY DEF PutCount, Stopped

LEMMA FeedAccounted ==
  ASSUME TypeOK, TypeOK', PendingInv, FedCount, PutCount, FeedSample \/ FeedEndSignal
  PROVE  PendingInv' /\ FedCount' /\ PutCount'
<1>1. UNCHANGED <<queue, dropped_samples, total_consumed, total_produced, batch, trained,
                  train_pc, stopping, gen_pc, generating, failed, held, proc_pc>>
      /\ feed_pc # "done"
  BY DEF FeedSample, FeedEndSignal, mqVars, taskVars, procVars, trainVars
<1>2. PutCount' /\ SentSignal' = SentSignal /\ Holding' = Holding
  BY <1>1, PutFrame DEF SentSignal, Holding
<1>3. proc_pc \notin {"end", "done"} /\ PendingSignal = 0
      /\ \A i \in 1 .. Len(pending_queue) : pending_queue[i] # None
  BY <1>1 DEF PendingInv, PendingSignal
<1>4. pending_queue \in Seq(Items) /\ Len(pending_queue) \in Nat
  BY SeqSteps DEF TypeOK, Items
<1>5. CASE FeedSample
  <2>1. /\ pending_queue' = Append(pending_queue, global_steps)
        /\ feed_pc = "feed" /\ feed_pc' # "done" /\ global_steps \in 1 .. TotalRolloutSteps
    BY <1>5 DEF FeedSample, TypeOK, Samples
  <2>2. PendingSignal' = 0 /\ global_steps # None /\ global_steps \in Items
    BY <2>1 DEF PendingSignal, Items, Samples
  <2>3. FedSamples' = FedSamples + 1
    <3>1. FedSamples = global_steps - 1
      BY <2>1 DEF FedSamples
    <3>2. CASE global_steps >= TotalRolloutSteps
      BY <1>5, <2>1, <3>1, <3>2 DEF FeedSample, FedSamples
    <3>3. CASE ~(global_steps >= TotalRolloutSteps)
      BY <1>5, <2>1, <3>1, <3>3 DEF FeedSample, FedSamples
    <3> QED  BY <3>2, <3>3
  <2>4. /\ Len(pending_queue') = Len(pending_queue) + 1
        /\ \A i \in 1 .. Len(pending_queue') : pending_queue'[i] # None
    BY <1>3, <1>4, <2>1, <2>2
  <2>5. PendingInv'
    BY <1>1, <1>3, <2>2, <2>4 DEF PendingInv
  <2>6. FedCount'
    <3>1. /\ PendingSignal = 0 /\ SentSignal' = SentSignal /\ Holding' = Holding
          /\ Len(pending_queue') = Len(pending_queue) + 1
          /\ Cardinality(generating') = Cardinality(generating)
          /\ Cardinality(failed') = Cardinality(failed)
          /\ total_produced' = total_produced
      BY <1>1, <1>2, <1>3, <2>4
    <3>2. PendingSignal' = 0 /\ FedSamples' = FedSamples + 1
      BY <2>2, <2>3
    <3>3. FedSamples + 1 + 0 + SentSignal
            = (Len(pending_queue) + 1) + Holding + Cardinality(generating) + Cardinality(failed)
                + total_produced
      <4>1. /\ Len(pending_queue) \in Nat
            /\ Cardinality(generating) \in Nat /\ Cardinality(failed) \in Nat
            /\ total_produced \in Nat /\ FedSamples \in Nat
            /\ Holding \in Nat /\ SentSignal \in Nat
        BY CountNumbers
      <4>2. FedSamples + 0 + SentSignal
              = Len(pending_queue) + Holding + Cardinality(generating) + Cardinality(failed)
                  + total_produced
        BY <3>1 DEF FedCount
      <4>3. \A a, b, c, d, e, f, g \in Nat :
              a + 0 + b = c + d + e + f + g => a + 1 + 0 + b = (c + 1) + d + e + f + g
        OBVIOUS
      <4> QED  BY <4>1, <4>2, <4>3
    <3> QED  BY <3>1, <3>2, <3>3 DEF FedCount
  <2> QED  BY <1>2, <2>5, <2>6
<1>6. CASE FeedEndSignal
  <2>1. pending_queue' = Append(pending_queue, None) /\ feed_pc = "end" /\ feed_pc' = "done"
    BY <1>6 DEF FeedEndSignal
  <2>2. PendingSignal' = 1 /\ FedSamples' = FedSamples /\ None \in Items
    BY <1>1, <1>3, <2>1 DEF PendingSignal, FedSamples, Items
  <2>3. /\ Len(pending_queue') = Len(pending_queue) + 1
        /\ pending_queue'[Len(pending_queue')] = None
        /\ pending_queue' # <<>>
        /\ \A i \in 1 .. Len(pending_queue') : pending_queue'[i] = None => i = Len(pending_queue')
    BY <1>3, <1>4, <2>1, <2>2
  <2>4. PendingInv'
    BY <1>1, <1>3, <2>2, <2>3 DEF PendingInv
  <2>5. FedCount'
    <3>1. /\ PendingSignal = 0 /\ SentSignal' = SentSignal /\ Holding' = Holding
          /\ Len(pending_queue') = Len(pending_queue) + 1
          /\ Cardinality(generating') = Cardinality(generating)
          /\ Cardinality(failed') = Cardinality(failed)
          /\ total_produced' = total_produced
      BY <1>1, <1>2, <1>3, <2>3
    <3>2. PendingSignal' = 1 /\ FedSamples' = FedSamples
      BY <2>2
    <3>3. FedSamples + 1 + SentSignal
            = (Len(pending_queue) + 1) + Holding + Cardinality(generating) + Cardinality(failed)
                + total_produced
      <4>1. /\ Len(pending_queue) \in Nat
            /\ Cardinality(generating) \in Nat /\ Cardinality(failed) \in Nat
            /\ total_produced \in Nat /\ FedSamples \in Nat
            /\ Holding \in Nat /\ SentSignal \in Nat
        BY CountNumbers
      <4>2. FedSamples + 0 + SentSignal
              = Len(pending_queue) + Holding + Cardinality(generating) + Cardinality(failed)
                  + total_produced
        BY <3>1 DEF FedCount
      <4> QED  BY <4>1, <4>2
    <3> QED  BY <3>1, <3>2, <3>3 DEF FedCount
  <2> QED  BY <1>2, <2>4, <2>5
<1> QED  BY <1>5, <1>6

LEMMA GetAccounted ==
  ASSUME TypeOK, TypeOK', Roles, PendingInv, FedCount, PutCount, ProcGet
  PROVE  PendingInv' /\ FedCount' /\ PutCount'
<1>1. /\ UNCHANGED <<queue, dropped_samples, total_consumed, total_produced, batch, trained,
                     train_pc, stopping, gen_pc, generating, failed, feed_pc, global_steps>>
      /\ proc_pc = "get" /\ pending_queue # <<>> /\ pending_queue' = Tail(pending_queue)
      /\ held = None /\ held' = Head(pending_queue)
      /\ proc_pc' = IF Head(pending_queue) = None THEN "end" ELSE "limit"
  BY DEF ProcGet, mqVars, taskVars, trainVars, Roles
<1>2. PutCount' /\ SentSignal' = SentSignal /\ FedSamples' = FedSamples /\ Holding = 0
  BY <1>1, PutFrame DEF SentSignal, FedSamples, Holding
<1>3. /\ pending_queue \in Seq(Items) /\ Len(pending_queue) \in Nat
      /\ 1 \in 1 .. Len(pending_queue) /\ Head(pending_queue) = pending_queue[1]
      /\ Len(pending_queue') = Len(pending_queue) - 1
      /\ \A i \in 1 .. Len(pending_queue') :
           i + 1 \in 1 .. Len(pending_queue) /\ pending_queue'[i] = pending_queue[i + 1]
  <2>1. pending_queue \in Seq(Items)
    BY DEF TypeOK, Items
  <2> QED  BY <1>1, <2>1
<1>4. CASE Head(pending_queue) = None
  <2>1. PendingSignal = 1 /\ Len(pending_queue) = 1 /\ feed_pc = "done"
    BY <1>3, <1>4 DEF PendingInv, PendingSignal
  <2>2. PendingSignal' = 0 /\ Holding' = 0 /\ pending_queue' = <<>> /\ Len(pending_queue') = 0
    BY <1>1, <1>3, <1>4, <2>1 DEF PendingSignal, Holding
  <2>3. PendingInv'
    <3>1. feed_pc' = "done" /\ ~(PendingSignal' = 1)
      BY <1>1, <2>1, <2>2
    <3>2. \A i \in 1 .. Len(pending_queue') : FALSE
      BY <2>2
    <3> QED  BY <2>2, <3>1, <3>2 DEF PendingInv
  <2>4. FedCount'
    <3>1. UNCHANGED <<Cardinality(generating), Cardinality(failed), total_produced>>
      BY <1>1
    <3> QED  BY <1>2, <2>1, <2>2, <3>1, CountNumbers DEF FedCount
  <2> QED  BY <1>2, <2>3, <2>4
<1>5. CASE Head(pending_queue) # None
  <2>1. PendingSignal' = PendingSignal /\ Holding' = 1 /\ proc_pc' = "limit"
    BY <1>1, <1>5 DEF PendingSignal, Holding
  <2>2. ASSUME NEW i \in 1 .. Len(pending_queue'), pending_queue'[i] = None
        PROVE  PendingSignal = 1 /\ i = Len(pending_queue')
    <3>1. i + 1 \in 1 .. Len(pending_queue) /\ pending_queue[i + 1] = None
      BY <1>3, <2>2
    <3>2. PendingSignal = 1 /\ i + 1 = Len(pending_queue)
      BY <3>1 DEF PendingInv
    <3> QED  BY <1>3, <3>2
  <2>3. ASSUME PendingSignal = 1
        PROVE  pending_queue' # <<>> /\ pending_queue'[Len(pending_queue')] = None
    <3>1. pending_queue[Len(pending_queue)] = None /\ Len(pending_queue) # 1
      BY <1>3, <1>5, <2>3 DEF PendingInv
    <3>2. Len(pending_queue') \in 1 .. Len(pending_queue')
          /\ Len(pending_queue') + 1 = Len(pending_queue)
      BY <1>3, <3>1
    <3> QED  BY <1>3, <3>1, <3>2
  <2>4. PendingInv'
    BY <2>1, <2>2, <2>3 DEF PendingInv
  <2>5. FedCount'
    BY <1>1, <1>2, <1>3, <2>1, CountNumbers DEF FedCount
  <2> QED  BY <1>2, <2>4, <2>5
<1> QED  BY <1>4, <1>5

LEMMA ProcAccounted ==
  ASSUME TypeOK, TypeOK', OnceInv, Roles, PendingInv, FedCount, PutCount,
         proc_pc' # "failed", ProcStep
  PROVE  PendingInv' /\ FedCount' /\ PutCount'
<1>1. CASE ProcGet
  BY <1>1, GetAccounted
<1>2. CASE ProcSubmit
  <2>1. /\ UNCHANGED <<queue, dropped_samples, total_consumed, total_produced, batch, trained,
                       train_pc, stopping, gen_pc, failed, feed_pc, global_steps,
                       pending_queue>>
        /\ proc_pc = "limit" /\ proc_pc' = "check"
        /\ held # None /\ held' = None /\ generating' = generating \cup {held}
    BY <1>2 DEF ProcSubmit, mqVars, feedVars, trainVars, TypeOK
  <2>2. PutCount' /\ SentSignal' = SentSignal /\ FedSamples' = FedSamples
        /\ Holding = 1 /\ Holding' = 0
    BY <2>1, PutFrame DEF SentSignal, FedSamples, Holding
  <2>3. PendingInv' /\ PendingSignal' = PendingSignal
    BY <2>1, PendingFrame
  <2>4. Cardinality(generating') = Cardinality(generating) + 1
    <3>1. held \notin generating
      BY <1>2, SubmitOnce DEF active_tasks
    <3> QED  BY <2>1, <3>1, TaskNumbers, FS_AddElement
  <2>5. FedCount'
    BY <2>1, <2>2, <2>3, <2>4, CountNumbers DEF FedCount
  <2> QED  BY <2>2, <2>3, <2>5
<1>3. CASE \/ ProcCheck \/ ProcDecide \/ ProcPause \/ ProcWake \/ ProcReap
           \/ ProcLock \/ ProcUnlock \/ ProcEnd \/ LineUp("processor")
  <2>1. /\ UNCHANGED <<queue, dropped_samples, total_consumed, total_produced, batch, trained,
                       train_pc, stopping, gen_pc, feed_pc, global_steps, pending_queue,
                       held, generating>>
        /\ failed' = failed
        /\ proc_pc' \in {"end", "done"} <=> proc_pc \in {"end", "done"}
    <3>1. CASE ProcReap \/ ProcUnlock
      <4>1. PICK done \in SUBSET Samples :
              /\ failed' = failed \ done
              /\ done \cap failed # {} => proc_pc' = "failed"
              /\ done \cap failed = {} =>
                   (proc_pc' \in {"end", "done"} <=> proc_pc \in {"end", "done"})
        <5>1. CASE ProcReap
          <6>1. reaping \in SUBSET Samples
            BY <3>1, <5>1 DEF ProcReap, TypeOK
          <6> QED  BY <5>1, <6>1 DEF ProcReap, Reap
        <5>2. CASE ProcUnlock
          <6>1. finished \in SUBSET Samples
            BY DEF TypeOK
          <6> QED  BY <5>2, <6>1 DEF ProcUnlock, Reap
        <5> QED  BY <3>1, <5>1, <5>2
      <4>2. done \cap failed = {} /\ failed' = failed
        BY <4>1
      <4>3. UNCHANGED <<queue, dropped_samples, total_consumed, total_produced, batch, trained,
                        train_pc, stopping, gen_pc, feed_pc, global_steps, pending_queue,
                        held, generating>>
        BY <3>1 DEF ProcReap, ProcUnlock, Reap, mqVars, feedVars, trainVars
      <4> QED  BY <4>1, <4>2, <4>3
    <3>2. CASE \/ ProcCheck \/ ProcDecide \/ ProcPause \/ ProcWake \/ ProcLock \/ ProcEnd
               \/ LineUp("processor")
      BY <3>2 DEF ProcCheck, ProcDecide, ProcPause, ProcWake, ProcLock, ProcEnd, LineUp, mqVars,
                  taskVars, feedVars, procVars, trainVars
    <3> QED  BY <1>3, <3>1, <3>2
  <2>2. PutCount' /\ SentSignal' = SentSignal /\ FedSamples' = FedSamples /\ Holding' = Holding
    BY <2>1, PutFrame DEF SentSignal, FedSamples, Holding
  <2>3. PendingInv' /\ PendingSignal' = PendingSignal
    BY <2>1, PendingFrame
  <2>4. FedCount'
    BY <2>1, <2>2, <2>3 DEF FedCount
  <2> QED  BY <2>2, <2>3, <2>4
<1> QED  BY <1>1, <1>2, <1>3 DEF ProcStep

\* put_sample counts what it puts and what it drops.
LEMMA PutCounts ==
  ASSUME TypeOK, NEW s \in Items, MQ!PutSample(s)
  PROVE  /\ total_produced' = total_produced + 1 /\ total_consumed' = total_consumed
         /\ Len(queue') + dropped_samples' = Len(queue) + dropped_samples + 1
<1>1. queue \in Seq(Items) /\ Len(queue) \in Nat /\ dropped_samples \in Nat
  BY SeqSteps DEF TypeOK, Items
<1>2. CASE MQ!Full
  <2>1. queue # <<>>
    BY <1>2, LimitType DEF MQ!Full, max_queue_size
  <2>2. queue' = Append(Tail(queue), s) /\ dropped_samples' = dropped_samples + 1
    BY <1>2 DEF MQ!PutSample, MQ!Evict
  <2>3. Len(queue') = Len(queue)
    BY <1>1, <2>1, <2>2
  <2>4. total_produced' = total_produced + 1 /\ total_consumed' = total_consumed
    BY DEF MQ!PutSample
  <2>5. dropped_samples' = dropped_samples + 1 /\ Len(queue) \in Nat /\ dropped_samples \in Nat
    BY <1>1, <2>2
  <2> QED  BY <2>3, <2>4, <2>5
<1>3. CASE ~MQ!Full
  <2>1. queue' = Append(queue, s) /\ dropped_samples' = dropped_samples
    BY <1>3 DEF MQ!PutSample, MQ!Evict
  <2>2. Len(queue') = Len(queue) + 1
    BY <1>1, <2>1
  <2>3. total_produced' = total_produced + 1 /\ total_consumed' = total_consumed
    BY DEF MQ!PutSample
  <2> QED  BY <1>1, <2>1, <2>2, <2>3
<1> QED  BY <1>2, <1>3

\* The accounts of a put while the trainer still takes samples.
LEMMA PutPutCount ==
  ASSUME TypeOK, TypeOK', PutCount, ~Stopped, NEW s \in Items, MQ!PutSample(s),
         UNCHANGED <<batch, trained, train_pc, stopping>>
  PROVE  PutCount'
<1>1. ~Stopped'
  BY DEF Stopped
<1>2. total_produced' = Len(queue') + dropped_samples' + total_consumed'
  <2>1. Len(queue) \in Nat /\ dropped_samples \in Nat /\ total_consumed \in Nat
        /\ Len(queue') \in Nat /\ dropped_samples' \in Nat
    BY SeqSteps DEF TypeOK
  <2>2. total_produced = Len(queue) + dropped_samples + total_consumed
    BY DEF PutCount
  <2> QED  BY <2>1, <2>2, PutCounts
<1>3. total_consumed' = Len(batch') + Len(trained')
  BY PutCounts DEF PutCount
<1> QED  BY <1>1, <1>2, <1>3 DEF PutCount

\* A sample that moves on from one account to the next.
LEMMA MovedOn ==
  ASSUME TypeOK, FedCount,
         UNCHANGED <<FedSamples, PendingSignal, Len(pending_queue), Holding>>,
         \/ /\ Cardinality(generating') = Cardinality(generating) - 1
            /\ Cardinality(failed') = Cardinality(failed)
            /\ total_produced' = total_produced + 1
            /\ SentSignal' = SentSignal
         \/ /\ Cardinality(generating') = Cardinality(generating) - 1
            /\ Cardinality(failed') = Cardinality(failed) + 1
            /\ total_produced' = total_produced
            /\ SentSignal' = SentSignal
         \/ /\ Cardinality(generating') = Cardinality(generating)
            /\ Cardinality(failed') = Cardinality(failed)
            /\ total_produced' = total_produced + 1
            /\ SentSignal' = SentSignal + 1
  PROVE  FedCount'
<1>1. /\ Len(pending_queue) \in Nat /\ FedSamples \in Nat /\ total_produced \in Nat
      /\ Cardinality(generating) \in Nat /\ Cardinality(failed) \in Nat
      /\ Holding \in Nat /\ PendingSignal \in Nat /\ SentSignal \in Nat
  BY CountNumbers
<1>2. FedSamples + PendingSignal + SentSignal
        = Len(pending_queue) + Holding + Cardinality(generating) + Cardinality(failed)
            + total_produced
  BY DEF FedCount
<1>3. FedSamples' + PendingSignal' + SentSignal'
        = Len(pending_queue') + Holding' + Cardinality(generating') + Cardinality(failed')
            + total_produced'
  BY <1>1, <1>2
<1> QED  BY <1>3 DEF FedCount

LEMMA TaskAccounted ==
  ASSUME TypeOK, TypeOK', OnceInv, ActiveInv, Roles, PendingInv, FedCount, PutCount,
         proc_pc # "failed",
         NEW t \in Samples, TaskPut(t) \/ TaskReturn(t) \/ TaskRaise(t)
  PROVE  PendingInv' /\ FedCount' /\ PutCount'
<1>1. UNCHANGED <<batch, trained, train_pc, stopping, gen_pc, feed_pc, global_steps,
                  pending_queue, proc_pc, held>>
  BY DEF TaskPut, TaskReturn, TaskRaise, feedVars, procVars, trainVars
<1>2. /\ PendingInv' /\ PendingSignal' = PendingSignal
      /\ SentSignal' = SentSignal /\ FedSamples' = FedSamples /\ Holding' = Holding
  BY <1>1, PendingFrame DEF SentSignal, FedSamples, Holding
<1>3. CASE TaskPut(t)
  <2>1. t \in generating /\ generating' = generating \ {t} /\ failed' = failed
        /\ MQ!PutSample(t) /\ t \in Items
    BY <1>3 DEF TaskPut, Items
  <2>2. ~Stopped
    <3>1. proc_pc # "done"
      BY <2>1 DEF ActiveInv, active_tasks
    <3> QED  BY <3>1 DEF Roles, ProcessorOver, PutCount
  <2>3. PutCount'
    BY <1>1, <2>1, <2>2, PutPutCount
  <2>4. Cardinality(generating') = Cardinality(generating) - 1
        /\ total_produced' = total_produced + 1
    BY <2>1, TaskLeaves, PutCounts
  <2>5. FedCount'
    BY <1>1, <1>2, <2>1, <2>4, MovedOn
  <2> QED  BY <1>2, <2>3, <2>5
<1>4. CASE TaskReturn(t)
  <2>1. UNCHANGED <<queue, dropped_samples, total_consumed, total_produced, generating, failed>>
    BY <1>4 DEF TaskReturn, mqVars
  <2> QED  BY <1>1, <1>2, <2>1, PutFrame DEF FedCount
<1>5. CASE TaskRaise(t)
  <2>1. UNCHANGED <<queue, dropped_samples, total_consumed, total_produced>>
        /\ t \in generating /\ generating' = generating \ {t} /\ failed' = failed \cup {t}
    BY <1>5 DEF TaskRaise, mqVars
  <2>2. t \notin failed
    BY <2>1 DEF OnceInv, OneStage, TypeOK
  <2>3. Cardinality(generating') = Cardinality(generating) - 1
        /\ Cardinality(failed') = Cardinality(failed) + 1
    BY <2>1, <2>2, TaskLeaves, TaskNumbers, FS_AddElement
  <2>4. FedCount'
    BY <1>1, <1>2, <2>1, <2>3, MovedOn
  <2> QED  BY <1>1, <1>2, <2>1, <2>4, PutFrame
<1> QED  BY <1>3, <1>4, <1>5

LEMMA FinishAccounted ==
  ASSUME TypeOK, TypeOK', PendingInv, FedCount, PutCount, proc_pc # "failed", FinishSignal
  PROVE  PendingInv' /\ FedCount' /\ PutCount'
<1>1. /\ UNCHANGED <<batch, trained, train_pc, stopping, global_steps, pending_queue, proc_pc,
                     held, generating, failed>>
      /\ gen_pc = "stream" /\ gen_pc' = "finish" /\ proc_pc = "done" /\ feed_pc' = "done"
      /\ MQ!PutSample(None) /\ None \in Items
  BY DEF FinishSignal, taskVars, procVars, trainVars, ProcessorOver, Items
<1>2. feed_pc' = feed_pc
  BY <1>1 DEF PendingInv
<1>3. /\ PendingInv' /\ PendingSignal' = PendingSignal
      /\ FedSamples' = FedSamples /\ Holding' = Holding
      /\ SentSignal = 0 /\ SentSignal' = 1
  BY <1>1, <1>2, PendingFrame DEF SentSignal, FedSamples, Holding
<1>4. ~Stopped
  BY <1>1 DEF PutCount
<1>5. PutCount'
  BY <1>1, <1>4, PutPutCount
<1>6. FedCount'
  <2>1. total_produced' = total_produced + 1
    BY <1>1, PutCounts
  <2> QED  BY <1>1, <1>3, <2>1, MovedOn
<1> QED  BY <1>3, <1>5, <1>6

LEMMA TrainerPutCount ==
  ASSUME TypeOK, TypeOK', Roles, EndInv, TrainerInv, PutCount, proc_pc # "failed", TrainerActs
  PROVE  PutCount'
<1>1. gen_pc' = gen_pc /\ dropped_samples' = dropped_samples /\ total_produced' = total_produced
  BY DEF TrainerActs, TrainerGet, TrainerStep, TrainerStop, TrainerSync, ResetBegin,
         ResetFinish, LineUp, MQ!GetSample, mqVars
<1>2. CASE TrainerGet
  <2>1. /\ train_pc = "collect" /\ queue # <<>> /\ queue' = Tail(queue)
        /\ total_consumed' = total_consumed + 1
        /\ UNCHANGED <<trained, stopping>>
    BY <1>2 DEF TrainerGet, MQ!GetSample
  <2>2. ~stopping /\ ~Stopped /\ Len(batch) < RequiredSamples
    BY <2>1 DEF TrainerInv, Stopped
  <2>3. /\ queue \in Seq(Items) /\ 1 \in 1 .. Len(queue) /\ Head(queue) = queue[1]
        /\ Len(queue') = Len(queue) - 1
    <3>1. queue \in Seq(Items)
      BY DEF TypeOK, Items
    <3> QED  BY <2>1, <3>1
  <2>4. total_produced' = Len(queue') + dropped_samples' + total_consumed'
    BY <1>1, <2>1, <2>3, CountNumbers DEF PutCount
  <2>5. total_consumed = Len(batch) + Len(trained)
    BY <2>2 DEF PutCount
  <2>6. CASE Head(queue) = None
    <3>1. gen_pc # "stream" /\ proc_pc = "done"
      BY <2>3, <2>6 DEF EndInv, Roles, ProcessorOver
    <3>2. Len(queue) = 1
      BY <2>3, <2>6, <3>1 DEF EndInv
    <3>3. queue' = <<>>
      BY <2>1, <2>3, <3>2
    <3>4. total_consumed' > Len(trained) /\ total_consumed' <= Len(trained) + RequiredSamples
      BY <2>1, <2>2, <2>5, CountNumbers
    <3>5. Stopped'
      BY <1>2, <2>6 DEF TrainerGet, Stopped
    <3> QED  BY <1>1, <2>1, <2>4, <3>1, <3>3, <3>4, <3>5 DEF PutCount
  <2>7. CASE Head(queue) # None
    <3>1. batch' = Append(batch, Head(queue)) /\ train_pc' # "stop"
      BY <1>2, <2>7 DEF TrainerGet
    <3>2. ~Stopped'
      BY <2>1, <2>2, <3>1 DEF Stopped
    <3>3. Len(batch') = Len(batch) + 1
      <4>1. batch \in Seq(Samples) /\ Head(queue) \in Items
        BY <2>1, <2>3, SeqSteps DEF TypeOK
      <4>2. Head(queue) \in Samples
        BY <2>7, <4>1 DEF Items
      <4> QED  BY <3>1, <4>1, <4>2, SeqSteps
    <3>4. total_consumed' = Len(batch') + Len(trained')
      BY <2>1, <2>5, <3>3, CountNumbers
    <3> QED  BY <2>4, <3>2, <3>4 DEF PutCount
  <2> QED  BY <2>6, <2>7
<1>3. CASE TrainerStep
  <2>1. /\ UNCHANGED <<queue, total_consumed, stopping>>
        /\ train_pc = "train" /\ train_pc' # "stop"
        /\ trained' = trained \o batch /\ batch' = <<>>
    BY <1>3 DEF TrainerStep, mqVars
  <2>2. ~Stopped /\ ~Stopped'
    BY <2>1 DEF TrainerInv, Stopped
  <2>3. Len(trained') = Len(trained) + Len(batch) /\ Len(batch') = 0
    <3>1. trained \in Seq(Samples) /\ batch \in Seq(Samples)
      BY DEF TypeOK
    <3> QED  BY <2>1, <3>1
  <2>4. total_consumed' = Len(batch') + Len(trained')
    BY <2>1, <2>2, <2>3, CountNumbers DEF PutCount
  <2>5. total_produced' = Len(queue') + dropped_samples' + total_consumed'
    BY <1>1, <2>1 DEF PutCount
  <2> QED  BY <2>2, <2>4, <2>5 DEF PutCount
<1>4. CASE TrainerStop \/ TrainerSync \/ ResetBegin \/ ResetFinish \/ LineUp("reset")
  <2>1. UNCHANGED <<queue, total_consumed, batch, trained>>
    BY <1>4 DEF TrainerStop, TrainerSync, ResetBegin, ResetFinish, LineUp, mqVars, trainVars
  <2>2. Stopped' <=> Stopped
    <3>1. CASE TrainerStop
      BY <3>1 DEF TrainerStop, Stopped
    <3>2. CASE TrainerSync
      BY <3>2 DEF TrainerSync, AfterUpdate, Stopped
    <3>3. CASE ResetBegin \/ ResetFinish
      BY <3>3 DEF ResetBegin, ResetFinish, AfterUpdate, Stopped
    <3>4. CASE LineUp("reset")
      BY <3>4 DEF LineUp, Stopped, trainVars
    <3> QED  BY <1>4, <3>1, <3>2, <3>3, <3>4
  <2> QED  BY <1>1, <2>1, <2>2 DEF PutCount
<1> QED  BY <1>2, <1>3, <1>4 DEF TrainerActs

\* The accounts only the producers keep, in the steps of everybody else.
LEMMA FedFrame ==
  ASSUME PendingInv, FedCount,
         UNCHANGED <<feed_pc, global_steps, pending_queue, proc_pc, held, generating, failed,
                     total_produced>>,
         gen_pc' = "stream" <=> gen_pc = "stream"
  PROVE  PendingInv' /\ FedCount'
<1>1. PendingInv' /\ PendingSignal' = PendingSignal
  BY PendingFrame
<1>2. SentSignal' = SentSignal /\ FedSamples' = FedSamples /\ Holding' = Holding
  BY DEF SentSignal, FedSamples, Holding
<1> QED  BY <1>1, <1>2 DEF FedCount

LEMMA NextAccounted ==
  ASSUME StreamInv, TrainerInv, Accounted, [Next]_vars
  PROVE  Accounted'
<1> SUFFICES ASSUME proc_pc' # "failed"
             PROVE  PendingInv' /\ FedCount' /\ PutCount'
  BY DEF Accounted
<1>1. TypeOK /\ TypeOK' /\ Roles /\ OnceInv /\ ActiveInv /\ EndInv
  BY NextTypeOK DEF StreamInv, IInv, FreshnessInv
<1>2. proc_pc # "failed" /\ PendingInv /\ FedCount /\ PutCount
  BY FailedStays DEF Accounted
<1>3. CASE TrainerActs
  <2>1. UNCHANGED <<feed_pc, global_steps, pending_queue, proc_pc, held, generating, failed,
                    total_produced, gen_pc>>
    BY <1>3 DEF TrainerActs, TrainerGet, TrainerStep, TrainerStop, TrainerSync, ResetBegin,
                ResetFinish, LineUp, MQ!GetSample, mqVars, taskVars, feedVars, procVars
  <2> QED  BY <1>1, <1>2, <1>3, <2>1, FedFrame, TrainerPutCount
<1>4. CASE FinishRunning \/ LineUp("main") \/ MonitorStep \/ UNCHANGED vars
  <2>1. UNCHANGED <<feed_pc, global_steps, pending_queue, proc_pc, held, generating, failed,
                    queue, dropped_samples, total_consumed, total_produced, batch, trained,
                    train_pc, stopping>>
        /\ (gen_pc' = "stream" <=> gen_pc = "stream")
    BY <1>4 DEF FinishRunning, LineUp, MonitorStep, vars, mqVars, taskVars, feedVars, procVars,
                trainVars
  <2>2. PutCount'
    BY <1>2, <2>1 DEF PutCount, Stopped
  <2> QED  BY <1>2, <2>1, <2>2, FedFrame
<1>5. CASE MainFinish
  <2>1. /\ UNCHANGED <<feed_pc, global_steps, pending_queue, proc_pc, held, generating, failed,
                       dropped_samples, total_consumed, total_produced, batch, trained,
                       train_pc, stopping, gen_pc>>
        /\ queue' = <<>> /\ train_pc = "done"
    BY <1>5 DEF MainFinish, MQ!ClearQueue, taskVars, feedVars, procVars, trainVars
  <2>2. queue = <<>>
    BY <1>2, <2>1 DEF TrainerInv, PutCount, Stopped
  <2>3. PutCount'
    BY <1>2, <2>1, <2>2, PutFrame
  <2> QED  BY <1>2, <2>1, <2>3, FedFrame
<1>6. CASE ProcStep
  BY <1>1, <1>2, <1>6, ProcAccounted
<1>7. CASE FeedSample \/ FeedEndSignal
  BY <1>1, <1>2, <1>7, FeedAccounted
<1>8. CASE FinishSignal
  BY <1>1, <1>2, <1>8, FinishAccounted
<1>9. ASSUME NEW t \in Samples, TaskPut(t) \/ TaskReturn(t) \/ TaskRaise(t)
      PROVE  PendingInv' /\ FedCount' /\ PutCount'
  BY <1>1, <1>2, <1>9, TaskAccounted
<1> QED  BY <1>3, <1>4, <1>5, <1>6, <1>7, <1>8, <1>9 DEF Next, FinishStep, Terminated

\* Streaming core: as long as no failure ends the processor, the counters of
\* the queue, the queues, the tasks and the trainer account for every sample.
THEOREM AccountsInvariance == Spec => []Accounted
BY InitAccounted, NextAccounted, StreamInvariance, TrainerInvariance, PTL DEF Spec

\* After a run without a failure every sample was trained on, dropped by the
\* full queue (and counted), or part of the last, partial batch.
THEOREM NoLoss == Spec => []NoSampleLost
<1>1. StreamInv /\ TrainerInv /\ Accounted => NoSampleLost
  <2> SUFFICES ASSUME StreamInv, TrainerInv, Accounted, train_pc = "done", proc_pc = "done"
               PROVE  /\ Len(trained) + dropped_samples <= TotalRolloutSteps
                      /\ TotalRolloutSteps - (Len(trained) + dropped_samples) < RequiredSamples
    BY DEF NoSampleLost
  <2>1. TypeOK /\ Roles /\ ActiveInv /\ PendingInv /\ FedCount /\ PutCount
    BY DEF StreamInv, IInv, FreshnessInv, Accounted
  <2>2. Stopped /\ queue = <<>> /\ gen_pc # "stream"
        /\ total_consumed > Len(trained)
        /\ total_consumed <= Len(trained) + RequiredSamples
    BY <2>1 DEF TrainerInv, Stopped, PutCount
  <2>3. feed_pc = "done" /\ pending_queue = <<>> /\ held = None
        /\ generating = {} /\ failed = {}
    BY <2>1 DEF PendingInv, Roles, ActiveInv, active_tasks, TypeOK
  <2>4. /\ FedSamples = TotalRolloutSteps /\ PendingSignal = 0 /\ SentSignal = 1
        /\ Len(pending_queue) = 0 /\ Holding = 0 /\ Len(queue) = 0
        /\ Cardinality(generating) = 0 /\ Cardinality(failed) = 0
    BY <2>2, <2>3, FS_EmptySet DEF FedSamples, PendingSignal, SentSignal, Holding
  <2>5. TotalRolloutSteps + 1 = dropped_samples + total_consumed
    BY <2>1, <2>4, CountNumbers DEF FedCount, PutCount
  <2> QED  BY <2>1, <2>2, <2>5, CountNumbers
<1> QED  BY <1>1, StreamInvariance, TrainerInvariance, AccountsInvariance, PTL

=============================================================================
