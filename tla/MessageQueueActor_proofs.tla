---------------------- MODULE MessageQueueActor_proofs ----------------------
(***************************************************************************)
(* Proofs about the MessageQueue actor for any capacity, any number of     *)
(* consumers and any number of samples: its invariants and the order of    *)
(* delivery.  Served and ShutdownReleases are liveness, left to TLC.       *)
(***************************************************************************)
EXTENDS MessageQueueActor, TLAPS

\* What a consumer holds left the queue from its old end.
GotIsOlder ==
  \A c \in Consumers : got[c] # Closed => got[c] <= total_produced - Len(queue)

IInv == TypeOK /\ QueueHoldsNewest /\ Accounting /\ NoLostWakeup /\ GotIsOlder

USE MaxQueueSizeAssumption, ActorAssumption

-----------------------------------------------------------------------------

LEMMA SeqSteps ==
  ASSUME NEW S, NEW s \in Seq(S), NEW e \in S
  PROVE  Append(s, e) \in Seq(S) /\ (s # <<>> => Tail(s) \in Seq(S))
OBVIOUS

\* Appending behind the evicted queue keeps the newest samples, in order.
LEMMA EvictLemma ==
  ASSUME queue \in Seq(Nat), total_produced \in Nat, QueueHoldsNewest,
         NEW q, q = Append(Evict, total_produced + 1)
  PROVE  /\ q \in Seq(Nat)
         /\ Len(q) = IF Full THEN Len(queue) ELSE Len(queue) + 1
         /\ Len(q) <= MaxQueueSize
         /\ \A i \in 1 .. Len(q) : q[i] = (total_produced + 1) - Len(q) + i
<1>1. CASE Full
  <2>1. Len(queue) \in Nat \ {0}
    BY <1>1 DEF Full
  <2>2. /\ Evict \in Seq(Nat)
        /\ Len(Evict) = Len(queue) - 1
        /\ \A i \in 1 .. Len(Evict) : Evict[i] = queue[i + 1]
    BY <1>1, <2>1 DEF Evict
  <2>3. /\ q \in Seq(Nat)
        /\ Len(q) = Len(queue)
        /\ \A i \in 1 .. Len(Evict) : q[i] = Evict[i]
        /\ q[Len(queue)] = total_produced + 1
    BY <2>1, <2>2
  <2>4. \A i \in 1 .. Len(q) : q[i] = (total_produced + 1) - Len(q) + i
    <3> SUFFICES ASSUME NEW i \in 1 .. Len(q)
                 PROVE  q[i] = (total_produced + 1) - Len(q) + i
      OBVIOUS
    <3>1. CASE i = Len(queue)
      BY <3>1, <2>1, <2>3
    <3>2. CASE i < Len(queue)
      <4>1. q[i] = queue[i + 1]
        BY <3>2, <2>1, <2>2, <2>3
      <4>2. i + 1 \in 1 .. Len(queue)
        BY <3>2, <2>1, <2>3
      <4>3. queue[i + 1] = total_produced - Len(queue) + (i + 1)
        BY <4>2 DEF QueueHoldsNewest
      <4>4. total_produced - Len(queue) + (i + 1) = (total_produced + 1) - Len(queue) + i
        BY <2>1, <2>3 DEF TypeOK
      <4> QED  BY <4>1, <4>3, <4>4, <2>3
    <3> QED  BY <3>1, <3>2, <2>1, <2>3
  <2> QED  BY <1>1, <2>1, <2>3, <2>4 DEF QueueHoldsNewest
<1>2. CASE ~Full
  <2>1. Evict = queue /\ Len(queue) < MaxQueueSize
    BY <1>2 DEF Evict, Full
  <2>2. /\ q \in Seq(Nat)
        /\ Len(q) = Len(queue) + 1
        /\ \A i \in 1 .. Len(queue) : q[i] = queue[i]
        /\ q[Len(queue) + 1] = total_produced + 1
    BY <2>1
  <2>3. \A i \in 1 .. Len(q) : q[i] = (total_produced + 1) - Len(q) + i
    <3> SUFFICES ASSUME NEW i \in 1 .. Len(q)
                 PROVE  q[i] = (total_produced + 1) - Len(q) + i
      OBVIOUS
    <3>1. CASE i = Len(queue) + 1
      BY <3>1, <2>2
    <3>2. CASE i \in 1 .. Len(queue)
      <4>1. queue[i] = total_produced - Len(queue) + i
        BY <3>2 DEF QueueHoldsNewest
      <4> QED  BY <3>2, <4>1, <2>2
    <3>3. i = Len(queue) + 1 \/ i \in 1 .. Len(queue)
      BY <2>2
    <3> QED  BY <3>1, <3>2, <3>3
  <2> QED  BY <1>2, <2>1, <2>2, <2>3
<1> QED  BY <1>1, <1>2

\* get_sample takes the oldest sample and leaves the others in order.
LEMMA GetLemma ==
  ASSUME queue \in Seq(Nat), total_produced \in Nat, QueueHoldsNewest, queue # <<>>
  PROVE  /\ Head(queue) \in Nat
         /\ Head(queue) = total_produced - Len(queue) + 1
         /\ Tail(queue) \in Seq(Nat)
         /\ Len(Tail(queue)) = Len(queue) - 1
         /\ Len(queue) \in Nat \ {0}
         /\ \A i \in 1 .. Len(Tail(queue)) :
              Tail(queue)[i] = total_produced - Len(Tail(queue)) + i
<1>1. /\ Len(queue) \in Nat \ {0}
      /\ Head(queue) = queue[1] /\ Head(queue) \in Nat
      /\ Tail(queue) \in Seq(Nat) /\ Len(Tail(queue)) = Len(queue) - 1
      /\ \A i \in 1 .. Len(Tail(queue)) : Tail(queue)[i] = queue[i + 1]
  OBVIOUS
<1> QED  BY <1>1 DEF QueueHoldsNewest

-----------------------------------------------------------------------------

LEMMA InitIInv == Init => IInv
<1> SUFFICES ASSUME Init PROVE IInv
  OBVIOUS
<1> USE DEF Init, MQInit
<1>1. TypeOK
  BY DEF TypeOK, Idle
<1>2. QueueHoldsNewest /\ Accounting
  BY DEF QueueHoldsNewest, Accounting
<1>3. NoLostWakeup /\ GotIsOlder
  BY DEF NoLostWakeup, GotIsOlder, Idle, Waiting
<1> QED  BY <1>1, <1>2, <1>3 DEF IInv

LEMMA NotifyLemma ==
  ASSUME TypeOK, NotifyAll
  PROVE  /\ call' \in [Consumers -> {Idle, Called, Waiting, Notified}]
         /\ \A c \in Consumers : call'[c] # Waiting
BY DEF TypeOK, NotifyAll, Idle, Called, Waiting, Notified

LEMMA PutIInv == IInv /\ Put => IInv'
<1> SUFFICES ASSUME IInv, Put PROVE IInv'
  OBVIOUS
<1> USE DEF IInv
<1>1. /\ queue' \in Seq(Nat)
      /\ Len(queue') = IF Full THEN Len(queue) ELSE Len(queue) + 1
      /\ Len(queue') <= MaxQueueSize
      /\ \A i \in 1 .. Len(queue') : queue'[i] = (total_produced + 1) - Len(queue') + i
  BY EvictLemma DEF Put, PutSample, TypeOK
<1>2. /\ total_produced' = total_produced + 1
      /\ dropped_samples' = IF Full THEN dropped_samples + 1 ELSE dropped_samples
      /\ UNCHANGED <<mq_running, total_consumed, got, clears, cleared, val_queue>>
  BY DEF Put, PutSample
<1>3. TypeOK'
  BY <1>1, <1>2, NotifyLemma DEF Put, TypeOK
<1>4. QueueHoldsNewest'
  BY <1>1, <1>2 DEF QueueHoldsNewest
<1>5. Accounting'
  BY <1>1, <1>2 DEF Accounting, TypeOK
<1>6. NoLostWakeup'
  BY NotifyLemma DEF Put, NoLostWakeup
<1>7. GotIsOlder'
  <2> SUFFICES ASSUME NEW c \in Consumers, got[c] # Closed
               PROVE  got[c] <= total_produced' - Len(queue')
    BY <1>2 DEF GotIsOlder
  <2>1. got[c] \in Nat /\ got[c] <= total_produced - Len(queue)
    BY DEF GotIsOlder, TypeOK
  <2>2. Len(queue) \in Nat /\ total_produced \in Nat
    BY DEF TypeOK
  <2>3. total_produced - Len(queue) <= total_produced' - Len(queue')
    BY <1>1, <1>2, <2>2
  <2>4. Len(queue') \in Nat /\ total_produced' \in Nat
    BY <1>1, <1>2, <2>2
  <2> QED  BY <2>1, <2>2, <2>3, <2>4
<1> QED  BY <1>3, <1>4, <1>5, <1>6, <1>7

LEMMA GetReturnsIInv ==
  ASSUME IInv, NEW c \in Consumers, GetReturns(c)
  PROVE  IInv' /\ got'[c] = Head(queue) /\ Head(queue) > total_produced - Len(queue)
<1> USE DEF IInv
<1>1. queue # <<>> /\ queue' = Tail(queue) /\ total_consumed' = total_consumed + 1
      /\ UNCHANGED <<mq_running, total_produced, dropped_samples, clears, cleared, val_queue>>
  BY DEF GetReturns, GetSample
<1>2. /\ got' = [got EXCEPT ![c] = Head(queue)]
      /\ call' = [call EXCEPT ![c] = Idle]
  BY DEF GetReturns, Received
<1>3. /\ Head(queue) \in Nat
      /\ Head(queue) = total_produced - Len(queue) + 1
      /\ queue' \in Seq(Nat)
      /\ Len(queue') = Len(queue) - 1
      /\ Len(queue) \in Nat \ {0}
      /\ \A i \in 1 .. Len(queue') : queue'[i] = total_produced - Len(queue') + i
  BY <1>1, GetLemma DEF TypeOK
<1>4. TypeOK'
  BY <1>1, <1>2, <1>3 DEF TypeOK
<1>5. QueueHoldsNewest' /\ Accounting'
  BY <1>1, <1>3 DEF QueueHoldsNewest, Accounting, TypeOK
<1>6. NoLostWakeup'
  BY <1>1, <1>2 DEF NoLostWakeup, MustWait, Idle, Waiting, TypeOK
<1>7. GotIsOlder'
  <2> SUFFICES ASSUME NEW d \in Consumers, got'[d] # Closed
               PROVE  got'[d] <= total_produced' - Len(queue')
    BY DEF GotIsOlder
  <2>1. total_produced \in Nat /\ total_produced' = total_produced
        /\ got \in [Consumers -> Nat \cup {Closed}]
    BY <1>1 DEF TypeOK
  <2>2. total_produced' - Len(queue') = total_produced - Len(queue) + 1
    BY <1>3, <2>1
  <2>3. CASE d = c
    BY <1>2, <1>3, <2>1, <2>2, <2>3
  <2>4. CASE d # c
    <3>1. got'[d] = got[d] /\ got[d] # Closed /\ got[d] \in Nat
      BY <1>2, <2>1, <2>4
    <3>2. got[d] <= total_produced - Len(queue)
      BY <3>1 DEF GotIsOlder
    <3> QED  BY <1>3, <2>1, <2>2, <3>1, <3>2
  <2> QED  BY <2>3, <2>4
<1>8. got'[c] = Head(queue)
  BY <1>2 DEF TypeOK
<1>9. Head(queue) > total_produced - Len(queue)
  <2>1. total_produced \in Nat
    BY DEF TypeOK
  <2> QED  BY <1>3, <2>1
<1> QED  BY <1>4, <1>5, <1>6, <1>7, <1>8, <1>9

LEMMA NextIInv == IInv /\ [Next]_vars => IInv'
<1> SUFFICES ASSUME IInv, [Next]_vars PROVE IInv'
  OBVIOUS
<1> USE DEF IInv
<1>1. CASE Put
  BY <1>1, PutIInv
<1>2. CASE Clear
  <2>1. /\ queue' = <<>> /\ clears' = clears + 1 /\ cleared' = cleared + Len(queue)
        /\ UNCHANGED <<mq_running, total_produced, total_consumed, dropped_samples,
                       call, got, val_queue>>
    BY <1>2 DEF Clear, ClearQueue
  <2>2. TypeOK'
    BY <2>1 DEF TypeOK
  <2>3. QueueHoldsNewest' /\ Accounting'
    BY <2>1 DEF QueueHoldsNewest, Accounting, TypeOK
  <2>4. NoLostWakeup' /\ GotIsOlder'
    BY <2>1 DEF NoLostWakeup, MustWait, GotIsOlder, TypeOK
  <2> QED  BY <2>2, <2>3, <2>4
<1>3. CASE CloseQueue
  <2>1. UNCHANGED <<queue, total_produced, total_consumed, dropped_samples, got,
                    clears, cleared, val_queue>> /\ mq_running' = FALSE
    BY <1>3 DEF CloseQueue, Shutdown
  <2>2. TypeOK'
    BY <1>3, <2>1, NotifyLemma DEF CloseQueue, TypeOK
  <2>3. QueueHoldsNewest' /\ Accounting' /\ GotIsOlder'
    BY <2>1 DEF QueueHoldsNewest, Accounting, GotIsOlder
  <2>4. NoLostWakeup'
    BY <1>3, NotifyLemma DEF CloseQueue, NoLostWakeup
  <2> QED  BY <2>2, <2>3, <2>4
<1>4. CASE PutValidate \/ GetValidate
  <2>1. UNCHANGED <<mqVars, call, got, clears, cleared>>
    BY <1>4 DEF PutValidate, GetValidate
  <2>2. val_queue' \in Seq({"metrics"})
    <3>1. val_queue \in Seq({"metrics"}) /\ "metrics" \in {"metrics"}
      BY DEF TypeOK
    <3>2. /\ Append(val_queue, "metrics") \in Seq({"metrics"})
          /\ val_queue # <<>> => Tail(val_queue) \in Seq({"metrics"})
      BY <3>1, SeqSteps
    <3> QED  BY <1>4, <3>2 DEF PutValidate, GetValidate
  <2>3. TypeOK'
    BY <2>1, <2>2 DEF TypeOK, mqVars
  <2> QED  BY <2>1, <2>3 DEF mqVars, QueueHoldsNewest, Accounting, GotIsOlder,
                            NoLostWakeup, MustWait
<1>5. ASSUME NEW c \in Consumers, CallGet(c)
      PROVE  IInv'
  BY <1>5 DEF CallGet, mqVars, TypeOK, QueueHoldsNewest, Accounting, GotIsOlder,
              NoLostWakeup, MustWait, Idle, Called, Waiting
<1>6. ASSUME NEW c \in Consumers, GetWaits(c)
      PROVE  IInv'
  BY <1>6 DEF GetWaits, mqVars, TypeOK, QueueHoldsNewest, Accounting, GotIsOlder,
              NoLostWakeup, MustWait, Waiting
<1>7. ASSUME NEW c \in Consumers, GetReturns(c)
      PROVE  IInv'
  BY <1>7, GetReturnsIInv
<1>8. ASSUME NEW c \in Consumers, GetClosed(c)
      PROVE  IInv'
  BY <1>8 DEF GetClosed, mqVars, TypeOK, QueueHoldsNewest, Accounting, GotIsOlder,
              NoLostWakeup, MustWait, Idle, Waiting
<1>9. CASE UNCHANGED vars
  BY <1>9 DEF vars, mqVars, TypeOK, QueueHoldsNewest, Accounting, GotIsOlder,
              NoLostWakeup, MustWait
<1> QED  BY <1>1, <1>2, <1>3, <1>4, <1>5, <1>6, <1>7, <1>8, <1>9 DEF Next, GetStep

-----------------------------------------------------------------------------

THEOREM Invariance == Spec => []IInv
<1>1. Init => IInv
  BY InitIInv
<1>2. IInv /\ [Next]_vars => IInv'
  BY NextIInv
<1> QED  BY <1>1, <1>2, PTL DEF Spec

\* Every variable of the actor keeps its type, whatever the constants.
THEOREM TypeCorrect == Spec => []TypeOK
<1>1. IInv => TypeOK
  BY DEF IInv
<1> QED  BY <1>1, Invariance, PTL

\* put_sample and get_sample: the queue is the newest part of what was put.
THEOREM QueueIsNewestSuffix == Spec => []QueueHoldsNewest
<1>1. IInv => QueueHoldsNewest
  BY DEF IInv
<1> QED  BY <1>1, Invariance, PTL

\* The actor's statistics, with what clear_queue removed, miss no sample.
THEOREM StatisticsAddUp == Spec => []Accounting
<1>1. IInv => Accounting
  BY DEF IInv
<1> QED  BY <1>1, Invariance, PTL

\* notify_all in put_sample and shutdown: no getter sleeps beside a sample.
THEOREM WakeupsNotLost == Spec => []NoLostWakeup
<1>1. IInv => NoLostWakeup
  BY DEF IInv
<1> QED  BY <1>1, Invariance, PTL

\* get_sample: at most once, and in the order of the puts, over all consumers.
THEOREM InOrderDelivery == Spec => DeliveryOrder
<1> DEFINE Newer(c, d) ==
      (got'[c] # got[c] /\ got'[c] # Closed /\ got[d] # Closed) => got'[c] > got[d]
<1>1. IInv /\ [Next]_vars => [\A c, d \in Consumers : Newer(c, d)]_vars
  <2> SUFFICES ASSUME IInv, Next, NEW c \in Consumers, NEW d \in Consumers,
                      got'[c] # got[c], got'[c] # Closed, got[d] # Closed
               PROVE  got'[c] > got[d]
    BY DEF vars
  <2>1. PICK e \in Consumers : GetReturns(e) \/ GetClosed(e)
    BY DEF Next, GetStep, Put, Clear, CloseQueue, PutValidate, GetValidate, CallGet,
           GetWaits, mqVars
  <2>2. c = e
    BY <2>1 DEF GetReturns, GetClosed, IInv, TypeOK
  <2>3. GetReturns(c)
    BY <2>1, <2>2 DEF GetClosed, IInv, TypeOK
  <2>4. got'[c] = Head(queue) /\ Head(queue) > total_produced - Len(queue)
    BY <2>3, GetReturnsIInv
  <2>5. got[d] <= total_produced - Len(queue)
    BY DEF IInv, GotIsOlder
  <2>6. got[d] \in Nat /\ got'[c] \in Nat
    BY <2>3, GetReturnsIInv DEF IInv, TypeOK
  <2>7. total_produced \in Nat /\ Len(queue) \in Nat
    BY DEF IInv, TypeOK
  <2> QED  BY <2>4, <2>5, <2>6, <2>7
<1> QED  BY <1>1, Invariance, PTL DEF Spec, DeliveryOrder

=============================================================================
