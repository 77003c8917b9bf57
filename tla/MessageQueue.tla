---------------------------- MODULE MessageQueue ----------------------------
(***************************************************************************)
(* The sample queue between the Rollouter and the Trainer of the fully     *)
(* asynchronous policy (fully_async_policy/message_queue.py).              *)
(*                                                                         *)
(* Every method of the Ray actor runs its body under one asyncio lock and  *)
(* gives it up only inside get_sample's condition wait, so each operation  *)
(* below is one atomic step of the actor.  MessageQueueActor adds the      *)
(* callers and their waiting; FullyAsync composes these operations with    *)
(* the Rollouter and the Trainer.                                          *)
(***************************************************************************)
EXTENDS Naturals, Sequences

CONSTANT MaxQueueSize    \* max_queue_size, the capacity of the deque

ASSUME MaxQueueSizeAssumption == MaxQueueSize \in Nat \ {0}

VARIABLES
  queue,             \* self.queue, oldest sample first
  mq_running,        \* self.running
  total_produced,    \* self.total_produced
  total_consumed,    \* self.total_consumed
  dropped_samples    \* self.dropped_samples

mqVars == <<queue, mq_running, total_produced, total_consumed, dropped_samples>>

MQInit ==
  /\ queue = <<>>
  /\ mq_running = TRUE
  /\ total_produced = 0
  /\ total_consumed = 0
  /\ dropped_samples = 0

-----------------------------------------------------------------------------
\* Operations

Full == Len(queue) >= MaxQueueSize

\* Mutant: a full queue gives up its newest sample.
EvictNewest == IF Full THEN SubSeq(queue, 1, Len(queue) - 1) ELSE queue

\* A full queue gives up its oldest sample.
Evict == IF Full THEN Tail(queue) ELSE queue

\* Mutant: the eviction is left to the deque's maxlen and not counted.
PutSampleUncounted(sample) ==
  /\ queue' = Append(Evict, sample)
  /\ total_produced' = total_produced + 1
  /\ UNCHANGED <<mq_running, total_consumed, dropped_samples>>

\* put_sample; its result (FALSE when it dropped a sample) is ~Full in the
\* state before the step.
PutSample(sample) ==
  /\ queue' = Append(Evict, sample)
  /\ dropped_samples' = IF Full THEN dropped_samples + 1 ELSE dropped_samples
  /\ total_produced' = total_produced + 1
  /\ UNCHANGED <<mq_running, total_consumed>>

\* get_sample's condition-wait predicate is Len(queue) = 0 /\ mq_running.
MustWait == queue = <<>> /\ mq_running

\* Mutant: get_sample leaves the sample in the queue.
GetSampleKeeps ==
  /\ queue # <<>>
  /\ total_consumed' = total_consumed + 1
  /\ UNCHANGED <<queue, mq_running, total_produced, dropped_samples>>

\* get_sample returning data, which is Head(queue) before the step.
GetSample ==
  /\ queue # <<>>
  /\ queue' = Tail(queue)
  /\ total_consumed' = total_consumed + 1
  /\ UNCHANGED <<mq_running, total_produced, dropped_samples>>

\* Mutant: clearing takes back the counts of the drops.
ClearQueueUndrops ==
  /\ queue' = <<>>
  /\ dropped_samples' = dropped_samples - Len(queue)
  /\ UNCHANGED <<mq_running, total_produced, total_consumed>>

ClearQueue ==
  /\ queue' = <<>>
  /\ UNCHANGED <<mq_running, total_produced, total_consumed, dropped_samples>>

Shutdown ==
  /\ mq_running' = FALSE
  /\ UNCHANGED <<queue, total_produced, total_consumed, dropped_samples>>

=============================================================================
