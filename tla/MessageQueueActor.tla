------------------------- MODULE MessageQueueActor --------------------------
(***************************************************************************)
(* The MessageQueue actor with its callers.  Ray runs at most              *)
(* MaxConcurrency method coroutines of the actor at a time; a get_sample   *)
(* that waits for a sample keeps its slot, every other call runs to its    *)
(* end in one step.  Producers put a bounded stream of samples, consumers  *)
(* get, and an administrator may clear the queue or shut it down.          *)
(***************************************************************************)
EXTENDS MessageQueue, FiniteSets

CONSTANTS
  Consumers,         \* callers of get_sample
  MaxConcurrency,    \* max_concurrency of the actor (20 in the source)
  MaxPuts,           \* bound: samples put in a behaviour
  MaxClears,         \* bound: clear_queue calls in a behaviour
  MaxValidates,      \* bound: length of val_queue
  Closed             \* get_sample's bare None: no data and the queue is closed

ASSUME ActorAssumption ==
  /\ IsFiniteSet(Consumers)
  /\ MaxConcurrency \in Nat
  /\ Cardinality(Consumers) < MaxConcurrency
  /\ MaxPuts \in Nat
  /\ MaxClears \in Nat
  /\ MaxValidates \in Nat
  /\ Closed \notin Nat

VARIABLES
  call,       \* call[c]: where consumer c's get_sample stands
  got,        \* got[c]: what c's last get_sample returned
  clears,     \* clear_queue calls so far
  cleared,    \* history: samples thrown away by clear_queue
  val_queue   \* self.val_queue

\* The samples put so far are 1 .. total_produced, in this order.
vars == <<mqVars, call, got, clears, cleared, val_queue>>

Idle     == "idle"      \* no call outstanding
Called   == "called"    \* submitted to the actor, no slot yet
Waiting  == "waiting"   \* inside condition.wait()
Notified == "notified"  \* woken by notify_all, to take the lock again

SlotsUsed == Cardinality({c \in Consumers : call[c] \in {Waiting, Notified}})

SlotFree == SlotsUsed < MaxConcurrency

\* Mutant: notify() wakes one waiter.
NotifyOne ==
  \/ /\ \A c \in Consumers : call[c] # Waiting
     /\ UNCHANGED call
  \/ \E c \in Consumers : /\ call[c] = Waiting
                         /\ call' = [call EXCEPT ![c] = Notified]

\* Mutant: nobody is woken.
NotifyNone == UNCHANGED call

NotifyAll ==
  call' = [c \in Consumers |-> IF call[c] = Waiting THEN Notified ELSE call[c]]

Init ==
  /\ MQInit
  /\ call = [c \in Consumers |-> Idle]
  /\ got = [c \in Consumers |-> 0]
  /\ clears = 0
  /\ cleared = 0
  /\ val_queue = <<>>

-----------------------------------------------------------------------------
\* Calls

Put ==
  /\ SlotFree
  /\ total_produced < MaxPuts
  /\ PutSample(total_produced + 1)
  /\ NotifyAll
  /\ UNCHANGED <<got, clears, cleared, val_queue>>

CallGet(c) ==
  /\ call[c] = Idle
  /\ got[c] # Closed
  /\ call' = [call EXCEPT ![c] = Called]
  /\ UNCHANGED <<mqVars, got, clears, cleared, val_queue>>

\* get_sample holds the lock: at its first evaluation of the wait predicate
\* (Called, once a slot is free) or after a wake-up (Notified).
HasLock(c) ==
  \/ call[c] = Called /\ SlotFree
  \/ call[c] = Notified

GetWaits(c) ==
  /\ HasLock(c)
  /\ MustWait
  /\ call' = [call EXCEPT ![c] = Waiting]
  /\ UNCHANGED <<mqVars, got, clears, cleared, val_queue>>

Received == Head(queue)

GetReturns(c) ==
  /\ HasLock(c)
  /\ GetSample
  /\ got' = [got EXCEPT ![c] = Received]
  /\ call' = [call EXCEPT ![c] = Idle]
  /\ UNCHANGED <<clears, cleared, val_queue>>

GetClosed(c) ==
  /\ HasLock(c)
  /\ ~mq_running
  /\ queue = <<>>
  /\ got' = [got EXCEPT ![c] = Closed]
  /\ call' = [call EXCEPT ![c] = Idle]
  /\ UNCHANGED <<mqVars, clears, cleared, val_queue>>

Clear ==
  /\ SlotFree
  /\ clears < MaxClears
  /\ ClearQueue
  /\ clears' = clears + 1
  /\ cleared' = cleared + Len(queue)
  /\ UNCHANGED <<call, got, val_queue>>

CloseQueue ==
  /\ SlotFree
  /\ mq_running
  /\ Shutdown
  /\ NotifyAll
  /\ UNCHANGED <<got, clears, cleared, val_queue>>

\* put_validate and get_validate share the lock and nothing else with the
\* sample queue; the repository has no caller of either.
PutValidate ==
  /\ SlotFree
  /\ Len(val_queue) < MaxValidates
  /\ val_queue' = Append(val_queue, "metrics")
  /\ UNCHANGED <<mqVars, call, got, clears, cleared>>

GetValidate ==
  /\ SlotFree
  /\ val_queue # <<>>
  /\ val_queue' = Tail(val_queue)
  /\ UNCHANGED <<mqVars, call, got, clears, cleared>>

GetStep(c) == GetWaits(c) \/ GetReturns(c) \/ GetClosed(c)

Next ==
  \/ Put
  \/ Clear
  \/ CloseQueue
  \/ PutValidate
  \/ GetValidate
  \/ \E c \in Consumers : CallGet(c) \/ GetStep(c)

\* The actor's event loop eventually resumes a coroutine that can run.  No
\* fairness for the callers: nobody has to put, get, clear or shut down.
Fairness == \A c \in Consumers : WF_vars(GetStep(c))

Spec == Init /\ [][Next]_vars /\ Fairness

-----------------------------------------------------------------------------
\* Properties

TypeOK ==
  /\ queue \in Seq(Nat)
  /\ mq_running \in BOOLEAN
  /\ total_produced \in Nat
  /\ total_consumed \in Nat
  /\ dropped_samples \in Nat
  /\ call \in [Consumers -> {Idle, Called, Waiting, Notified}]
  /\ got \in [Consumers -> Nat \cup {Closed}]
  /\ clears \in Nat
  /\ cleared \in Nat
  /\ val_queue \in Seq({"metrics"})

\* The queue never exceeds its capacity and holds exactly the newest
\* Len(queue) samples in production order: eviction and consumption both take
\* from the old end, whatever the interleaving of puts, gets and clears.
QueueHoldsNewest ==
  /\ Len(queue) <= MaxQueueSize
  /\ \A i \in 1 .. Len(queue) : queue[i] = total_produced - Len(queue) + i

\* Every sample put is accounted for exactly once: returned by a get, dropped
\* by a full queue, thrown away by clear_queue, or still queued.
Accounting ==
  total_produced = total_consumed + dropped_samples + cleared + Len(queue)

\* No lost wake-up: a getter stays in condition.wait() only while its wait
\* predicate holds, i.e. put_sample and shutdown notify all waiters.
NoLostWakeup ==
  \A c \in Consumers : call[c] = Waiting => MustWait

\* At-most-once, in-order delivery across concurrent consumers: what a get
\* returns is newer than everything any consumer has got before.
DeliveryOrder ==
  [][\A c, d \in Consumers :
       (got'[c] # got[c] /\ got'[c] # Closed /\ got[d] # Closed)
         => got'[c] > got[d]]_vars

\* With fewer consumers than actor slots, a getter is served unless others
\* empty the queue: a waiting getter never blocks the put it waits for.
Served ==
  \A c \in Consumers :
    (call[c] # Idle /\ queue # <<>>) ~> (call[c] = Idle \/ queue = <<>>)

\* shutdown releases every outstanding get_sample.
ShutdownReleases ==
  \A c \in Consumers : (call[c] # Idle /\ ~mq_running) ~> (call[c] = Idle)

=============================================================================
