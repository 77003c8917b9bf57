----------------------------- MODULE WeightSync -----------------------------
(***************************************************************************)
(* The trainer gives a new parameter version to the rollout replicas, and  *)
(* lends its own GPUs to a validation, while conversations generate.       *)
(*                                                                         *)
(* The trainer's part is a program of steps, each a gather over replicas   *)
(* that reaches them in any order: CheckpointEngineManager.update_weights, *)
(* then, every TestFreq versions, FullyAsyncTrainer._trainer_side_validate.*)
(* A conversation's part is FullyAsyncLLMServerClient.generate, which      *)
(* starts a turn again when it is aborted, and the version stamps that     *)
(* ToolAgentLoop keeps for the whole conversation.                         *)
(*                                                                         *)
(* Tokens are abstracted to the version of the weights that produced them, *)
(* and the choice among the least loaded servers to any server of the pool *)
(* (LoadBalancer has it).  The engine is vLLM 0.12: it pauses on an abort. *)
(***************************************************************************)
EXTENDS Naturals, Sequences, FiniteSets

CONSTANTS
  Standalone,     \* replicas on the rollout side
  Hybrid,         \* replicas on the trainer's GPUs, asleep while it trains
  Requests,       \* conversations at a time
  MaxVersion,     \* bound on the parameter versions
  TestFreq,       \* versions from one validation to the next
  PartialRollout, \* async_training.partial_rollout
  None

Servers == Standalone \cup Hybrid
Versions == 0 .. MaxVersion

ASSUME WeightSyncAssumption ==
  /\ Standalone # {}
  /\ Standalone \cap Hybrid = {}
  /\ None \notin Servers \cup Versions
  /\ \A a, b \in Versions \cup {None} : None # [min |-> a, max |-> b]
  /\ MaxVersion \in Nat
  /\ TestFreq \in Nat \ {0}
  /\ PartialRollout \in BOOLEAN

VARIABLES
  version,  \* current_param_version
  pc,       \* the step of Program under way, 0 while it trains
  left,     \* replicas the step has not reached yet
  unstamped,\* replicas with new weights whose global_steps are still the old
  weights,  \* version of the weights in each engine
  steps,    \* global_steps of each server
  paused,   \* engines between abort_all_requests and resume_generation
  asleep,   \* hybrid engines without weights and cache
  pool,     \* servers in the load balancer
  route,    \* sticky server of each conversation
  at,       \* server of the call under way
  call,     \* where the call is
  fresh,    \* versions of the tokens the call has so far
  answer,   \* what the server returned to the client
  made,     \* versions of the tokens the client has kept, all turns
  lo,       \* min_global_steps of the turn under way
  stamps    \* min and max_global_steps of the conversation: AgentData

trainerVars == <<version, pc, left, unstamped>>
serverVars == <<weights, steps, paused, asleep, pool>>
stampVars == <<made, lo, stamps>>
callVars == <<route, at, call, fresh, answer>>
vars == <<trainerVars, serverVars, callVars, stampVars>>

Calls == {"idle", "retry", "sent", "running", "answered"}

Init ==
  /\ version = 0 /\ pc = 0 /\ left = {} /\ unstamped = {}
  /\ weights = [s \in Servers |-> 0]
  /\ steps = [s \in Servers |-> 0]
  /\ paused = {} /\ asleep = Hybrid /\ pool = Standalone
  /\ route = [r \in Requests |-> None]
  /\ at = [r \in Requests |-> None]
  /\ call = [r \in Requests |-> "idle"]
  /\ fresh = [r \in Requests |-> {}]
  /\ answer = [r \in Requests |-> None]
  /\ made = [r \in Requests |-> {}]
  /\ lo = [r \in Requests |-> None]
  /\ stamps = [r \in Requests |-> None]

-----------------------------------------------------------------------------
\* The trainer

Op(name, targets) == [name |-> name, targets |-> targets]

\* Mutant: the weights are sent before the requests are aborted.
SyncLoadFirst ==
  << Op("load", Standalone), Op("abort", Standalone), Op("resume", Standalone) >>

\* update_weights with a backend other than naive.
Sync ==
  << Op("abort", Standalone), Op("load", Standalone), Op("resume", Standalone) >>

\* Mutant: phase 3 resumes the hybrid replicas only.
ValidationUnresumed ==
  << Op("load", Hybrid), Op("abort", Standalone), Op("abort", Hybrid),
     Op("add", Hybrid), Op("resume", Standalone), Op("resume", Hybrid),
     Op("validate", {}),
     Op("abort", Standalone), Op("abort", Hybrid), Op("remove", Hybrid),
     Op("sleep", Hybrid), Op("resume", Hybrid) >>

\* Phase 1 wakes the hybrid replicas with the new weights and adds them to the
\* pool, phase 2 validates, phase 3 removes them and puts them to sleep.
Validation ==
  << Op("load", Hybrid), Op("abort", Standalone), Op("abort", Hybrid),
     Op("add", Hybrid), Op("resume", Standalone), Op("resume", Hybrid),
     Op("validate", {}),
     Op("abort", Standalone), Op("abort", Hybrid), Op("remove", Hybrid),
     Op("sleep", Hybrid), Op("resume", Standalone), Op("resume", Hybrid) >>

Program == Sync \o Validation

\* use_trainer_do_validate and need_validate
NeedValidate == Hybrid # {} /\ version % TestFreq = 0

\* The step after i, 0 when the trainer goes back to training.
After(i) ==
  IF i = Len(Program) \/ (i = Len(Sync) /\ ~NeedValidate) THEN 0 ELSE i + 1

Doing(name) == pc # 0 /\ Program[pc].name = name

\* fit_step: the last local step of a version begins the sync.
Train ==
  /\ pc = 0
  /\ version < MaxVersion
  /\ version' = version + 1
  /\ pc' = 1
  /\ left' = Program[1].targets
  /\ UNCHANGED <<unstamped, serverVars, callVars, stampVars>>

StepDone ==
  /\ pc # 0
  /\ left = {} /\ unstamped = {}
  /\ pc' = After(pc)
  /\ left' = IF pc' = 0 THEN {} ELSE Program[pc'].targets
  /\ UNCHANGED <<version, unstamped, serverVars, callVars, stampVars>>

At(s) == {r \in Requests : at[r] = s}

\* What an aborted request returns: its tokens, or nothing at all and then no
\* global_steps either.
AbortedAnswers(r) ==
  { [tokens |-> fresh[r], steps |-> steps[at[r]], aborted |-> TRUE],
    [tokens |-> {}, steps |-> None, aborted |-> TRUE] }

\* abort_all_requests: the engine pauses and its requests return.  Calls that
\* have not reached the engine wait there until it resumes.
Abort(s) ==
  /\ Doing("abort") /\ s \in left
  /\ left' = left \ {s}
  /\ paused' = paused \cup {s}
  /\ LET cut == {r \in At(s) : call[r] = "running"} IN
       /\ call' = [r \in Requests |-> IF r \in cut THEN "answered" ELSE call[r]]
       /\ \E given \in [cut -> UNION {AbortedAnswers(r) : r \in cut}] :
            /\ \A r \in cut : given[r] \in AbortedAnswers(r)
            /\ answer' = [r \in Requests |-> IF r \in cut THEN given[r] ELSE answer[r]]
  /\ UNCHANGED <<version, pc, unstamped, weights, steps, asleep, pool,
                 route, at, fresh, stampVars>>

\* Mutant: a rollout engine receives the weights of the version before.
LoadedLate(s) ==
  [weights EXCEPT ![s] = IF s \in Standalone THEN version - 1 ELSE version]

Loaded(s) == [weights EXCEPT ![s] = version]

\* receive_weights, or the copy in place of the naive backend.
LoadWeights(s) ==
  /\ Doing("load") /\ s \in left
  /\ left' = left \ {s}
  /\ unstamped' = unstamped \cup {s}
  /\ weights' = Loaded(s)
  /\ UNCHANGED <<version, pc, steps, paused, asleep, pool, callVars, stampVars>>

\* set_global_steps comes after the weights; a hybrid engine can generate only
\* when its cache is back too.
SetGlobalSteps(s) ==
  /\ s \in unstamped
  /\ unstamped' = unstamped \ {s}
  /\ steps' = [steps EXCEPT ![s] = version]
  /\ asleep' = asleep \ {s}
  /\ UNCHANGED <<version, pc, left, weights, paused, pool, callVars, stampVars>>

\* resume_generation and sleep
Switch(s) ==
  /\ s \in left
  /\ left' = left \ {s}
  /\ \/ /\ Doing("resume")
        /\ paused' = paused \ {s} /\ UNCHANGED asleep
     \/ /\ Doing("sleep")
        /\ asleep' = asleep \cup {s} /\ UNCHANGED paused
  /\ UNCHANGED <<version, pc, unstamped, weights, steps, pool, callVars, stampVars>>

\* add_replicas and remove_replicas: one call to the load balancer for all.
ChangePool ==
  /\ left # {}
  /\ \/ Doing("add") /\ pool' = pool \cup left
     \/ Doing("remove") /\ pool' = pool \ left
  /\ left' = {}
  /\ UNCHANGED <<version, pc, unstamped, weights, steps, paused, asleep, callVars, stampVars>>

-----------------------------------------------------------------------------
\* A conversation

\* A turn begins, or the aborted one starts again, at the sticky server while
\* it is in the pool.
Acquire(r) ==
  /\ call[r] \in {"idle", "retry"}
  /\ \E s \in IF route[r] \in pool THEN {route[r]} ELSE pool :
       /\ route' = [route EXCEPT ![r] = s]
       /\ at' = [at EXCEPT ![r] = s]
  /\ call' = [call EXCEPT ![r] = "sent"]
  /\ UNCHANGED <<fresh, answer, trainerVars, serverVars, stampVars>>

\* The engine takes the call, at once or when it is resumed.
Start(r) ==
  /\ call[r] = "sent"
  /\ at[r] \notin paused
  /\ call' = [call EXCEPT ![r] = "running"]
  /\ fresh' = [fresh EXCEPT ![r] = {}]
  /\ UNCHANGED <<route, at, answer, trainerVars, serverVars, stampVars>>

\* An engine asleep has no weights to generate with.
Decode(r) ==
  /\ call[r] = "running"
  /\ at[r] \notin asleep
  /\ fresh' = [fresh EXCEPT ![r] = @ \cup {weights[at[r]]}]
  /\ UNCHANGED <<route, at, call, answer, trainerVars, serverVars, stampVars>>

\* The server reads its global_steps when the generation has ended.
Complete(r) ==
  /\ call[r] = "running"
  /\ at[r] \notin asleep
  /\ fresh[r] # {}
  /\ answer' = [answer EXCEPT ![r] =
       [tokens |-> fresh[r], steps |-> steps[at[r]], aborted |-> FALSE]]
  /\ call' = [call EXCEPT ![r] = "answered"]
  /\ UNCHANGED <<route, at, fresh, trainerVars, serverVars, stampVars>>

\* Mutant: the minimum is overwritten like the maximum.
MinimumOverwritten(r) == answer[r].steps

Minimum(r) == IF lo[r] = None THEN answer[r].steps ELSE lo[r]

Retried(r) == answer[r].aborted /\ PartialRollout

\* Mutant: the call's server is not forgotten.
TakeUnreleased(r) ==
  /\ call[r] = "answered"
  /\ made' = [made EXCEPT ![r] = @ \cup answer[r].tokens]
  /\ fresh' = [fresh EXCEPT ![r] = {}]
  /\ answer' = [answer EXCEPT ![r] = None]
  /\ UNCHANGED <<route, at, trainerVars, serverVars>>

\* The client keeps the tokens of the answer.
Take(r) ==
  /\ call[r] = "answered"
  /\ made' = [made EXCEPT ![r] = @ \cup answer[r].tokens]
  /\ at' = [at EXCEPT ![r] = None]
  /\ fresh' = [fresh EXCEPT ![r] = {}]
  /\ answer' = [answer EXCEPT ![r] = None]
  /\ UNCHANGED <<route, trainerVars, serverVars>>

\* An aborted call starts again after a second.
Retry(r) ==
  /\ Take(r)
  /\ Retried(r)
  /\ call' = [call EXCEPT ![r] = "retry"]
  /\ lo' = [lo EXCEPT ![r] = Minimum(r)]
  /\ UNCHANGED stamps

\* Stamps of the conversation: a first turn brings them, a later one only its
\* maximum.
Stamped(r) ==
  IF stamps[r] = None THEN [min |-> Minimum(r), max |-> answer[r].steps]
  ELSE IF answer[r].steps = None THEN stamps[r]
  ELSE [stamps[r] EXCEPT !.max = answer[r].steps]

Return(r) ==
  /\ Take(r)
  /\ ~Retried(r)
  /\ call' = [call EXCEPT ![r] = "idle"]
  /\ lo' = [lo EXCEPT ![r] = None]
  /\ stamps' = [stamps EXCEPT ![r] = Stamped(r)]

\* The agent loop ends after any turn; another conversation takes its place.
NewConversation(r) ==
  /\ call[r] = "idle"
  /\ stamps[r] # None
  /\ route' = [route EXCEPT ![r] = None]
  /\ made' = [made EXCEPT ![r] = {}]
  /\ stamps' = [stamps EXCEPT ![r] = None]
  /\ UNCHANGED <<at, call, fresh, answer, lo, trainerVars, serverVars>>

-----------------------------------------------------------------------------
TrainerStep ==
  \/ StepDone
  \/ ChangePool
  \/ \E s \in Servers : Abort(s) \/ LoadWeights(s) \/ SetGlobalSteps(s) \/ Switch(s)

CallStep(r) ==
  Start(r) \/ Decode(r) \/ Complete(r) \/ Retry(r) \/ Return(r)

\* A retry comes after a sleep, a first call when the agent loop wants one.
Next ==
  \/ Train \/ TrainerStep
  \/ \E r \in Requests : Acquire(r) \/ CallStep(r) \/ NewConversation(r)

\* Every RPC of the trainer returns, an engine that is awake generates and its
\* answer reaches the client, and the client wakes from its sleep.  Nothing
\* obliges the trainer to train or a conversation to go on.
Fairness ==
  /\ WF_vars(TrainerStep)
  /\ \A r \in Requests :
       /\ WF_vars(call[r] = "retry" /\ Acquire(r))
       /\ WF_vars(Start(r)) /\ WF_vars(Decode(r)) /\ WF_vars(Complete(r))
       /\ WF_vars(Retry(r) \/ Return(r))

Spec == Init /\ [][Next]_vars /\ Fairness

-----------------------------------------------------------------------------
\* Properties

Stamp == Versions \cup {None}
Answers == [tokens : SUBSET Versions, steps : Stamp, aborted : BOOLEAN]

TypeOK ==
  /\ version \in Versions /\ pc \in 0 .. Len(Program)
  /\ left \subseteq Servers /\ unstamped \subseteq Servers
  /\ weights \in [Servers -> Versions] /\ steps \in [Servers -> Versions]
  /\ paused \subseteq Servers /\ asleep \subseteq Hybrid
  /\ pool \in {Standalone, Servers}
  /\ route \in [Requests -> Servers \cup {None}]
  /\ at \in [Requests -> Servers \cup {None}]
  /\ call \in [Requests -> Calls]
  /\ \A r \in Requests : (at[r] = None) <=> (call[r] \in {"idle", "retry"})
  /\ fresh \in [Requests -> SUBSET Versions]
  /\ answer \in [Requests -> Answers \cup {None}]
  /\ made \in [Requests -> SUBSET Versions]
  /\ lo \in [Requests -> Stamp]
  /\ stamps \in [Requests -> [min : Stamp, max : Stamp] \cup {None}]

\* The tokens of one call come from one version, the one the server reports at
\* its end: no weights arrive under a running request, however the gathers of
\* the trainer and the calls of the clients interleave.
OneVersionPerCall ==
  \A r \in Requests :
    call[r] = "running" => fresh[r] \subseteq {steps[at[r]]}

\* What assemble_batch computes the staleness of a sample from: with partial
\* rollouts both stamps are there, and every token of the conversation, its
\* aborted calls and later turns included, was generated between them.
StampsCover ==
  PartialRollout =>
    \A r \in Requests :
      stamps[r] # None =>
        /\ stamps[r].min # None /\ stamps[r].max # None
        /\ call[r] = "idle" => made[r] \subseteq stamps[r].min .. stamps[r].max

\* A conversation never meets weights older than those it has tokens from,
\* though one that a validation took to a hybrid replica goes on, after its
\* removal, at a replica that got its weights from another transfer.
NeverBackwards ==
  [][\A r \in Requests : \A v \in fresh'[r] \ fresh[r] :
       \A u \in made[r] \cup fresh[r] : u <= v]_vars

\* Every turn is answered in the end, however often syncs and validations
\* abort it, unless it is caught at a replica that went to sleep.
TurnReturns ==
  \A r \in Requests : (call[r] # "idle") ~> (call[r] = "idle" \/ at[r] \in asleep)

\* "making rollout interruption invisible to the AgentLoop": no request is left
\* at an engine that sleeps.
InterruptionInvisible ==
  \A r \in Requests : call[r] = "running" => at[r] \notin asleep

=============================================================================
