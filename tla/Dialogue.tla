------------------------------ MODULE Dialogue ------------------------------
(***************************************************************************)
(* The same policy, user and retriever seen from the training and from the *)
(* evaluation: as long as both are in the same turn of a conversation they *)
(* are given the same answer, whose tool calls have the same outcomes.     *)
(* Success and reward are comparable only as far as the two loops agree on *)
(* what the conversation did.                                              *)
(***************************************************************************)
EXTENDS AgentLoop

VARIABLES
  stop, evalTurns, evalAsked, evalUseful, evalUnknown, evalInvalid,
  evalAttempts, evalSearches, final, verdict,
  alike   \* history: every answer so far means the same to both

evalCounts == <<evalAsked, evalUseful, evalUnknown, evalInvalid, evalAttempts, evalSearches, final>>
evalVars == <<stop, evalTurns, evalCounts, verdict>>
vars == <<agentVars, evalVars, alike>>

Eval == INSTANCE EvalRunner WITH
  turns <- evalTurns, asked <- evalAsked, useful <- evalUseful, unknown <- evalUnknown,
  invalid <- evalInvalid, attempts <- evalAttempts, searches <- evalSearches

Init == AgentInit /\ Eval!Init /\ alike = TRUE

\* The training makes no call but the one the evaluation makes, and that has
\* its argument and a service that answers.  Neither executes Complete, that
\* the training does not know, or a tool nobody knows.
Plain(d) ==
  /\ \A i \in DOMAIN d : d[i].tool # "malformed"
  /\ \A i \in DOMAIN d : i \in 2 .. MaxParallelCalls => d[i].tool \in {"Complete", "other"}
  /\ d # <<>> => \/ d[1].tool \in {"Complete", "other"}
                 \/ d[1].argument = "given" /\ d[1].outcome # "fails"

\* While the two are in the same turn they get the same answer.
SameTurn == state = "generating" /\ stop = "none" /\ turns = evalTurns

Both(d) ==
  /\ SameTurn
  /\ Generate(d) /\ Eval!Turn(d)
  /\ alike' = (alike /\ Plain(d))

Ended == state \in {"judged", "failed"}

\* One of them goes on when the other has ended.
AgentAlone(d) ==
  /\ stop # "none"
  /\ Generate(d)
  /\ UNCHANGED <<evalVars, alike>>

EvalAlone(d) ==
  /\ Ended
  /\ Eval!Turn(d)
  /\ UNCHANGED <<agentVars, alike>>

AgentSteps == AgentStep /\ UNCHANGED <<evalVars, alike>>

\* The two share nothing: what the evaluation does besides its turns is only
\* tried before an answer of the training and after its end.
Between == state = "generating" \/ Ended

EvalFails == Between /\ Eval!Fails /\ UNCHANGED <<agentVars, alike>>

EvalJudges == Ended /\ Eval!JudgeSuccess /\ UNCHANGED <<agentVars, alike>>

Answers ==
  /\ Between
  /\ \E d \in Answer : Both(d) \/ AgentAlone(d) \/ EvalAlone(d)

Next == Answers \/ AgentSteps \/ EvalFails \/ EvalJudges

\* As long as one of the two can go on, one of them does: each is a loop in a
\* thread of its own, and every service they wait for answers or fails.
Fairness == WF_vars(Next)

Spec == Init /\ [][Next]_vars /\ Fairness

-----------------------------------------------------------------------------
\* Properties

TypeOK == AgentTypeOK /\ Eval!TypeOK /\ alike \in BOOLEAN

EvalEnded == stop = "infrastructure_failure" \/ verdict # "none"

\* "consistent with the training's state machine" (metric.md:23): whenever both
\* are about to take the same turn, and when both have ended in the same turn,
\* they have asked, searched and been answered as often and hold the same cases
\* for the final judgement.  A training conversation cut off by its response
\* budget is left behind by the evaluation and not compared.
Parity ==
  (/\ alike /\ turns = evalTurns
   /\ SameTurn \/ (state \in {"terminated", "judged"} /\ stop # "none")
   /\ stop # "infrastructure_failure")
  => /\ <<asked, useful, unknown, invalid>> = <<evalAsked, evalUseful, evalUnknown, evalInvalid>>
     /\ <<attempts, searches, cases>> = <<evalAttempts, evalSearches, final>>

\* Every conversation ends, in training with a reward or a failure, in the
\* evaluation with a judgement or an error record: a tool that fails, an
\* answer no tool understands or a search beyond the limit never keeps it
\* going past its turns.
ConversationEnds == <>(Ended /\ EvalEnded)

=============================================================================
