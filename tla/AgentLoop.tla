----------------------------- MODULE AgentLoop -----------------------------
(***************************************************************************)
(* One conversation of the training: the state machine of ToolAgentLoop,   *)
(* the ClarQ tools it calls, several at a time if it may, and the reward   *)
(* ClarQAgentLoop gives to what the tools left in extra_fields.            *)
(*                                                                         *)
(* Lengths are abstracted: whether an answer or the tools' responses fill  *)
(* the response budget is open.  max_user_turns is unset, as in the        *)
(* recipe.                                                                 *)
(***************************************************************************)
EXTENDS PolicyAnswer, FiniteSets

CONSTANTS
  MaxTurns,          \* max_assistant_turns
  MaxParallelCalls,  \* max_parallel_calls
  MaxSearches        \* max_searches of the search tool

ASSUME AgentAssumption ==
  /\ MaxTurns \in Nat \ {0} /\ MaxParallelCalls \in Nat \ {0}
  /\ MaxSearches \in Nat \ {0}

VARIABLES
  state,     \* AgentState, "judged" and "failed" when run has returned or raised
  turns,     \* assistant_turns
  calls,     \* tool calls of this turn
  waiting,   \* those whose tool waits for its service
  asked, useful, unknown, invalid, unanswered,  \* counts of clarifications
  attempts, searches,                           \* counts of searches
  cases,     \* _clarq_last_cases
  feedback   \* simulator_feedback, "none" before

clarifications == <<asked, useful, unknown, invalid, unanswered>>
counts == <<clarifications, attempts, searches, cases>>
agentVars == <<state, turns, calls, waiting, counts, feedback>>

AgentInit ==
  /\ state = "generating" /\ turns = 0 /\ calls = <<>> /\ waiting = {}
  /\ asked = 0 /\ useful = 0 /\ unknown = 0 /\ invalid = 0 /\ unanswered = 0
  /\ attempts = 0 /\ searches = 0
  /\ cases = NoCases
  /\ feedback = "none"

Valid(d) == {i \in DOMAIN d : d[i].tool # "malformed"}

\* The Hermes parser skips a call that is not JSON: the k-th call it returns is
\* the k-th valid one.
Parsed(d) ==
  [k \in 1 .. Cardinality(Valid(d)) |->
     d[CHOOSE i \in Valid(d) : Cardinality({j \in Valid(d) : j <= i}) = k]]

\* At most max_parallel_calls are made, the others dropped.
Made(d) ==
  SubSeq(Parsed(d), 1, IF Len(Parsed(d)) < MaxParallelCalls
                       THEN Len(Parsed(d)) ELSE MaxParallelCalls)

\* Mutant: only turns that call a tool are counted.
Counted(d) == IF \E i \in DOMAIN d : d[i].tool \in {"clarify_user", "search_case"}
              THEN turns + 1 ELSE turns

Turned(d) == turns + 1

\* _handle_generating_state; the last turn's tools are not called.
Generate(d) ==
  /\ state = "generating"
  /\ turns' = Turned(d)
  /\ \E full \in BOOLEAN :
       IF full \/ turns' >= MaxTurns \/ Parsed(d) = <<>>
       THEN state' = "terminated" /\ calls' = <<>>
       ELSE state' = "processing_tools" /\ calls' = Made(d)
  /\ UNCHANGED <<waiting, counts, feedback>>

GenerateFails ==
  /\ state = "generating"
  /\ state' = "failed"
  /\ UNCHANGED <<turns, calls, waiting, counts, feedback>>

-----------------------------------------------------------------------------
\* Tools

Of(tool) == {i \in DOMAIN calls : calls[i].tool = tool}

\* Mutant: a search looks at the count the turn began with.
AdmittedTogether(i) == searches < MaxSearches

\* The count is checked and incremented in one go, call after call.
Admitted(i) ==
  searches + Cardinality({j \in Of("search_case") : j < i}) < MaxSearches

SearchesMade == {i \in Of("search_case") : Admitted(i)}

\* Mutant: a search beyond the limit is no attempt.
AttemptsMade == SearchesMade

Attempts == Of("search_case")

\* The calls begin, in their order and without a pause up to their service:
\* they are counted before anything can go wrong.  A tool that lacks its
\* argument, one that is not known and a search beyond the limit are answered
\* at once.
StartCalls ==
  /\ state = "processing_tools"
  /\ asked' = asked + Cardinality(Of("clarify_user"))
  /\ attempts' = attempts + Cardinality(Attempts)
  /\ searches' = searches + Cardinality(SearchesMade)
  /\ waiting' = {i \in Of("clarify_user") \cup SearchesMade : calls[i].argument # "missing"}
  /\ state' = "waiting_tools"
  /\ UNCHANGED <<turns, calls, useful, unknown, invalid, unanswered, cases, feedback>>

Answered(i) == waiting' = waiting \ {i} /\ UNCHANGED <<state, turns, calls, feedback>>

\* ClarifyUserTool.execute goes on with the reply.
Clarified(i) ==
  /\ i \in waiting
  /\ calls[i].tool = "clarify_user" /\ calls[i].outcome \in Replies
  /\ CASE calls[i].outcome = "known_info" ->
            useful' = useful + 1 /\ UNCHANGED <<unknown, invalid, unanswered>>
       [] calls[i].outcome = "invalid" ->
            invalid' = invalid + 1 /\ unanswered' = unanswered + 1 /\ UNCHANGED <<useful, unknown>>
       [] OTHER ->
            unknown' = unknown + 1 /\ unanswered' = unanswered + 1 /\ UNCHANGED <<useful, invalid>>
  /\ Answered(i)
  /\ UNCHANGED <<asked, attempts, searches, cases>>

\* SearchCaseTool.execute goes on with the results: the last to come is kept.
Searched(i) ==
  /\ i \in waiting
  /\ calls[i].tool = "search_case" /\ calls[i].outcome \in SearchResults
  /\ cases' = calls[i].outcome
  /\ Answered(i)
  /\ UNCHANGED <<clarifications, attempts, searches>>

\* _call_tool turns the exception into a response.
CallFails(i) ==
  /\ i \in waiting
  /\ calls[i].outcome = "fails"
  /\ Answered(i)
  /\ UNCHANGED counts

\* All calls have been answered; the conversation goes on if the responses
\* fit, what the tools did stays either way.
Respond ==
  /\ state = "waiting_tools" /\ waiting = {}
  /\ state' \in {"generating", "terminated"}
  /\ calls' = <<>>
  /\ UNCHANGED <<turns, waiting, counts, feedback>>

-----------------------------------------------------------------------------
\* The simulator judges the cases kept, if there are any; its failure fails
\* the conversation.
Judge ==
  /\ state = "terminated"
  /\ \/ /\ feedback' \in IF cases = NoCases THEN {"not_satisfied"}
                          ELSE {"satisfied", "not_satisfied"}
        /\ state' = "judged"
     \/ cases # NoCases /\ state' = "failed" /\ UNCHANGED feedback
  /\ UNCHANGED <<turns, calls, waiting, counts>>

Tools ==
  \/ StartCalls
  \/ \E i \in 1 .. MaxParallelCalls : Clarified(i) \/ Searched(i) \/ CallFails(i)
  \/ Respond

\* All but the answer of the policy.
AgentStep == GenerateFails \/ Tools \/ Judge

AgentNext == (\E d \in Answer : Generate(d)) \/ AgentStep

AgentSpec == AgentInit /\ [][AgentNext]_agentVars

-----------------------------------------------------------------------------
\* Properties

AgentTypeOK ==
  /\ state \in {"generating", "processing_tools", "waiting_tools", "terminated",
                "judged", "failed"}
  /\ turns \in 0 .. MaxTurns
  /\ calls \in Seq(Call) /\ waiting \subseteq DOMAIN calls
  /\ asked \in Nat /\ useful \in Nat /\ unknown \in Nat /\ invalid \in Nat
  /\ unanswered \in Nat
  /\ attempts \in Nat /\ searches \in Nat
  /\ cases \in SearchResults
  /\ feedback \in {"none", "satisfied", "not_satisfied"}

\* However many searches a turn makes at a time, and whatever fails, no more
\* are made than max_searches, and none without being counted as an attempt.
SearchesLimited == searches <= MaxSearches /\ searches <= attempts

=============================================================================
