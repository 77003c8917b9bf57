----------------------------- MODULE EvalRunner -----------------------------
(***************************************************************************)
(* One conversation of the evaluation: EvaluationRunner.run, a sequential  *)
(* loop over the turns of the policy, and the judgement of its last        *)
(* search.  An exception anywhere makes an error record instead of a       *)
(* result.  The events recorded for the metrics are left out.              *)
(***************************************************************************)
EXTENDS PolicyAnswer

CONSTANTS
  MaxTurns,    \* max_turns
  MaxSearches  \* max_searches

VARIABLES
  stop,     \* "none" while the loop runs, then stop_reason
  turns,    \* turns recorded
  asked, useful, unknown, invalid,  \* counts of clarifications
  attempts, searches,               \* counts of searches
  final,    \* final_results
  verdict   \* success_judgment

counts == <<asked, useful, unknown, invalid, attempts, searches, final>>
vars == <<stop, turns, counts, verdict>>

Init ==
  /\ stop = "none" /\ turns = 0
  /\ asked = 0 /\ useful = 0 /\ unknown = 0 /\ invalid = 0
  /\ attempts = 0 /\ searches = 0
  /\ final = NoCases
  /\ verdict = "none"

Failed == stop' = "infrastructure_failure" /\ UNCHANGED <<turns, counts, verdict>>

\* The retriever, the policy, a tool's service or the judge is down.
Fails ==
  /\ stop # "infrastructure_failure" /\ verdict = "none"
  /\ stop = "none" \/ final # NoCases
  /\ Failed

\* The turn is recorded and the loop left.
Ended(reason) ==
  /\ stop' = reason /\ turns' = turns + 1
  /\ UNCHANGED <<counts, verdict>>

\* A call that is not JSON is an error wherever it stands.
Broken(d) ==
  /\ \E i \in DOMAIN d : d[i].tool = "malformed"
  /\ Failed

Text(d) ==
  /\ d = <<>>
  /\ \E reason \in {"complete", "unexpected_text"} : Ended(reason)

Complete(d) ==
  /\ d[1].tool = "Complete"
  /\ Ended(IF d[1].argument = "missing" THEN "complete" ELSE "invalid_tool_arguments")

LastTurn == turns + 1 >= MaxTurns

NotExecuted(d) ==
  /\ d[1].tool # "Complete" /\ LastTurn
  /\ Ended("max_turns")

Rejected(d) ==
  /\ d[1].tool # "Complete" /\ ~LastTurn
  /\ \/ d[1].tool = "other" /\ Ended("unsupported_tool")
     \/ d[1].tool # "other" /\ d[1].argument # "given" /\ Ended("invalid_tool_arguments")

Executed(d, tool) == d[1].tool = tool /\ d[1].argument = "given" /\ ~LastTurn

Clarify(d) ==
  /\ Executed(d, "clarify_user") /\ d[1].outcome # "fails"
  /\ asked' = asked + 1
  /\ useful' = useful + (IF d[1].outcome = "known_info" THEN 1 ELSE 0)
  /\ unknown' = unknown + (IF d[1].outcome = "unknown" THEN 1 ELSE 0)
  /\ invalid' = invalid + (IF d[1].outcome = "invalid" THEN 1 ELSE 0)
  /\ turns' = turns + 1
  /\ UNCHANGED <<stop, attempts, searches, final, verdict>>

\* Mutant: one search beyond the limit.
LimitExceeded == searches > MaxSearches

LimitReached == searches >= MaxSearches

Search(d) ==
  /\ Executed(d, "search_case")
  /\ ~LimitReached /\ d[1].outcome # "fails"
  /\ attempts' = attempts + 1
  /\ searches' = searches + 1
  /\ final' = d[1].outcome
  /\ turns' = turns + 1
  /\ UNCHANGED <<stop, asked, useful, unknown, invalid, verdict>>

\* Beyond the limit the service is not asked.
SearchLimit(d) ==
  /\ Executed(d, "search_case")
  /\ LimitReached
  /\ attempts' = attempts + 1
  /\ turns' = turns + 1
  /\ UNCHANGED <<stop, asked, useful, unknown, invalid, searches, final, verdict>>

ToolFails(d) ==
  /\ \/ Executed(d, "clarify_user")
     \/ Executed(d, "search_case") /\ ~LimitReached
  /\ d[1].outcome = "fails"
  /\ Failed

\* One turn of the loop: only the first call of an answer counts.
Turn(d) ==
  /\ stop = "none"
  /\ \/ Broken(d)
     \/ /\ \A i \in DOMAIN d : d[i].tool # "malformed"
        /\ \/ Text(d)
           \/ /\ d # <<>>
              /\ \/ Complete(d) \/ NotExecuted(d) \/ Rejected(d)
                 \/ Clarify(d) \/ Search(d) \/ SearchLimit(d) \/ ToolFails(d)

\* The last executed search is judged, if it found anything.
JudgeSuccess ==
  /\ stop \notin {"none", "infrastructure_failure"} /\ verdict = "none"
  /\ verdict' \in IF final = NoCases THEN {"failure"} ELSE {"success", "failure"}
  /\ UNCHANGED <<stop, turns, counts>>

TypeOK ==
  /\ stop \in {"none", "complete", "unexpected_text", "max_turns", "unsupported_tool",
               "invalid_tool_arguments", "infrastructure_failure"}
  /\ turns \in 0 .. MaxTurns
  /\ asked \in 0 .. MaxTurns /\ useful \in 0 .. MaxTurns
  /\ unknown \in 0 .. MaxTurns /\ invalid \in 0 .. MaxTurns
  /\ attempts \in 0 .. MaxTurns /\ searches \in 0 .. MaxSearches
  /\ final \in SearchResults
  /\ verdict \in {"none", "success", "failure"}

=============================================================================
