---------------------------- MODULE PolicyAnswer ----------------------------
(***************************************************************************)
(* What the policy may answer in a turn of a ClarQ dialogue, and what the  *)
(* tools will say to it: shared by the training loop and the evaluation.   *)
(***************************************************************************)
EXTENDS Naturals, Sequences

CONSTANTS
  Cases,     \* lists of cases a search may return
  NoCases,   \* the empty list
  MaxCalls   \* bound on the tool calls in one answer

ASSUME AnswerAssumption == NoCases \notin Cases /\ MaxCalls \in Nat

SearchResults == Cases \cup {NoCases}

\* Kinds of reply of the user simulator.
Replies == {"known_info", "unknown", "invalid"}

\* A tool call: whether the tool's argument is given, blank or missing, and the
\* outcome that awaits it, "fails" when the service behind the tool is down.
\* A call without its argument, of another tool, or that is not JSON has none.
Call ==
  [tool : {"clarify_user"}, argument : {"given", "blank"}, outcome : Replies \cup {"fails"}]
    \cup [tool : {"search_case"}, argument : {"given", "blank"},
          outcome : SearchResults \cup {"fails"}]
    \cup [tool : {"clarify_user", "search_case"}, argument : {"missing"}, outcome : {"none"}]
    \cup [tool : {"Complete"}, argument : {"given", "missing"}, outcome : {"none"}]
    \cup [tool : {"other", "malformed"}, argument : {"given"}, outcome : {"none"}]

\* The calls of an answer, none when it is text.
Answer == UNION {[1 .. n -> Call] : n \in 0 .. MaxCalls}

=============================================================================
