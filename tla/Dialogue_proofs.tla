-------------------------- MODULE Dialogue_proofs --------------------------
(***************************************************************************)
(* What a conversation never does, for every number of turns, calls and    *)
(* searches: first what the parser and the search limit make of an answer, *)
(* then the invariants of the training's loop and of the evaluation's, and *)
(* last that the two loops count alike (Parity).                           *)
(***************************************************************************)
EXTENDS Dialogue, FiniteSetTheorems, WellFoundedInduction, TLAPS

-----------------------------------------------------------------------------
\* The calls the parser returns

\* A set of natural numbers that is not empty has a least element.
LEMMA LeastNatural ==
  ASSUME NEW S \in SUBSET Nat, S # {}
  PROVE  \E m \in S : \A k \in S : m <= k
<1>1. PICK m \in S : \A k \in S : ~ (<<k, m>> \in OpToRel(<, Nat))
  BY NatLessThanWellFounded, WFMin, Zenon
<1>2. \A k \in S : ~ (k < m)
  BY <1>1 DEF OpToRel
<1> QED
  BY <1>2

\* Every rank up to the size of a set of positions is the rank of one of them.
LEMMA RankExists ==
  ASSUME NEW n \in Nat, NEW V \in SUBSET (1 .. n), NEW k \in 1 .. Cardinality(V)
  PROVE  \E i \in V : Cardinality({j \in V : j <= i}) = k
<1> DEFINE Upto(m) == {j \in V : j <= m}
<1> DEFINE S == {m \in 1 .. n : Cardinality(Upto(m)) >= k}
<1>0. \A j \in V : j \in Nat /\ 1 <= j /\ j <= n
  OBVIOUS
<1>1. IsFiniteSet(V) /\ \A m : IsFiniteSet(Upto(m))
  <2>1. IsFiniteSet(1 .. n)
    BY FS_Interval
  <2>2. \A m : Upto(m) \in SUBSET V
    OBVIOUS
  <2> QED
    BY <2>1, <2>2, FS_Subset
<1>2. /\ Cardinality(V) \in Nat
      /\ \A m : Cardinality(Upto(m)) \in Nat
  BY <1>1, FS_CardinalityType
<1>3. V # {}
  BY <1>2, FS_EmptySet
<1>4. n \in S
  <2>1. Upto(n) = V
    BY <1>0
  <2>2. n \in 1 .. n
    <3>1. PICK j \in V : TRUE
      BY <1>3
    <3>2. 1 <= n
      BY <1>0, <3>1
    <3> QED
      BY <3>2
  <2> QED
    BY <1>2, <2>1, <2>2
<1> HIDE DEF Upto
<1>5. PICK m \in S : \A x \in S : m <= x
  <2>1. S \in SUBSET Nat /\ S # {}
    BY <1>4
  <2> QED
    BY <2>1, LeastNatural
<1>6. Cardinality(Upto(m - 1)) < k
  <2>1. CASE m = 1
    <3>1. m - 1 = 0
      BY <2>1
    <3>2. \A j \in V : ~ (j <= 0)
      BY <1>0
    <3>3. Upto(0) = {}
      BY <3>2 DEF Upto
    <3> QED
      BY <3>1, <3>3, FS_EmptySet
  <2>2. CASE m # 1
    <3>1. m - 1 \in 1 .. n /\ ~ (m <= m - 1)
      BY <2>2
    <3>2. m - 1 \notin S
      BY <1>5, <3>1
    <3> QED
      BY <1>2, <3>1, <3>2
  <2> QED
    BY <2>1, <2>2
<1>7. m \in V
  <2>1. SUFFICES ASSUME m \notin V PROVE FALSE
    OBVIOUS
  <2>2. Upto(m) = Upto(m - 1)
    <3>1. \A j \in V : j <= m <=> j <= m - 1
      BY <1>0, <2>1
    <3> QED
      BY <3>1 DEF Upto
  <2>3. Cardinality(Upto(m)) >= k
    BY DEF S
  <2> QED
    BY <1>2, <1>6, <2>2, <2>3
<1>8. Cardinality(Upto(m)) = Cardinality(Upto(m - 1)) + 1
  <2>1. Upto(m) = Upto(m - 1) \cup {m} /\ m \notin Upto(m - 1)
    <3>1. \A j \in V : j <= m <=> j <= m - 1 \/ j = m
      BY <1>0
    <3>2. ~ (m <= m - 1)
      OBVIOUS
    <3> QED
      BY <1>7, <3>1, <3>2 DEF Upto
  <2> QED
    BY <1>1, <2>1, FS_AddElement
<1>9. Cardinality(Upto(m)) = k
  <2>1. Cardinality(Upto(m)) >= k
    BY DEF S
  <2> QED
    BY <1>2, <1>6, <1>8, <2>1
<1> QED
  BY <1>7, <1>9 DEF Upto

\* An answer is a sequence of calls.
LEMMA AnswerType ==
  ASSUME NEW d \in Answer
  PROVE  d \in Seq(Call) /\ Len(d) \in Nat /\ DOMAIN d = 1 .. Len(d)
<1>1. PICK n \in 0 .. MaxCalls : d \in [1 .. n -> Call]
  BY DEF Answer
<1>2. n \in Nat
  BY AnswerAssumption
<1>3. d \in Seq(Call)
  BY <1>1, <1>2
<1> QED
  BY <1>3

\* The k-th call the parser returns is a call of the answer.
LEMMA ParsedType ==
  ASSUME NEW d \in Answer
  PROVE  Parsed(d) \in Seq(Call)
<1> DEFINE V == Valid(d)
<1> DEFINE n == Len(d)
<1>1. n \in Nat /\ V \in SUBSET (1 .. n) /\ \A i \in V : d[i] \in Call
  BY AnswerType DEF Valid
<1>2. Cardinality(V) \in Nat
  <2>1. IsFiniteSet(1 .. n)
    BY <1>1, FS_Interval
  <2> QED
    BY <1>1, <2>1, FS_Subset, FS_CardinalityType
<1>3. ASSUME NEW k \in 1 .. Cardinality(V)
      PROVE  d[CHOOSE i \in V : Cardinality({j \in V : j <= i}) = k] \in Call
  <2>1. \E i \in V : Cardinality({j \in V : j <= i}) = k
    BY <1>1, RankExists
  <2> QED
    BY <1>1, <2>1
<1> HIDE DEF V
<1>4. \A c : \A f \in [1 .. Cardinality(V) -> c] : f \in Seq(c)
  BY <1>2
<1>5. [k \in 1 .. Cardinality(V) |->
         d[CHOOSE i \in V : Cardinality({j \in V : j <= i}) = k]] \in [1 .. Cardinality(V) -> Call]
  BY <1>3
<1> QED
  BY <1>4, <1>5 DEF V, Parsed

\* An answer without a malformed call is returned as it is.
LEMMA WellFormedParsed ==
  ASSUME NEW d \in Answer, \A i \in DOMAIN d : d[i].tool # "malformed"
  PROVE  Parsed(d) = d
<1> DEFINE n == Len(d)
<1>1. d \in Seq(Call) /\ n \in Nat /\ DOMAIN d = 1 .. n
  BY AnswerType
<1> HIDE DEF n
<1>2. Valid(d) = 1 .. n
  BY <1>1 DEF Valid
<1>3. Cardinality(1 .. n) = n
  BY <1>1, FS_Interval
<1>4. ASSUME NEW i \in 1 .. n
      PROVE  Cardinality({j \in 1 .. n : j <= i}) = i
  <2>1. {j \in 1 .. n : j <= i} = 1 .. i
    BY <1>1
  <2>2. i \in Int /\ 1 <= i
    BY <1>1
  <2>3. Cardinality(1 .. i) = i
    BY <2>2, FS_Interval
  <2> QED
    BY <2>1, <2>3
<1>5. ASSUME NEW k \in 1 .. n
      PROVE  (CHOOSE i \in 1 .. n : Cardinality({j \in 1 .. n : j <= i}) = k) = k
  BY <1>4
<1>6. Parsed(d) = [k \in 1 .. n |->
        d[CHOOSE i \in 1 .. n : Cardinality({j \in 1 .. n : j <= i}) = k]]
  BY <1>2, <1>3 DEF Parsed
<1>7. Parsed(d) = [k \in 1 .. n |-> d[k]]
  BY <1>5, <1>6
<1>8. d = [k \in 1 .. n |-> d[k]]
  BY <1>1
<1> QED
  BY <1>7, <1>8

\* The calls made are the first ones the parser returns.
LEMMA MadeCalls ==
  ASSUME NEW d \in Answer
  PROVE  /\ Made(d) \in Seq(Call)
         /\ Made(d) = <<>> <=> Parsed(d) = <<>>
         /\ Len(Made(d)) <= MaxParallelCalls
         /\ \A i \in DOMAIN Made(d) : i \in DOMAIN Parsed(d) /\ Made(d)[i] = Parsed(d)[i]
<1> DEFINE p == Parsed(d)
<1> DEFINE m == IF Len(p) < MaxParallelCalls THEN Len(p) ELSE MaxParallelCalls
<1>1. p \in Seq(Call) /\ Len(p) \in Nat
  BY ParsedType
<1> HIDE DEF p
<1>2. m \in Nat /\ m <= Len(p) /\ m <= MaxParallelCalls /\ (m = 0 <=> Len(p) = 0)
  BY <1>1, AgentAssumption
<1> HIDE DEF m
<1>3. Made(d) = SubSeq(p, 1, m)
  BY DEF Made, p, m
<1>4. /\ SubSeq(p, 1, m) \in Seq(Call) /\ Len(SubSeq(p, 1, m)) = m
      /\ \A i \in 1 .. m : SubSeq(p, 1, m)[i] = p[i]
  BY <1>1, <1>2
<1>5. DOMAIN Made(d) = 1 .. m /\ DOMAIN p = 1 .. Len(p)
  BY <1>1, <1>3, <1>4
<1>6. Made(d) = <<>> <=> p = <<>>
  BY <1>1, <1>2, <1>3, <1>4
<1> QED
  BY <1>1, <1>2, <1>3, <1>4, <1>5, <1>6 DEF p

-----------------------------------------------------------------------------
\* The calls of a tool, and the search limit

\* The calls made to a tool are finitely many positions of the turn's calls.
LEMMA CallsOfTool ==
  ASSUME calls \in Seq(Call), NEW tool
  PROVE  /\ Of(tool) \in SUBSET Nat /\ Of(tool) \subseteq DOMAIN calls
         /\ \A T \in SUBSET Of(tool) : IsFiniteSet(T) /\ Cardinality(T) \in Nat
<1>1. Len(calls) \in Nat /\ DOMAIN calls = 1 .. Len(calls)
  OBVIOUS
<1>2. Of(tool) \subseteq DOMAIN calls
  BY DEF Of
<1>3. IsFiniteSet(DOMAIN calls)
  BY <1>1, FS_Interval
<1>4. \A T \in SUBSET Of(tool) : T \in SUBSET DOMAIN calls
  BY <1>2
<1>5. \A T \in SUBSET Of(tool) : IsFiniteSet(T) /\ Cardinality(T) \in Nat
  BY <1>3, <1>4, FS_Subset, FS_CardinalityType
<1> QED
  BY <1>1, <1>2, <1>5

\* A finite set of positions that is not empty has a greatest one.
LEMMA GreatestPosition ==
  ASSUME NEW n \in Nat, NEW T \in SUBSET (1 .. n), T # {}
  PROVE  \E m \in T : \A j \in T : j <= m
<1> DEFINE S == {n - j : j \in T}
<1>1. \A j \in T : j \in Nat /\ j <= n
  OBVIOUS
<1>2. S \in SUBSET Nat /\ S # {}
  <2>1. \A j \in T : n - j \in Nat
    BY <1>1
  <2> QED
    BY <2>1
<1>3. PICK l \in S : \A k \in S : l <= k
  BY <1>2, LeastNatural
<1>4. PICK m \in T : l = n - m
  BY <1>3
<1>5. \A j \in T : n - m <= n - j
  BY <1>3, <1>4
<1> QED
  BY <1>1, <1>4, <1>5

\* However many searches a turn makes, those the limit admits fit in what is
\* left of it: the last one admitted was counted after all the others.
LEMMA SearchesFit ==
  ASSUME calls \in Seq(Call), searches \in Nat, searches <= MaxSearches
  PROVE  /\ SearchesMade \in SUBSET Of("search_case")
         /\ searches + Cardinality(SearchesMade) <= MaxSearches
<1> DEFINE O == Of("search_case")
<1> DEFINE Before(i) == {j \in O : j < i}
<1>1. MaxSearches \in Nat
  BY AgentAssumption
<1>2. SearchesMade \in SUBSET O
  BY DEF SearchesMade
<1>3. O \in SUBSET Nat /\ O \subseteq DOMAIN calls
  BY CallsOfTool
<1>4. /\ IsFiniteSet(SearchesMade) /\ Cardinality(SearchesMade) \in Nat
      /\ \A i : IsFiniteSet(Before(i)) /\ Cardinality(Before(i)) \in Nat
  BY <1>2, CallsOfTool
<1>5. \A i \in SearchesMade : searches + Cardinality(Before(i)) < MaxSearches
  BY DEF SearchesMade, Admitted
<1> HIDE DEF O
<1>6. CASE SearchesMade = {}
  <2>1. Cardinality(SearchesMade) = 0
    BY <1>6, FS_EmptySet
  <2> QED
    BY <1>2, <2>1 DEF O
<1>7. CASE SearchesMade # {}
  <2>1. Len(calls) \in Nat /\ DOMAIN calls = 1 .. Len(calls)
    OBVIOUS
  <2>2. SearchesMade \in SUBSET (1 .. Len(calls))
    BY <1>2, <1>3, <2>1
  <2>3. PICK m \in SearchesMade : \A j \in SearchesMade : j <= m
    BY <1>7, <2>1, <2>2, GreatestPosition
  <2>4. \A j \in SearchesMade : j \in Nat
    BY <1>2, <1>3
  <2>5. \A j \in SearchesMade : j < m \/ j = m
    BY <2>3, <2>4
  <2>6. SearchesMade \in SUBSET (Before(m) \cup {m})
    BY <1>2, <2>5
  <2>7. m \notin Before(m)
    BY <2>4
  <2> DEFINE B == Before(m)
  <2>8. IsFiniteSet(B) /\ Cardinality(B) \in Nat /\ searches + Cardinality(B) < MaxSearches
    BY <1>4, <1>5
  <2>9. m \notin B /\ SearchesMade \in SUBSET (B \cup {m})
    BY <2>6, <2>7
  <2> HIDE DEF B
  <2>10. IsFiniteSet(B \cup {m}) /\ Cardinality(B \cup {m}) = Cardinality(B) + 1
    BY <2>8, <2>9, FS_AddElement
  <2>11. Cardinality(SearchesMade) <= Cardinality(B \cup {m})
    BY <2>9, <2>10, FS_Subset
  <2>12. searches + Cardinality(SearchesMade) <= MaxSearches
    BY <1>1, <1>4, <2>8, <2>10, <2>11
  <2> QED
    BY <1>2, <2>12 DEF O
<1> QED
  BY <1>6, <1>7

-----------------------------------------------------------------------------
\* The training's loop

\* A turn under way is not the last one, and only the tools of the turn wait.
Underway ==
  /\ state \in {"generating", "processing_tools", "waiting_tools"} => turns < MaxTurns
  /\ state # "waiting_tools" => waiting = {}

AgentInv == AgentTypeOK /\ Underway /\ SearchesLimited

LEMMA AgentInitInv ==
  ASSUME AgentInit
  PROVE  AgentInv
BY AgentAssumption
   DEF AgentInit, AgentInv, AgentTypeOK, Underway, SearchesLimited, SearchResults

LEMMA GenerateInv ==
  ASSUME AgentInv, NEW d \in Answer, Generate(d)
  PROVE  AgentInv'
<1>1. turns' = turns + 1 /\ turns < MaxTurns /\ turns \in Nat /\ MaxTurns \in Nat
  BY AgentAssumption DEF Generate, Turned, AgentInv, AgentTypeOK, Underway
<1>2. waiting = {} /\ waiting' = {}
  BY DEF Generate, AgentInv, Underway
<1>3. \/ state' = "terminated" /\ calls' = <<>>
      \/ state' = "processing_tools" /\ calls' = Made(d) /\ ~ (turns' >= MaxTurns)
  BY DEF Generate
<1>4. calls' \in Seq(Call)
  <2>1. Made(d) \in Seq(Call)
    BY MadeCalls
  <2>2. <<>> \in Seq(Call)
    OBVIOUS
  <2> QED
    BY <1>3, <2>1, <2>2
<1>5. UNCHANGED <<counts, feedback>>
  BY DEF Generate
<1>6. AgentTypeOK'
  BY <1>1, <1>2, <1>3, <1>4, <1>5
     DEF AgentInv, AgentTypeOK, counts, clarifications
<1>7. Underway'
  BY <1>1, <1>2, <1>3 DEF Underway
<1>8. SearchesLimited'
  BY <1>5 DEF AgentInv, SearchesLimited, counts
<1> QED
  BY <1>6, <1>7, <1>8 DEF AgentInv

LEMMA StartCallsInv ==
  ASSUME AgentInv, StartCalls
  PROVE  AgentInv'
<1>1. calls \in Seq(Call) /\ searches \in Nat /\ attempts \in Nat /\ asked \in Nat
      /\ MaxSearches \in Nat /\ searches <= MaxSearches /\ searches <= attempts
  BY AgentAssumption DEF AgentInv, AgentTypeOK, SearchesLimited
<1>2. /\ SearchesMade \in SUBSET Of("search_case")
      /\ searches + Cardinality(SearchesMade) <= MaxSearches
  BY <1>1, SearchesFit
<1>3. /\ Of("search_case") \subseteq DOMAIN calls /\ Of("clarify_user") \subseteq DOMAIN calls
      /\ IsFiniteSet(Of("search_case"))
      /\ Cardinality(Of("search_case")) \in Nat /\ Cardinality(Of("clarify_user")) \in Nat
      /\ Cardinality(SearchesMade) \in Nat
  BY <1>1, <1>2, CallsOfTool
<1>4. Cardinality(SearchesMade) <= Cardinality(Of("search_case"))
  BY <1>2, <1>3, FS_Subset
<1>5. /\ asked' = asked + Cardinality(Of("clarify_user"))
      /\ attempts' = attempts + Cardinality(Of("search_case"))
      /\ searches' = searches + Cardinality(SearchesMade)
      /\ waiting' \subseteq Of("clarify_user") \cup SearchesMade
      /\ state = "processing_tools" /\ state' = "waiting_tools"
      /\ UNCHANGED <<turns, calls, useful, unknown, invalid, unanswered, cases, feedback>>
  BY DEF StartCalls, Attempts
<1>6. /\ searches' \in Nat /\ attempts' \in Nat /\ asked' \in Nat
      /\ searches' <= MaxSearches /\ searches' <= attempts'
  BY <1>1, <1>2, <1>3, <1>4, <1>5
<1>7. waiting' \subseteq DOMAIN calls
  BY <1>2, <1>3, <1>5
<1>8. AgentTypeOK'
  BY <1>5, <1>6, <1>7 DEF AgentInv, AgentTypeOK
<1>9. Underway'
  BY <1>5 DEF AgentInv, Underway
<1> QED
  BY <1>6, <1>8, <1>9 DEF AgentInv, SearchesLimited

\* The answers of the tools: what they count and that they wait no more.
LEMMA AnswersInv ==
  ASSUME AgentInv, NEW i \in 1 .. MaxParallelCalls,
         Clarified(i) \/ Searched(i) \/ CallFails(i)
  PROVE  AgentInv'
<1>1. /\ waiting' = waiting \ {i} /\ UNCHANGED <<state, turns, calls, feedback>>
      /\ UNCHANGED <<asked, attempts, searches>>
  BY DEF Clarified, Searched, CallFails, Answered, counts, clarifications
<1>2. /\ useful' \in Nat /\ unknown' \in Nat /\ invalid' \in Nat /\ unanswered' \in Nat
      /\ cases' \in SearchResults
  <2>1. CASE Clarified(i)
    <3>1. /\ useful' = useful + 1 /\ UNCHANGED <<unknown, invalid, unanswered>>
          \/ /\ invalid' = invalid + 1 /\ unanswered' = unanswered + 1
             /\ UNCHANGED <<useful, unknown>>
          \/ /\ unknown' = unknown + 1 /\ unanswered' = unanswered + 1
             /\ UNCHANGED <<useful, invalid>>
      BY <2>1 DEF Clarified
    <3>2. UNCHANGED cases
      BY <2>1 DEF Clarified
    <3> QED
      BY <3>1, <3>2 DEF AgentInv, AgentTypeOK
  <2>2. CASE Searched(i)
    BY <2>2 DEF Searched, clarifications, AgentInv, AgentTypeOK
  <2>3. CASE CallFails(i)
    BY <2>3 DEF CallFails, counts, clarifications, AgentInv, AgentTypeOK
  <2> QED
    BY <2>1, <2>2, <2>3
<1>3. AgentTypeOK'
  BY <1>1, <1>2 DEF AgentInv, AgentTypeOK
<1>4. Underway'
  BY <1>1 DEF AgentInv, Underway
<1> QED
  BY <1>1, <1>3, <1>4 DEF AgentInv, SearchesLimited

LEMMA RespondInv ==
  ASSUME AgentInv, Respond
  PROVE  AgentInv'
<1>1. calls' = <<>> /\ waiting' = {}
  BY DEF Respond
<1>2. AgentTypeOK'
  BY <1>1 DEF Respond, AgentInv, AgentTypeOK, counts, clarifications
<1>3. Underway'
  BY <1>1 DEF Respond, AgentInv, Underway
<1> QED
  BY <1>2, <1>3 DEF Respond, AgentInv, SearchesLimited, counts

\* No step of the training's loop leaves its invariant.
LEMMA AgentStepInv ==
  ASSUME AgentInv, [AgentNext]_agentVars
  PROVE  AgentInv'
<1>1. ASSUME NEW d \in Answer, Generate(d) PROVE AgentInv'
  BY <1>1, GenerateInv
<1>2. CASE GenerateFails
  BY <1>2 DEF GenerateFails, AgentInv, AgentTypeOK, Underway, SearchesLimited,
              counts, clarifications
<1>3. CASE StartCalls
  BY <1>3, StartCallsInv
<1>4. ASSUME NEW i \in 1 .. MaxParallelCalls, Clarified(i) \/ Searched(i) \/ CallFails(i)
      PROVE  AgentInv'
  BY <1>4, AnswersInv
<1>5. CASE Respond
  BY <1>5, RespondInv
<1>6. CASE Judge
  <2>1. /\ state = "terminated" /\ state' \in {"judged", "failed"}
        /\ feedback' \in {"none", "satisfied", "not_satisfied"}
        /\ UNCHANGED <<turns, calls, waiting, counts>>
    BY <1>6 DEF Judge, AgentInv, AgentTypeOK
  <2> QED
    BY <2>1 DEF AgentInv, AgentTypeOK, Underway, SearchesLimited, counts, clarifications
<1>7. CASE UNCHANGED agentVars
  BY <1>7 DEF agentVars, AgentInv, AgentTypeOK, Underway, SearchesLimited,
              counts, clarifications
<1> QED
  BY <1>1, <1>2, <1>3, <1>4, <1>5, <1>6, <1>7 DEF AgentNext, AgentStep, Tools

\* The training's loop runs as it would alone: what the evaluation does is a
\* stutter of it.
LEMMA AgentProjection ==
  ASSUME [Next]_vars
  PROVE  [AgentNext]_agentVars
<1>1. CASE Answers
  <2>1. PICK d \in Answer : Both(d) \/ AgentAlone(d) \/ EvalAlone(d)
    BY <1>1 DEF Answers
  <2>2. Generate(d) \/ UNCHANGED agentVars
    BY <2>1 DEF Both, AgentAlone, EvalAlone
  <2> QED
    BY <2>2 DEF AgentNext
<1>2. CASE AgentSteps
  BY <1>2 DEF AgentSteps, AgentNext
<1>3. CASE EvalFails \/ EvalJudges \/ UNCHANGED vars
  BY <1>3 DEF EvalFails, EvalJudges, vars
<1> QED
  BY <1>1, <1>2, <1>3 DEF Next

\* The search limit of SearchCaseTool: whatever the calls of a turn and the
\* failures of their services, never more than max_searches searches are made,
\* and each was counted as an attempt before it.
THEOREM SearchLimit == Spec => []SearchesLimited
<1>1. Init => AgentInv
  BY AgentInitInv DEF Init
<1>2. AgentInv /\ [Next]_vars => AgentInv'
  BY AgentProjection, AgentStepInv
<1>3. AgentInv => SearchesLimited
  BY DEF AgentInv
<1> QED
  BY <1>1, <1>2, <1>3, PTL DEF Spec

\* The dialogue's conversation is one of ToolAgentLoop's: that the two loops are
\* given the same answers takes nothing from what the training may do.
THEOREM TrainingImplemented == Spec => AgentSpec
<1>1. Init => AgentInit
  BY DEF Init
<1>2. [Next]_vars => [AgentNext]_agentVars
  BY AgentProjection
<1> QED
  BY <1>1, <1>2, PTL DEF Spec, AgentSpec

-----------------------------------------------------------------------------
\* The evaluation's loop

\* It only goes on below its last turn, and no turn counts more than one call.
OnePerTurn ==
  /\ stop = "none" => evalTurns < MaxTurns
  /\ evalAsked \in 0 .. evalTurns /\ evalUseful \in 0 .. evalTurns
  /\ evalUnknown \in 0 .. evalTurns /\ evalInvalid \in 0 .. evalTurns
  /\ evalAttempts \in 0 .. evalTurns

EvalInv == Eval!TypeOK /\ OnePerTurn

LEMMA EvalInitInv ==
  ASSUME Eval!Init
  PROVE  EvalInv
BY AgentAssumption DEF Eval!Init, EvalInv, Eval!TypeOK, OnePerTurn, SearchResults, Eval!SearchResults

\* A failure and the end of the loop leave every count as it was.
LEMMA EvalFailedInv ==
  ASSUME EvalInv, Eval!Failed
  PROVE  EvalInv'
<1>1. stop' = "infrastructure_failure" /\ UNCHANGED <<evalTurns, evalCounts, verdict>>
  BY DEF Eval!Failed, Eval!counts, evalCounts
<1> QED
  BY <1>1 DEF EvalInv, Eval!TypeOK, OnePerTurn, evalCounts

LEMMA EvalEndedInv ==
  ASSUME EvalInv, stop = "none", NEW reason, Eval!Ended(reason),
         reason \in {"complete", "unexpected_text", "max_turns", "unsupported_tool",
                     "invalid_tool_arguments"}
  PROVE  EvalInv'
<1>1. /\ stop' = reason /\ evalTurns' = evalTurns + 1
      /\ UNCHANGED <<evalAsked, evalUseful, evalUnknown, evalInvalid, evalAttempts,
                     evalSearches, final, verdict>>
  BY DEF Eval!Ended, Eval!counts
<1>2. MaxTurns \in Nat
  BY AgentAssumption
<1>3. evalTurns' \in 0 .. MaxTurns /\ evalTurns' = evalTurns + 1 /\ evalTurns \in Nat
  BY <1>1, <1>2 DEF EvalInv, Eval!TypeOK, OnePerTurn
<1>4. Eval!TypeOK'
  BY <1>1, <1>3 DEF EvalInv, Eval!TypeOK
<1>5. OnePerTurn'
  BY <1>1, <1>3 DEF EvalInv, OnePerTurn
<1> QED
  BY <1>4, <1>5 DEF EvalInv

\* A turn of the evaluation: an error, an end or one counted call.
LEMMA EvalTurnInv ==
  ASSUME EvalInv, NEW d \in Answer, Eval!Turn(d)
  PROVE  EvalInv'
<1>1. stop = "none"
  BY DEF Eval!Turn
<1>2. /\ MaxTurns \in Nat /\ MaxSearches \in Nat /\ evalTurns < MaxTurns /\ evalTurns \in Nat
  BY <1>1, AgentAssumption DEF EvalInv, Eval!TypeOK, OnePerTurn
<1>3. CASE Eval!Broken(d) \/ Eval!ToolFails(d)
  BY <1>3, EvalFailedInv DEF Eval!Broken, Eval!ToolFails
<1>4. CASE Eval!Text(d) \/ Eval!Complete(d) \/ Eval!NotExecuted(d) \/ Eval!Rejected(d)
  <2>1. PICK reason \in {"complete", "unexpected_text", "max_turns", "unsupported_tool",
                         "invalid_tool_arguments"} : Eval!Ended(reason)
    BY <1>4 DEF Eval!Text, Eval!Complete, Eval!NotExecuted, Eval!Rejected
  <2> QED
    BY <1>1, <2>1, EvalEndedInv
<1>5. ASSUME evalTurns' = evalTurns + 1, stop' = stop, evalTurns' < MaxTurns,
             UNCHANGED verdict,
             evalAsked' \in 0 .. evalTurns', evalUseful' \in 0 .. evalTurns',
             evalUnknown' \in 0 .. evalTurns', evalInvalid' \in 0 .. evalTurns',
             evalAttempts' \in 0 .. evalTurns', evalSearches' \in 0 .. MaxSearches,
             final' \in SearchResults
      PROVE  EvalInv'
  <2>1. OnePerTurn'
    BY <1>5 DEF OnePerTurn
  <2>2. \A n : n \in 0 .. evalTurns' => n \in 0 .. MaxTurns
    BY <1>2, <1>5
  <2>3. final' \in Eval!SearchResults
    BY <1>5 DEF SearchResults, Eval!SearchResults
  <2>4. Eval!TypeOK'
    BY <1>2, <1>5, <2>2, <2>3 DEF EvalInv, Eval!TypeOK
  <2> QED
    BY <2>1, <2>4 DEF EvalInv
<1>6. CASE Eval!Clarify(d)
  <2>1. /\ evalTurns' = evalTurns + 1 /\ ~ (evalTurns + 1 >= MaxTurns)
        /\ evalAsked' = evalAsked + 1
        /\ evalUseful' = evalUseful + (IF d[1].outcome = "known_info" THEN 1 ELSE 0)
        /\ evalUnknown' = evalUnknown + (IF d[1].outcome = "unknown" THEN 1 ELSE 0)
        /\ evalInvalid' = evalInvalid + (IF d[1].outcome = "invalid" THEN 1 ELSE 0)
        /\ UNCHANGED <<stop, evalAttempts, evalSearches, final, verdict>>
    BY <1>6 DEF Eval!Clarify, Eval!Executed, Eval!LastTurn
  <2>2. /\ evalAsked' \in 0 .. evalTurns' /\ evalUseful' \in 0 .. evalTurns'
        /\ evalUnknown' \in 0 .. evalTurns' /\ evalInvalid' \in 0 .. evalTurns'
        /\ evalAttempts' \in 0 .. evalTurns' /\ evalTurns' < MaxTurns
    BY <1>2, <2>1 DEF EvalInv, OnePerTurn
  <2>3. evalSearches' \in 0 .. MaxSearches /\ final' \in SearchResults
    BY <2>1 DEF EvalInv, Eval!TypeOK, SearchResults, Eval!SearchResults
  <2> QED
    BY <1>5, <2>1, <2>2, <2>3
<1>7. CASE d # <<>> /\ Eval!Search(d)
  <2>1. /\ evalTurns' = evalTurns + 1 /\ ~ (evalTurns + 1 >= MaxTurns)
        /\ evalAttempts' = evalAttempts + 1
        /\ ~ (evalSearches >= MaxSearches) /\ evalSearches' = evalSearches + 1
        /\ final' = d[1].outcome
        /\ UNCHANGED <<stop, evalAsked, evalUseful, evalUnknown, evalInvalid, verdict>>
    BY <1>7 DEF Eval!Search, Eval!LimitReached, Eval!Executed, Eval!LastTurn
  <2>2. /\ evalAsked' \in 0 .. evalTurns' /\ evalUseful' \in 0 .. evalTurns'
        /\ evalUnknown' \in 0 .. evalTurns' /\ evalInvalid' \in 0 .. evalTurns'
        /\ evalAttempts' \in 0 .. evalTurns' /\ evalTurns' < MaxTurns
    BY <1>2, <2>1 DEF EvalInv, OnePerTurn
  <2>3. evalSearches' \in 0 .. MaxSearches
    BY <1>2, <2>1 DEF EvalInv, Eval!TypeOK
  <2>4. d[1] \in Call /\ d[1].tool = "search_case" /\ d[1].argument = "given"
        /\ d[1].outcome # "fails"
    BY <1>7, AnswerType DEF Eval!Search, Eval!Executed
  <2>5. d[1].outcome \in SearchResults
    BY <2>4 DEF Call
  <2> QED
    BY <1>5, <2>1, <2>2, <2>3, <2>5
<1>8. CASE Eval!SearchLimit(d)
  <2>1. /\ evalTurns' = evalTurns + 1 /\ ~ (evalTurns + 1 >= MaxTurns)
        /\ evalAttempts' = evalAttempts + 1
        /\ UNCHANGED <<stop, evalAsked, evalUseful, evalUnknown, evalInvalid, evalSearches,
                       final, verdict>>
    BY <1>8 DEF Eval!SearchLimit, Eval!LimitReached, Eval!Executed, Eval!LastTurn
  <2>2. /\ evalAsked' \in 0 .. evalTurns' /\ evalUseful' \in 0 .. evalTurns'
        /\ evalUnknown' \in 0 .. evalTurns' /\ evalInvalid' \in 0 .. evalTurns'
        /\ evalAttempts' \in 0 .. evalTurns' /\ evalTurns' < MaxTurns
    BY <1>2, <2>1 DEF EvalInv, OnePerTurn
  <2>3. evalSearches' \in 0 .. MaxSearches /\ final' \in SearchResults
    BY <2>1 DEF EvalInv, Eval!TypeOK, SearchResults, Eval!SearchResults
  <2> QED
    BY <1>5, <2>1, <2>2, <2>3
<1> QED
  BY <1>3, <1>4, <1>6, <1>7, <1>8 DEF Eval!Turn

\* EvaluationRunner.run alone: its turns, whatever the policy answers, its
\* failures and the judgement.
EvalNext == (\E d \in Answer : Eval!Turn(d)) \/ Eval!Fails \/ Eval!JudgeSuccess

EvalSpec == Eval!Init /\ [][EvalNext]_evalVars

\* The dialogue's evaluation is one of EvaluationRunner's: what the training does
\* is a stutter of it.
THEOREM EvaluationImplemented == Spec => EvalSpec
<1>1. Init => Eval!Init
  BY DEF Init
<1>2. [Next]_vars => [EvalNext]_evalVars
  <2>1. SUFFICES ASSUME [Next]_vars PROVE [EvalNext]_evalVars
    OBVIOUS
  <2>2. CASE Answers
    <3>1. PICK d \in Answer : Both(d) \/ AgentAlone(d) \/ EvalAlone(d)
      BY <2>2 DEF Answers
    <3>2. Eval!Turn(d) \/ UNCHANGED evalVars
      BY <3>1 DEF Both, AgentAlone, EvalAlone
    <3> QED
      BY <3>2 DEF EvalNext
  <2>3. CASE EvalFails \/ EvalJudges
    BY <2>3 DEF EvalFails, EvalJudges, EvalNext
  <2>4. CASE AgentSteps \/ UNCHANGED vars
    BY <2>4 DEF AgentSteps, vars
  <2> QED
    BY <2>1, <2>2, <2>3, <2>4 DEF Next
<1> QED
  BY <1>1, <1>2, PTL DEF Spec, EvalSpec

\* Every step of the dialogue keeps both loops' invariants.
LoopsInv == AgentInv /\ EvalInv /\ alike \in BOOLEAN

LEMMA LoopsStepInv ==
  ASSUME LoopsInv, [Next]_vars
  PROVE  LoopsInv'
<1>1. AgentInv'
  BY AgentProjection, AgentStepInv DEF LoopsInv
<1>2. EvalInv /\ alike \in BOOLEAN
  BY DEF LoopsInv
<1>3. CASE Answers
  <2>1. PICK d \in Answer : Both(d) \/ AgentAlone(d) \/ EvalAlone(d)
    BY <1>3 DEF Answers
  <2>2. Eval!Turn(d) \/ UNCHANGED evalVars
    BY <2>1 DEF Both, AgentAlone, EvalAlone
  <2>3. UNCHANGED evalVars => EvalInv'
    BY <1>2 DEF evalVars, evalCounts, EvalInv, Eval!TypeOK, OnePerTurn
  <2>4. EvalInv'
    BY <1>2, <2>2, <2>3, EvalTurnInv
  <2>5. alike' \in BOOLEAN
    <3>1. alike' = (alike /\ Plain(d)) \/ alike' = alike
      BY <2>1 DEF Both, AgentAlone, EvalAlone
    <3>2. (alike /\ Plain(d)) \in BOOLEAN
      BY <1>2 DEF Plain
    <3> QED
      BY <1>2, <3>1, <3>2
  <2> QED
    BY <1>1, <2>4, <2>5 DEF LoopsInv
<1>4. CASE EvalFails
  <2>1. Eval!Failed /\ UNCHANGED alike
    BY <1>4 DEF EvalFails, Eval!Fails
  <2> QED
    BY <1>1, <1>2, <2>1, EvalFailedInv DEF LoopsInv
<1>5. CASE EvalJudges
  <2>1. /\ stop # "none" /\ verdict' \in {"none", "success", "failure"}
        /\ UNCHANGED <<stop, evalTurns, evalCounts, alike>>
    BY <1>5 DEF EvalJudges, Eval!JudgeSuccess, Eval!counts, evalCounts
  <2>2. EvalInv'
    BY <1>2, <2>1 DEF evalCounts, EvalInv, Eval!TypeOK, OnePerTurn
  <2> QED
    BY <1>1, <1>2, <2>1, <2>2 DEF LoopsInv
<1>6. CASE AgentSteps \/ UNCHANGED vars
  <2>1. UNCHANGED <<evalVars, alike>>
    BY <1>6 DEF AgentSteps, vars
  <2>2. EvalInv'
    BY <1>2, <2>1 DEF evalVars, evalCounts, EvalInv, Eval!TypeOK, OnePerTurn
  <2> QED
    BY <1>1, <1>2, <2>1, <2>2 DEF LoopsInv
<1> QED
  BY <1>3, <1>4, <1>5, <1>6 DEF Next

\* The counts of both loops stay within the turns, the calls and the searches
\* they are given, and what waits is a call of the turn.
THEOREM TypeCorrect == Spec => []TypeOK
<1>1. Init => LoopsInv
  BY AgentInitInv, EvalInitInv DEF Init, LoopsInv
<1>2. LoopsInv /\ [Next]_vars => LoopsInv'
  BY LoopsStepInv
<1>3. LoopsInv => TypeOK
  BY DEF LoopsInv, AgentInv, EvalInv, TypeOK
<1> QED
  BY <1>1, <1>2, <1>3, PTL DEF Spec

-----------------------------------------------------------------------------
\* The two loops side by side

\* A loop only runs ahead of the other when that one has ended.
OrderInv ==
  /\ turns > evalTurns => stop # "none"
  /\ turns < evalTurns => Ended

LEMMA OrderStepInv ==
  ASSUME LoopsInv, OrderInv, [Next]_vars
  PROVE  OrderInv'
<1>1. turns \in Nat /\ evalTurns \in Nat
  BY DEF LoopsInv, AgentInv, AgentTypeOK, EvalInv, Eval!TypeOK
<1>2. ASSUME NEW d \in Answer, Both(d) PROVE OrderInv'
  <2>1. turns = evalTurns /\ turns' = turns + 1
    BY <1>2 DEF Both, SameTurn, Generate, Turned
  <2>2. evalTurns' = evalTurns + 1 \/ (evalTurns' = evalTurns /\ stop' # "none")
    BY <1>2 DEF Both, Eval!Turn, Eval!Broken, Eval!Text, Eval!Complete, Eval!NotExecuted,
                Eval!Rejected, Eval!Clarify, Eval!Search, Eval!SearchLimit, Eval!ToolFails,
                Eval!Failed, Eval!Ended
  <2> QED
    BY <1>1, <2>1, <2>2 DEF OrderInv
<1>3. ASSUME NEW d \in Answer, AgentAlone(d) PROVE OrderInv'
  <2>1. stop' # "none" /\ turns' = turns + 1 /\ evalTurns' = evalTurns /\ ~ Ended
    BY <1>3 DEF AgentAlone, Generate, Turned, Ended, evalVars
  <2> QED
    BY <1>1, <2>1 DEF OrderInv
<1>4. ASSUME NEW d \in Answer, EvalAlone(d) PROVE OrderInv'
  <2>1. Ended' /\ turns' = turns /\ stop = "none"
    BY <1>4 DEF EvalAlone, Eval!Turn, Ended, agentVars
  <2>2. evalTurns' = evalTurns + 1 \/ evalTurns' = evalTurns
    BY <1>4 DEF EvalAlone, Eval!Turn, Eval!Broken, Eval!Text, Eval!Complete, Eval!NotExecuted,
                Eval!Rejected, Eval!Clarify, Eval!Search, Eval!SearchLimit, Eval!ToolFails,
                Eval!Failed, Eval!Ended
  <2> QED
    BY <1>1, <2>1, <2>2 DEF OrderInv
<1>5. CASE AgentSteps
  <2>1. turns' = turns /\ evalTurns' = evalTurns /\ stop' = stop
    BY <1>5 DEF AgentSteps, AgentStep, GenerateFails, Tools, StartCalls, Clarified, Searched,
                CallFails, Answered, Respond, Judge, evalVars
  <2>2. Ended => Ended'
    BY <1>5 DEF AgentSteps, AgentStep, GenerateFails, Tools, StartCalls, Clarified, Searched,
                CallFails, Answered, Respond, Judge, Ended
  <2> QED
    BY <2>1, <2>2 DEF OrderInv
<1>6. CASE EvalFails
  BY <1>6 DEF EvalFails, Eval!Fails, Eval!Failed, agentVars, OrderInv, Ended
<1>7. CASE EvalJudges
  BY <1>7 DEF EvalJudges, Eval!JudgeSuccess, agentVars, OrderInv, Ended
<1>8. CASE UNCHANGED vars
  BY <1>8 DEF vars, agentVars, evalVars, OrderInv, Ended
<1> QED
  BY <1>2, <1>3, <1>4, <1>5, <1>6, <1>7, <1>8 DEF Next, Answers

\* What the two count alike.
ClarificationsAgree ==
  <<asked, useful, unknown, invalid>> = <<evalAsked, evalUseful, evalUnknown, evalInvalid>>

SearchesAgree == <<attempts, searches, cases>> = <<evalAttempts, evalSearches, final>>

Agree == ClarificationsAgree /\ SearchesAgree

One(b) == IF b THEN 1 ELSE 0

\* The evaluation has counted a reply the training still waits for.
ReplyDue(reply) ==
  /\ reply \in Replies
  /\ evalUseful = useful + One(reply = "known_info")
  /\ evalUnknown = unknown + One(reply = "unknown")
  /\ evalInvalid = invalid + One(reply = "invalid")

Unheard(i) == calls[i].tool \in {"Complete", "other"}

\* The evaluation has executed the first call of the turn; the training has only
\* read the answer, whose other calls its tools do not know.
ClarifyDue ==
  /\ calls[1].tool = "clarify_user" /\ calls[1].argument = "given"
  /\ evalAsked = asked + 1 /\ ReplyDue(calls[1].outcome)
  /\ SearchesAgree

SearchDue ==
  /\ calls[1].tool = "search_case" /\ calls[1].argument = "given"
  /\ calls[1].outcome # "fails"
  /\ evalAttempts = attempts + 1
  /\ evalSearches = searches + One(searches < MaxSearches)
  /\ final = IF searches < MaxSearches THEN calls[1].outcome ELSE cases
  /\ ClarificationsAgree

CallsDue ==
  /\ calls # <<>>
  /\ \A i \in DOMAIN calls : i > 1 => Unheard(i)
  /\ (Unheard(1) /\ Agree) \/ ClarifyDue \/ SearchDue

\* The training has counted the calls too and waits for at most one answer.
AnswersDue ==
  \/ waiting = {} /\ Agree
  \/ /\ waiting = {1} /\ calls[1].tool = "clarify_user"
     /\ evalAsked = asked /\ ReplyDue(calls[1].outcome) /\ SearchesAgree
  \/ /\ waiting = {1} /\ calls[1].tool = "search_case" /\ calls[1].outcome # "fails"
     /\ <<attempts, searches, calls[1].outcome>> = <<evalAttempts, evalSearches, final>>
     /\ ClarificationsAgree

\* Both have taken the same turns, and the same answers meant the same to them.
Compared == alike /\ turns = evalTurns /\ stop # "infrastructure_failure"

Settled == SameTurn \/ (state \in {"terminated", "judged"} /\ stop # "none")

\* Between two turns the counts agree; within one they differ by the answer the
\* training has not had yet.
ParityInv ==
  Compared =>
    /\ Settled => Agree
    /\ state = "processing_tools" => CallsDue
    /\ state = "waiting_tools" => AnswersDue

\* The calls the training makes of an answer that means the same to both.
LEMMA PlainCalls ==
  ASSUME NEW d \in Answer, Plain(d)
  PROVE  /\ Parsed(d) = d
         /\ Made(d) # <<>> => d # <<>> /\ 1 \in DOMAIN Made(d) /\ Made(d)[1] = d[1] /\ d[1] \in Call
         /\ \A i \in DOMAIN Made(d) : i > 1 => Made(d)[i].tool \in {"Complete", "other"}
<1>1. Parsed(d) = d
  BY WellFormedParsed DEF Plain
<1>2. /\ Made(d) \in Seq(Call) /\ Len(Made(d)) <= MaxParallelCalls
      /\ \A i \in DOMAIN Made(d) : i \in DOMAIN d /\ Made(d)[i] = d[i]
      /\ Made(d) = <<>> <=> d = <<>>
  BY <1>1, MadeCalls
<1>3. Len(Made(d)) \in Nat /\ DOMAIN Made(d) = 1 .. Len(Made(d)) /\ MaxParallelCalls \in Nat
  BY <1>2, AgentAssumption
<1>4. d \in Seq(Call)
  BY AnswerType
<1>5. ASSUME Made(d) # <<>>
      PROVE  d # <<>> /\ 1 \in DOMAIN Made(d) /\ Made(d)[1] = d[1] /\ d[1] \in Call
  <2>1. 1 \in DOMAIN Made(d)
    BY <1>2, <1>3, <1>5
  <2>2. 1 \in DOMAIN d /\ Made(d)[1] = d[1]
    BY <1>2, <2>1
  <2>3. d[1] \in Call
    BY <1>4, <2>2
  <2> QED
    BY <1>2, <1>5, <2>1, <2>2, <2>3
<1>6. ASSUME NEW i \in DOMAIN Made(d), i > 1
      PROVE  Made(d)[i].tool \in {"Complete", "other"}
  <2>1. i \in 2 .. MaxParallelCalls
    BY <1>2, <1>3, <1>6
  <2>2. i \in DOMAIN d /\ Made(d)[i] = d[i]
    BY <1>2
  <2> QED
    BY <2>1, <2>2 DEF Plain
<1> QED
  BY <1>1, <1>5, <1>6

\* Both take a turn: what the evaluation executes is due in the training, or
\* neither goes on.
LEMMA BothParity ==
  ASSUME LoopsInv, ParityInv, NEW d \in Answer, Both(d), Compared'
  PROVE  /\ state' = "terminated" /\ stop' # "none" => Agree'
         /\ state' = "processing_tools" => CallsDue'
         /\ state' \in {"terminated", "processing_tools"}
<1>1. /\ Plain(d) /\ alike /\ SameTurn /\ stop' # "infrastructure_failure"
      /\ Generate(d) /\ Eval!Turn(d)
  BY DEF Both, Compared, LoopsInv
<1>2. Agree
  BY <1>1 DEF ParityInv, Compared, Settled, SameTurn
<1>3. UNCHANGED <<asked, useful, unknown, invalid, attempts, searches, cases>>
  BY <1>1 DEF Generate, counts, clarifications
<1>4. \/ state' = "terminated"
      \/ /\ state' = "processing_tools" /\ calls' = Made(d) /\ Made(d) # <<>>
         /\ ~ (evalTurns + 1 >= MaxTurns)
  <2>1. Made(d) = <<>> <=> Parsed(d) = <<>>
    BY MadeCalls
  <2> QED
    BY <1>1, <2>1 DEF Generate, Turned, SameTurn
<1>5. /\ Made(d) # <<>> => d # <<>> /\ 1 \in DOMAIN Made(d) /\ Made(d)[1] = d[1] /\ d[1] \in Call
      /\ \A i \in DOMAIN Made(d) : i > 1 => Made(d)[i].tool \in {"Complete", "other"}
  BY <1>1, PlainCalls
<1>6. Eval!Ended(stop') => Agree'
  BY <1>2, <1>3 DEF Eval!Ended, Eval!counts, Agree, ClarificationsAgree, SearchesAgree
<1> DEFINE Left == /\ Eval!Ended(stop')
                   /\ d = <<>> \/ evalTurns + 1 >= MaxTurns
                      \/ d[1].tool \in {"Complete", "other"} \/ d[1].argument # "given"
<1>7. \/ Left
      \/ d # <<>> /\ (Eval!Clarify(d) \/ Eval!Search(d) \/ Eval!SearchLimit(d))
  <2>1. ~ Eval!Failed
    BY <1>1 DEF Eval!Failed
  <2>2. ~ Eval!Broken(d) /\ ~ Eval!ToolFails(d)
    BY <2>1 DEF Eval!Broken, Eval!ToolFails
  <2>3. ASSUME NEW reason, Eval!Ended(reason) PROVE Eval!Ended(stop')
    BY <2>3 DEF Eval!Ended
  <2>4. Eval!Text(d) => d = <<>> /\ Eval!Ended(stop')
    BY <2>3 DEF Eval!Text
  <2>5. Eval!Complete(d) => d[1].tool = "Complete" /\ Eval!Ended(stop')
    BY <2>3 DEF Eval!Complete
  <2>6. Eval!NotExecuted(d) => evalTurns + 1 >= MaxTurns /\ Eval!Ended(stop')
    BY <2>3 DEF Eval!NotExecuted, Eval!LastTurn
  <2>7. Eval!Rejected(d) => (d[1].tool = "other" \/ d[1].argument # "given") /\ Eval!Ended(stop')
    BY <2>3 DEF Eval!Rejected
  <2> QED
    BY <1>1, <2>2, <2>4, <2>5, <2>6, <2>7 DEF Eval!Turn
<1>8. CASE state' = "terminated"
  <2>1. stop' # "none" => Agree'
    <3>1. Eval!Clarify(d) \/ Eval!Search(d) \/ Eval!SearchLimit(d) => stop' = stop
      BY DEF Eval!Clarify, Eval!Search, Eval!SearchLimit
    <3> QED
      BY <1>1, <1>6, <1>7, <3>1 DEF SameTurn
  <2> QED
    BY <1>8, <2>1
<1>9. CASE state' = "processing_tools"
  <2>1. /\ calls' = Made(d) /\ Made(d) # <<>> /\ ~ (evalTurns + 1 >= MaxTurns)
        /\ d # <<>> /\ calls'[1] = d[1] /\ d[1] \in Call
    BY <1>4, <1>5, <1>9
  <2>2. \A i \in DOMAIN calls' : i > 1 => Unheard(i)'
    BY <1>5, <2>1 DEF Unheard
  <2>3. d[1].tool \in {"Complete", "other"} \/ (d[1].argument = "given" /\ d[1].outcome # "fails")
    BY <1>1, <2>1 DEF Plain
  <2>4. CASE Left
    <3>1. d[1].tool \in {"Complete", "other"}
      BY <2>1, <2>3, <2>4
    <3>2. Unheard(1)'
      BY <2>1, <3>1 DEF Unheard
    <3> QED
      BY <1>6, <1>9, <2>1, <2>2, <2>4, <3>2 DEF CallsDue
  <2>5. CASE Eval!Clarify(d)
    <3>1. d[1].tool = "clarify_user" /\ d[1].argument = "given" /\ d[1].outcome # "fails"
      BY <2>5 DEF Eval!Clarify, Eval!Executed
    <3>2. d[1].outcome \in Replies
      BY <2>1, <3>1 DEF Call
    <3>3. ClarifyDue'
      BY <1>2, <1>3, <2>1, <2>5, <3>1, <3>2
         DEF ClarifyDue, ReplyDue, One, Eval!Clarify, Agree, ClarificationsAgree, SearchesAgree
    <3> QED
      BY <1>9, <2>1, <2>2, <3>3 DEF CallsDue
  <2>6. CASE Eval!Search(d) \/ Eval!SearchLimit(d)
    <3>1. d[1].tool = "search_case" /\ d[1].argument = "given"
      BY <2>6 DEF Eval!Search, Eval!SearchLimit, Eval!Executed
    <3>2. d[1].outcome # "fails"
      BY <2>3, <3>1
    <3>3. evalAsked' = evalAsked /\ evalUseful' = evalUseful /\ evalUnknown' = evalUnknown
          /\ evalInvalid' = evalInvalid /\ evalAttempts' = evalAttempts + 1
      BY <2>6 DEF Eval!Search, Eval!SearchLimit
    <3>4. MaxSearches \in Nat /\ evalSearches \in Nat
      BY AgentAssumption DEF LoopsInv, EvalInv, Eval!TypeOK
    <3>5. /\ evalSearches' = evalSearches + One(evalSearches < MaxSearches)
          /\ final' = IF evalSearches < MaxSearches THEN d[1].outcome ELSE final
      BY <2>6, <3>4 DEF Eval!Search, Eval!SearchLimit, Eval!LimitReached, One
    <3>6. SearchDue'
      BY <1>2, <1>3, <2>1, <3>1, <3>2, <3>3, <3>5
         DEF SearchDue, Agree, ClarificationsAgree, SearchesAgree, One
    <3> QED
      BY <1>9, <2>1, <2>2, <3>6 DEF CallsDue
  <2> QED
    BY <1>7, <2>4, <2>5, <2>6
<1> QED
  BY <1>4, <1>8, <1>9

\* The calls begin: the training counts what the evaluation counted.
LEMMA StartCallsParity ==
  ASSUME LoopsInv, CallsDue, StartCalls, UNCHANGED evalVars
  PROVE  AnswersDue'
<1>1. calls \in Seq(Call) /\ calls # <<>> /\ \A i \in DOMAIN calls : i > 1 => Unheard(i)
  BY DEF LoopsInv, AgentInv, AgentTypeOK, CallsDue
<1>2. 1 \in DOMAIN calls /\ \A i \in DOMAIN calls : i = 1 \/ i > 1
  BY <1>1
<1>3. \A i \in DOMAIN calls : i = 1 \/ calls[i].tool \notin {"clarify_user", "search_case"}
  BY <1>1, <1>2 DEF Unheard
<1>4. ASSUME NEW tool \in {"clarify_user", "search_case"}
      PROVE  Of(tool) = IF calls[1].tool = tool THEN {1} ELSE {}
  BY <1>2, <1>3 DEF Of
<1>5. Cardinality({}) = 0 /\ Cardinality({1}) = 1
  BY FS_EmptySet, FS_Singleton
<1>6. /\ asked \in Nat /\ attempts \in Nat /\ searches \in Nat /\ MaxSearches \in Nat
      /\ useful \in Nat /\ unknown \in Nat /\ invalid \in Nat
  BY AgentAssumption DEF LoopsInv, AgentInv, AgentTypeOK
<1>7. /\ asked' = asked + Cardinality(Of("clarify_user"))
      /\ attempts' = attempts + Cardinality(Of("search_case"))
      /\ searches' = searches + Cardinality(SearchesMade)
      /\ waiting' = {i \in Of("clarify_user") \cup SearchesMade : calls[i].argument # "missing"}
      /\ UNCHANGED <<calls, useful, unknown, invalid, cases>>
  BY DEF StartCalls, Attempts
<1>8. UNCHANGED <<evalAsked, evalUseful, evalUnknown, evalInvalid, evalAttempts, evalSearches, final>>
  BY DEF evalVars, evalCounts
<1>9. CASE Unheard(1) /\ Agree
  <2>1. Of("clarify_user") = {} /\ Of("search_case") = {}
    BY <1>4, <1>9 DEF Unheard
  <2>2. SearchesMade = {}
    BY <2>1 DEF SearchesMade
  <2>3. asked' = asked /\ attempts' = attempts /\ searches' = searches /\ waiting' = {}
    BY <1>5, <1>6, <1>7, <2>1, <2>2
  <2> QED
    BY <1>7, <1>8, <1>9, <2>3 DEF AnswersDue, Agree, ClarificationsAgree, SearchesAgree
<1>10. CASE ClarifyDue
  <2>1. Of("clarify_user") = {1} /\ Of("search_case") = {}
    BY <1>4, <1>10 DEF ClarifyDue
  <2>2. SearchesMade = {}
    BY <2>1 DEF SearchesMade
  <2>3. calls[1].argument = "given"
    BY <1>10 DEF ClarifyDue
  <2>4. asked' = asked + 1 /\ attempts' = attempts /\ searches' = searches /\ waiting' = {1}
    BY <1>5, <1>6, <1>7, <2>1, <2>2, <2>3
  <2> QED
    BY <1>7, <1>8, <1>10, <2>4 DEF AnswersDue, ClarifyDue, ReplyDue, SearchesAgree
<1>11. CASE SearchDue
  <2>1. Of("clarify_user") = {} /\ Of("search_case") = {1}
    BY <1>4, <1>11 DEF SearchDue
  <2>2. {j \in Of("search_case") : j < 1} = {}
    BY <2>1
  <2>3. Admitted(1) <=> searches < MaxSearches
    BY <1>5, <1>6, <2>2 DEF Admitted
  <2>4. SearchesMade = IF searches < MaxSearches THEN {1} ELSE {}
    BY <2>1, <2>3 DEF SearchesMade
  <2>5. calls[1].argument = "given"
    BY <1>11 DEF SearchDue
  <2>6. asked' = asked /\ attempts' = attempts + 1
    <3>1. Cardinality(Of("clarify_user")) = 0 /\ Cardinality(Of("search_case")) = 1
      BY <1>5, <2>1
    <3> QED
      BY <1>6, <1>7, <3>1
  <2>7. ClarificationsAgree'
    BY <1>7, <1>8, <1>11, <2>6 DEF SearchDue, ClarificationsAgree
  <2>8. evalAttempts' = attempts'
    BY <1>8, <1>11, <2>6 DEF SearchDue
  <2>9. CASE searches < MaxSearches
    <3>1. searches' = searches + 1 /\ waiting' = {1}
      BY <1>5, <1>7, <2>1, <2>4, <2>5, <2>9
    <3>2. evalSearches' = searches' /\ final' = calls'[1].outcome
      BY <1>7, <1>8, <1>11, <2>9, <3>1 DEF SearchDue, One
    <3>3. calls'[1].tool = "search_case" /\ calls'[1].outcome # "fails"
      BY <1>7, <1>11 DEF SearchDue
    <3> QED
      BY <2>7, <2>8, <3>1, <3>2, <3>3 DEF AnswersDue
  <2>10. CASE ~ (searches < MaxSearches)
    <3>1. searches' = searches /\ waiting' = {}
      BY <1>5, <1>6, <1>7, <2>1, <2>4, <2>10
    <3>2. evalSearches' = searches' /\ final' = cases'
      BY <1>6, <1>7, <1>8, <1>11, <2>10, <3>1 DEF SearchDue, One
    <3> QED
      BY <2>7, <2>8, <3>1, <3>2 DEF AnswersDue, Agree, SearchesAgree
  <2> QED
    BY <2>9, <2>10
<1> QED
  BY <1>9, <1>10, <1>11 DEF CallsDue

\* A tool's answer comes: the training has heard what the evaluation has.
LEMMA AnswersParity ==
  ASSUME LoopsInv, AnswersDue, NEW i \in 1 .. MaxParallelCalls,
         Clarified(i) \/ Searched(i) \/ CallFails(i), UNCHANGED evalVars
  PROVE  AnswersDue'
<1>1. i \in waiting /\ waiting' = waiting \ {i}
  BY DEF Clarified, Searched, CallFails, Answered
<1>2. UNCHANGED <<evalAsked, evalUseful, evalUnknown, evalInvalid, evalAttempts, evalSearches, final>>
  BY DEF evalVars, evalCounts
<1>3. useful \in Nat /\ unknown \in Nat /\ invalid \in Nat
  BY DEF LoopsInv, AgentInv, AgentTypeOK
<1>4. i = 1 /\ waiting' = {}
  BY <1>1 DEF AnswersDue
<1>5. CASE /\ calls[1].tool = "clarify_user"
           /\ evalAsked = asked /\ ReplyDue(calls[1].outcome) /\ SearchesAgree
  <2>1. calls[1].outcome \in Replies
    BY <1>5 DEF ReplyDue
  <2>2. Clarified(1)
    BY <1>4, <1>5, <2>1 DEF Searched, CallFails, Replies
  <2>3. /\ useful' = useful + One(calls[1].outcome = "known_info")
        /\ unknown' = unknown + One(calls[1].outcome = "unknown")
        /\ invalid' = invalid + One(calls[1].outcome = "invalid")
    BY <1>3, <2>1, <2>2 DEF Clarified, One, Replies
  <2>4. UNCHANGED <<asked, attempts, searches, cases>>
    BY <2>2 DEF Clarified
  <2>5. ClarificationsAgree' /\ SearchesAgree'
    BY <1>2, <1>5, <2>3, <2>4 DEF ReplyDue, ClarificationsAgree, SearchesAgree
  <2> QED
    BY <1>4, <2>5 DEF AnswersDue, Agree
<1>6. CASE /\ calls[1].tool = "search_case" /\ calls[1].outcome # "fails"
           /\ <<attempts, searches, calls[1].outcome>> = <<evalAttempts, evalSearches, final>>
           /\ ClarificationsAgree
  <2>1. Searched(1)
    BY <1>4, <1>6 DEF Clarified, CallFails
  <2>2. cases' = calls[1].outcome /\ UNCHANGED <<clarifications, attempts, searches>>
    BY <2>1 DEF Searched
  <2>3. ClarificationsAgree' /\ SearchesAgree'
    BY <1>2, <1>6, <2>2 DEF clarifications, ClarificationsAgree, SearchesAgree
  <2> QED
    BY <1>4, <2>3 DEF AnswersDue, Agree
<1> QED
  BY <1>1, <1>5, <1>6 DEF AnswersDue

\* A step of the training's loop between two of its answers.
LEMMA AgentStepsParity ==
  ASSUME LoopsInv, ParityInv, AgentSteps
  PROVE  ParityInv'
<1>1. AgentStep /\ UNCHANGED <<evalVars, alike>>
  BY DEF AgentSteps
<1>2. UNCHANGED <<stop, evalTurns, evalAsked, evalUseful, evalUnknown, evalInvalid,
                  evalAttempts, evalSearches, final>>
  BY <1>1 DEF evalVars, evalCounts
<1>3. turns' = turns
  BY <1>1 DEF AgentStep, GenerateFails, Tools, StartCalls, Clarified, Searched, CallFails,
              Answered, Respond, Judge
<1>4. SUFFICES ASSUME Compared'
              PROVE  /\ Settled' => Agree'
                     /\ state' = "processing_tools" => CallsDue'
                     /\ state' = "waiting_tools" => AnswersDue'
  BY DEF ParityInv
<1>5. Compared
  BY <1>1, <1>2, <1>3, <1>4 DEF Compared
<1>6. CASE GenerateFails
  BY <1>6 DEF GenerateFails, Settled, SameTurn
<1>7. CASE StartCalls
  <2>1. CallsDue
    BY <1>5, <1>7 DEF ParityInv, StartCalls
  <2>2. AnswersDue'
    BY <1>1, <1>7, <2>1, StartCallsParity
  <2>3. state' = "waiting_tools"
    BY <1>7 DEF StartCalls
  <2> QED
    BY <2>2, <2>3 DEF Settled, SameTurn
<1>8. ASSUME NEW i \in 1 .. MaxParallelCalls, Clarified(i) \/ Searched(i) \/ CallFails(i)
      PROVE  /\ Settled' => Agree'
             /\ state' = "processing_tools" => CallsDue'
             /\ state' = "waiting_tools" => AnswersDue'
  <2>1. i \in waiting /\ state' = state
    BY <1>8 DEF Clarified, Searched, CallFails, Answered
  <2>2. state = "waiting_tools"
    BY <2>1 DEF LoopsInv, AgentInv, Underway
  <2>3. AnswersDue
    BY <1>5, <2>2 DEF ParityInv
  <2>4. AnswersDue'
    BY <1>1, <1>8, <2>3, AnswersParity
  <2> QED
    BY <2>1, <2>2, <2>4 DEF Settled, SameTurn
<1>9. CASE Respond
  <2>1. /\ state = "waiting_tools" /\ waiting = {} /\ state' \in {"generating", "terminated"}
        /\ UNCHANGED counts
    BY <1>9 DEF Respond
  <2>2. AnswersDue
    BY <1>5, <2>1 DEF ParityInv
  <2>3. Agree
    BY <2>1, <2>2 DEF AnswersDue
  <2>4. Agree'
    BY <1>2, <2>1, <2>3 DEF Agree, ClarificationsAgree, SearchesAgree, counts, clarifications
  <2> QED
    BY <2>1, <2>4
<1>10. CASE Judge
  <2>1. state = "terminated" /\ state' \in {"judged", "failed"} /\ UNCHANGED counts
    BY <1>10 DEF Judge
  <2>2. Settled' => Agree
    BY <1>2, <1>5, <2>1 DEF ParityInv, Settled, SameTurn
  <2>3. Agree <=> Agree'
    BY <1>2, <2>1 DEF Agree, ClarificationsAgree, SearchesAgree, counts, clarifications
  <2> QED
    BY <2>1, <2>2, <2>3
<1> QED
  BY <1>1, <1>6, <1>7, <1>8, <1>9, <1>10 DEF AgentStep, Tools

\* No step leaves the counts of two loops apart that were given the same answers.
LEMMA ParityStepInv ==
  ASSUME LoopsInv, OrderInv, ParityInv, [Next]_vars
  PROVE  ParityInv'
<1>1. turns \in Nat /\ evalTurns \in Nat
  BY DEF LoopsInv, AgentInv, AgentTypeOK, EvalInv, Eval!TypeOK
<1>2. ASSUME NEW d \in Answer, Both(d) PROVE ParityInv'
  <2>1. SUFFICES ASSUME Compared'
                 PROVE  /\ Settled' => Agree'
                        /\ state' = "processing_tools" => CallsDue'
                        /\ state' = "waiting_tools" => AnswersDue'
    BY DEF ParityInv
  <2>2. /\ state' = "terminated" /\ stop' # "none" => Agree'
        /\ state' = "processing_tools" => CallsDue'
        /\ state' \in {"terminated", "processing_tools"}
    BY <1>2, <2>1, BothParity
  <2> QED
    BY <2>2 DEF Settled, SameTurn
<1>3. ASSUME NEW d \in Answer, AgentAlone(d) PROVE ParityInv'
  <2>1. turns' = turns + 1 /\ evalTurns' = evalTurns /\ ~ Ended
    BY <1>3 DEF AgentAlone, Generate, Turned, Ended, evalVars
  <2>2. ~ Compared'
    BY <1>1, <2>1 DEF OrderInv, Compared
  <2> QED
    BY <2>2 DEF ParityInv
<1>4. ASSUME NEW d \in Answer, EvalAlone(d) PROVE ParityInv'
  <2>1. turns' = turns /\ stop = "none"
    BY <1>4 DEF EvalAlone, Eval!Turn, agentVars
  <2>2. evalTurns' = evalTurns + 1 \/ stop' = "infrastructure_failure"
    BY <1>4 DEF EvalAlone, Eval!Turn, Eval!Broken, Eval!Text, Eval!Complete, Eval!NotExecuted,
                Eval!Rejected, Eval!Clarify, Eval!Search, Eval!SearchLimit, Eval!ToolFails,
                Eval!Failed, Eval!Ended
  <2>3. ~ Compared'
    BY <1>1, <2>1, <2>2 DEF OrderInv, Compared
  <2> QED
    BY <2>3 DEF ParityInv
<1>5. CASE AgentSteps
  BY <1>5, AgentStepsParity
<1>6. CASE EvalFails
  BY <1>6 DEF EvalFails, Eval!Fails, Eval!Failed, ParityInv, Compared
<1>7. CASE EvalJudges \/ UNCHANGED vars
  <2>1. UNCHANGED <<agentVars, alike, stop, evalTurns, evalAsked, evalUseful, evalUnknown,
                    evalInvalid, evalAttempts, evalSearches, final>>
    BY <1>7 DEF EvalJudges, Eval!JudgeSuccess, Eval!counts, vars, evalVars, evalCounts
  <2>2. /\ Compared' = Compared /\ Settled' = Settled /\ Agree' = Agree
        /\ CallsDue' = CallsDue /\ AnswersDue' = AnswersDue /\ state' = state
    BY <2>1 DEF agentVars, counts, clarifications, Compared, Settled, SameTurn, Agree,
                ClarificationsAgree, SearchesAgree, CallsDue, ClarifyDue, SearchDue, ReplyDue,
                Unheard, AnswersDue
  <2> QED
    BY <2>2 DEF ParityInv
<1> QED
  BY <1>2, <1>3, <1>4, <1>5, <1>6, <1>7 DEF Next, Answers

\* Training and evaluation are "consistent" (metric.md:23): as long as every
\* answer means the same to both (Plain), they count the same clarifications and
\* searches and hold the same cases to be judged whenever they are in the same
\* turn, however many turns, calls and searches they are allowed.
THEOREM TrainingAgreesWithEvaluation == Spec => []Parity
<1> DEFINE IInv == LoopsInv /\ OrderInv /\ ParityInv
<1>1. Init => IInv
  <2>1. Init => LoopsInv
    BY AgentInitInv, EvalInitInv DEF Init, LoopsInv
  <2>2. Init => OrderInv /\ ParityInv
    BY DEF Init, AgentInit, Eval!Init, OrderInv, ParityInv, Agree, ClarificationsAgree,
           SearchesAgree
  <2> QED
    BY <2>1, <2>2
<1>2. IInv /\ [Next]_vars => IInv'
  BY LoopsStepInv, OrderStepInv, ParityStepInv
<1>3. IInv => Parity
  BY DEF ParityInv, Parity, Compared, Settled, SameTurn, Agree, ClarificationsAgree, SearchesAgree
<1> QED
  BY <1>1, <1>2, <1>3, PTL DEF Spec

=============================================================================
