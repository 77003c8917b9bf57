------------------------ MODULE LoadBalancer_proofs -------------------------
(***************************************************************************)
(* The load counts of LoadBalancer for any servers and requests.  A count  *)
(* is compared with the number of turns at its server; both move by one    *)
(* and together, except that a hybrid server's count starts anew when it   *)
(* rejoins the pool.                                                       *)
(***************************************************************************)
EXTENDS LoadBalancer, FiniteSetTheorems, TLAPS

IInv == LoadTypeOK /\ LoadNotLeaked /\ StandaloneExact

LEMMA AtFinite == ASSUME NEW s PROVE IsFiniteSet(At(s)) /\ Cardinality(At(s)) \in Nat
<1>1. At(s) \subseteq Requests /\ IsFiniteSet(Requests)
  BY LoadBalancerAssumption DEF At
<1> QED BY <1>1, FS_Subset, FS_CardinalityType

\* A turn that begins at s is one more at s and none elsewhere.
LEMMA Enter ==
  ASSUME LoadTypeOK, NEW r \in Requests, NEW s \in Servers, at[r] = None,
         at' = [at EXCEPT ![r] = s]
  PROVE  /\ Cardinality(At(s))' = Cardinality(At(s)) + 1
         /\ \A o \in Servers \ {s} : Cardinality(At(o))' = Cardinality(At(o))
<1>1. At(s)' = At(s) \cup {r} /\ r \notin At(s)
  BY LoadBalancerAssumption DEF LoadTypeOK, At, Servers
<1>2. \A o \in Servers \ {s} : At(o)' = At(o)
  BY LoadBalancerAssumption DEF LoadTypeOK, At, Servers
<1> QED BY <1>1, <1>2, AtFinite, FS_AddElement

\* A turn that is released is one less at its server and none elsewhere.
LEMMA Leave ==
  ASSUME LoadTypeOK, NEW r \in Requests, at[r] \in Servers,
         at' = [at EXCEPT ![r] = None]
  PROVE  /\ Cardinality(At(at[r])) > 0
         /\ \A o \in Servers :
              Cardinality(At(o)') = Cardinality(At(o)) - (IF o = at[r] THEN 1 ELSE 0)
<1>1. r \in At(at[r])
  BY DEF At
<1>2. \A o \in Servers : At(o)' = IF o = at[r] THEN At(o) \ {r} ELSE At(o)
  BY LoadBalancerAssumption DEF LoadTypeOK, At, Servers
<1>3. Cardinality(At(at[r])) > 0
  BY <1>1, AtFinite, FS_EmptySet
<1>4. Cardinality(At(at[r]) \ {r}) = Cardinality(At(at[r])) - 1
  BY <1>1, AtFinite, FS_RemoveElement
<1>5. ASSUME NEW o \in Servers
      PROVE  Cardinality(At(o)') = Cardinality(At(o)) - (IF o = at[r] THEN 1 ELSE 0)
  <2>1. CASE o = at[r]
    <3>1. At(o)' = At(at[r]) \ {r}
      BY <1>2, <2>1
    <3> QED BY <1>4, <2>1, <3>1
  <2>2. CASE o # at[r]
    <3>1. At(o)' = At(o)
      BY <1>2, <2>2
    <3> QED BY <2>2, <3>1, AtFinite
  <2> QED BY <2>1, <2>2
<1> QED BY <1>3, <1>5

LEMMA InitIInv == Init => IInv
<1> SUFFICES ASSUME Init PROVE IInv
  OBVIOUS
<1>1. \A s \in Servers : At(s) = {}
  BY LoadBalancerAssumption DEF Init, At, Servers
<1>2. \A s \in Servers : Cardinality(At(s)) = 0
  BY <1>1, FS_EmptySet
<1> QED BY <1>2 DEF Init, IInv, LoadTypeOK, LoadNotLeaked, StandaloneExact, Pool, Servers

LEMMA AcquireIInv == ASSUME IInv, NEW r \in Requests, Acquire(r) PROVE IInv'
<1>1. PICK s \in Candidates(r) : inflight' = Acquired(r, s) /\ at' = [at EXCEPT ![r] = s]
  BY DEF Acquire
<1>2. s \in Pool /\ Pool \subseteq Servers /\ Standalone \subseteq Pool
  BY <1>1 DEF Candidates, LeastLoaded, IInv, LoadTypeOK, Servers
<1>3. at[r] = None /\ UNCHANGED releasing
  BY DEF Acquire
<1>4. Pool' = Pool /\ inflight' = [inflight EXCEPT ![s] = @ + 1]
  BY <1>1 DEF Acquired, Pool
<1>5. LoadTypeOK'
  <2>1. inflight' \in [Pool' -> Nat] /\ Pool' \in {Standalone, Servers}
    BY <1>2, <1>4 DEF IInv, LoadTypeOK
  <2>2. at' \in [Requests -> Servers \cup {None}]
    BY <1>1, <1>2 DEF IInv, LoadTypeOK
  <2>3. releasing' \subseteq {q \in Requests : at'[q] # None}
    BY <1>1, <1>2, <1>3, LoadBalancerAssumption DEF IInv, LoadTypeOK, Servers
  <2> QED BY <2>1, <2>2, <2>3 DEF LoadTypeOK
<1>6. /\ Cardinality(At(s))' = Cardinality(At(s)) + 1
      /\ \A o \in Servers \ {s} : Cardinality(At(o))' = Cardinality(At(o))
  BY <1>1, <1>2, <1>3, Enter DEF IInv
<1>7. \A o \in Pool : inflight[o] \in Nat
                      /\ inflight'[o] = IF o = s THEN inflight[o] + 1 ELSE inflight[o]
  BY <1>2, <1>4 DEF IInv, LoadTypeOK, Pool
<1>8. \A o \in Servers : Cardinality(At(o)) \in Nat
  BY AtFinite
<1>9. LoadNotLeaked'
  BY <1>2, <1>4, <1>6, <1>7, <1>8 DEF IInv, LoadNotLeaked
<1>10. StandaloneExact'
  BY <1>2, <1>4, <1>6, <1>7, <1>8 DEF IInv, StandaloneExact
<1> QED BY <1>5, <1>9, <1>10 DEF IInv

LEMMA FinishIInv == ASSUME IInv, NEW r \in Requests, Finish(r) PROVE IInv'
<1>1. UNCHANGED <<inflight, at>> /\ at[r] # None /\ releasing' = releasing \cup {r}
  BY DEF Finish
<1>2. \A s : Cardinality(At(s))' = Cardinality(At(s))
  BY <1>1 DEF At
<1> QED BY <1>1, <1>2 DEF IInv, LoadTypeOK, LoadNotLeaked, StandaloneExact, Pool

LEMMA ReleaseIInv == ASSUME IInv, NEW r \in Requests, Release(r) PROVE IInv'
<1> DEFINE s == at[r]
<1>1. /\ r \in releasing /\ releasing' = releasing \ {r}
      /\ inflight' = Released(s) /\ at' = [at EXCEPT ![r] = None]
  BY DEF Release
<1>2. s \in Servers /\ Pool \subseteq Servers /\ Standalone \subseteq Pool
  BY <1>1 DEF IInv, LoadTypeOK, Servers
<1>3. /\ Pool' = Pool
      /\ \A o \in Pool : /\ inflight[o] \in Nat
                         /\ inflight'[o] = IF o = s /\ inflight[o] > 0 THEN inflight[o] - 1
                                                                      ELSE inflight[o]
  BY <1>1, <1>2 DEF Released, Pool, IInv, LoadTypeOK
<1>4. LoadTypeOK'
  <2>1. inflight' \in [Pool' -> Nat] /\ Pool' \in {Standalone, Servers}
    BY <1>1, <1>3 DEF Released, Pool, IInv, LoadTypeOK
  <2>2. at' \in [Requests -> Servers \cup {None}]
    BY <1>1 DEF IInv, LoadTypeOK
  <2>3. releasing' \subseteq {q \in Requests : at'[q] # None}
    BY <1>1 DEF IInv, LoadTypeOK
  <2> QED BY <2>1, <2>2, <2>3 DEF LoadTypeOK
<1>5. /\ Cardinality(At(s)) > 0
      /\ \A o \in Servers :
           Cardinality(At(o)') = Cardinality(At(o)) - (IF o = s THEN 1 ELSE 0)
  BY <1>1, <1>2, Leave DEF IInv
<1>6. \A o \in Servers : Cardinality(At(o)) \in Nat
  BY AtFinite
<1>7. LoadNotLeaked'
  BY <1>2, <1>3, <1>5, <1>6 DEF IInv, LoadNotLeaked
<1>8. StandaloneExact'
  BY <1>2, <1>3, <1>5, <1>6 DEF IInv, StandaloneExact
<1> QED BY <1>4, <1>7, <1>8 DEF IInv

LEMMA HybridIInv == ASSUME IInv, AddHybrid \/ RemoveHybrid PROVE IInv'
<1>1. UNCHANGED <<at, releasing>>
  BY DEF AddHybrid, RemoveHybrid
<1>2. \A s : Cardinality(At(s))' = Cardinality(At(s)) /\ Cardinality(At(s)) \in Nat
  BY <1>1, AtFinite DEF At
<1>3. /\ Pool' \in {Standalone, Servers} /\ inflight' \in [Pool' -> Nat]
      /\ \A s \in Pool' : inflight'[s] = 0 \/ (s \in Pool /\ inflight'[s] = inflight[s])
      /\ \A s \in Standalone : s \in Pool' /\ inflight'[s] = inflight[s]
  <2>1. CASE AddHybrid
    BY <2>1, LoadBalancerAssumption DEF AddHybrid, IInv, LoadTypeOK, StandaloneExact, Pool, Servers
  <2>2. CASE RemoveHybrid
    BY <2>2, LoadBalancerAssumption DEF RemoveHybrid, IInv, LoadTypeOK, StandaloneExact, Pool, Servers
  <2> QED BY <2>1, <2>2
<1>4. LoadTypeOK'
  BY <1>1, <1>3 DEF IInv, LoadTypeOK
<1>5. LoadNotLeaked'
  BY <1>2, <1>3 DEF IInv, LoadNotLeaked
<1>6. StandaloneExact'
  BY <1>2, <1>3 DEF IInv, StandaloneExact
<1> QED BY <1>4, <1>5, <1>6 DEF IInv

LEMMA NextIInv == IInv /\ [Next]_vars => IInv'
<1> SUFFICES ASSUME IInv, [Next]_vars PROVE IInv'
  OBVIOUS
<1>1. CASE \E r \in Requests : Acquire(r) \/ Finish(r) \/ Release(r)
  BY <1>1, AcquireIInv, FinishIInv, ReleaseIInv
<1>2. CASE AddHybrid \/ RemoveHybrid
  BY <1>2, HybridIInv
<1>3. CASE UNCHANGED vars
  <2>1. \A s : Cardinality(At(s))' = Cardinality(At(s))
    BY <1>3 DEF vars, At
  <2> QED BY <1>3, <2>1 DEF vars, IInv, LoadTypeOK, LoadNotLeaked, StandaloneExact, Pool
<1> QED BY <1>1, <1>2, <1>3 DEF Next

\* The strengthened invariant: the two count invariants carry each other only
\* with the typing of the pool, which always holds the standalone servers.
THEOREM Invariance == Spec => []IInv
<1> QED BY InitIInv, NextIInv, PTL DEF Spec

\* No turn that is over keeps counting (release_server, add_servers): a server
\* never looks busier than it is, for any pool, cache and number of requests.
THEOREM NoLoadLeak == Spec => []LoadNotLeaked
<1>1. IInv => LoadNotLeaked
  BY DEF IInv
<1> QED BY Invariance, <1>1, PTL

\* The counts of the servers that stay in the pool are exact, whatever joins
\* and leaves and in whatever order releases arrive.
THEOREM StandaloneCounts == Spec => []StandaloneExact
<1>1. IInv => StandaloneExact
  BY DEF IInv
<1> QED BY Invariance, <1>1, PTL

-----------------------------------------------------------------------------
\* The order of use

\* No request has two entries.
Distinct(s) == \A i, j \in DOMAIN s : s[i] = s[j] => i = j

\* t keeps the entries of s but q's, and puts only q behind what was behind.
Follows(t, s, q) ==
  \A i \in DOMAIN s : s[i] # q =>
    \E j \in DOMAIN t :
      /\ t[j] = s[i]
      /\ \A k \in DOMAIN t : k > j => t[k] = q \/ \E l \in DOMAIN s : l > i /\ t[k] = s[l]

\* Taking out an entry leaves the others as they follow each other.
LEMMA WithoutEntry ==
  ASSUME recent \in Seq(Requests), Distinct(recent), NEW q, Listed(q)
  PROVE  /\ Without(q) \in Seq(Requests) /\ Len(Without(q)) = Len(recent) - 1
         /\ Distinct(Without(q)) /\ Follows(Without(q), recent, q)
         /\ \A k \in DOMAIN Without(q) : Without(q)[k] # q
<1> DEFINE n == Len(recent)
<1> DEFINE p == CHOOSE i \in DOMAIN recent : recent[i] = q
<1> DEFINE w == [k \in 1 .. n - 1 |-> recent[IF k < p THEN k ELSE k + 1]]
<1>1. n \in Nat /\ DOMAIN recent = 1 .. n /\ \A i \in 1 .. n : recent[i] \in Requests
  OBVIOUS
<1>2. p \in 1 .. n /\ recent[p] = q
  BY <1>1 DEF Listed
<1>3. Without(q) = w
  BY DEF Without
<1> HIDE DEF p, n
<1>4. \A k \in 1 .. n - 1 : (IF k < p THEN k ELSE k + 1) \in 1 .. n
                            /\ (IF k < p THEN k ELSE k + 1) # p
  BY <1>1, <1>2
<1>5. w \in [1 .. n - 1 -> Requests] /\ n - 1 \in Nat
  BY <1>1, <1>2, <1>4
<1>6. w \in Seq(Requests) /\ Len(w) = n - 1 /\ DOMAIN w = 1 .. n - 1
  BY <1>5
<1>7. Distinct(w)
  <2>1. SUFFICES ASSUME NEW i \in 1 .. n - 1, NEW j \in 1 .. n - 1, w[i] = w[j]
                 PROVE  i = j
    BY <1>6 DEF Distinct
  <2>2. (IF i < p THEN i ELSE i + 1) = (IF j < p THEN j ELSE j + 1)
    BY <1>1, <1>4, <2>1 DEF Distinct
  <2> QED
    BY <1>1, <1>2, <2>2
<1>8. \A k \in 1 .. n - 1 : w[k] # q
  BY <1>1, <1>2, <1>4 DEF Distinct
<1> HIDE DEF w
<1>9. Follows(w, recent, q)
  <2>1. SUFFICES ASSUME NEW i \in DOMAIN recent, recent[i] # q
                 PROVE  \E j \in DOMAIN w :
                          /\ w[j] = recent[i]
                          /\ \A k \in DOMAIN w : k > j =>
                               w[k] = q \/ \E l \in DOMAIN recent : l > i /\ w[k] = recent[l]
    BY DEF Follows
  <2> DEFINE j == IF i < p THEN i ELSE i - 1
  <2>2. i # p
    BY <1>2, <2>1
  <2>3. j \in 1 .. n - 1 /\ (IF j < p THEN j ELSE j + 1) = i
    BY <1>1, <1>2, <2>2
  <2>4. w[j] = recent[i]
    BY <2>3 DEF w
  <2>5. ASSUME NEW k \in DOMAIN w, k > j
        PROVE  \E l \in DOMAIN recent : l > i /\ w[k] = recent[l]
    <3> DEFINE l == IF k < p THEN k ELSE k + 1
    <3>1. k \in 1 .. n - 1 /\ i \in 1 .. n
      BY <1>1, <1>6, <2>5
    <3>2. l \in 1 .. n /\ l > i
      BY <1>1, <1>2, <2>2, <2>5, <3>1
    <3>3. w[k] = recent[l]
      BY <3>1 DEF w
    <3> QED
      BY <1>1, <3>2, <3>3
  <2> QED
    BY <1>6, <2>3, <2>4, <2>5
<1> QED
  BY <1>3, <1>6, <1>7, <1>8, <1>9 DEF n, w

CacheOK == recent \in Seq(Requests) /\ Len(recent) <= CacheSize /\ Distinct(recent)

\* After a use the entry is the last one, and the others follow each other as
\* before.
LEMMA TouchedEntries ==
  ASSUME CacheOK, NEW q \in Requests
  PROVE  /\ Touched(q) \in Seq(Requests)
         /\ Len(Touched(q)) \in 1 .. CacheSize + 1
         /\ Touched(q)[Len(Touched(q))] = q
         /\ Distinct(Touched(q)) /\ Follows(Touched(q), recent, q)
<1> DEFINE b == IF Listed(q) THEN Without(q) ELSE recent
<1> DEFINE t == Append(b, q)
<1>1. recent \in Seq(Requests) /\ Distinct(recent) /\ Len(recent) \in Nat /\ CacheSize \in Nat
      /\ Len(recent) <= CacheSize
  BY LoadBalancerAssumption DEF CacheOK
<1>2. /\ b \in Seq(Requests) /\ Len(b) <= CacheSize /\ Len(b) \in Nat
      /\ Distinct(b) /\ Follows(b, recent, q) /\ \A k \in DOMAIN b : b[k] # q
  <2>1. CASE Listed(q)
    BY <1>1, <2>1, WithoutEntry
  <2>2. CASE ~ Listed(q)
    <3>1. b = recent /\ \A k \in DOMAIN recent : recent[k] # q
      BY <2>2 DEF Listed
    <3>2. Follows(recent, recent, q)
      BY DEF Follows
    <3> QED
      BY <1>1, <3>1, <3>2
  <2> QED
    BY <2>1, <2>2
<1>3. Touched(q) = t
  BY DEF Touched
<1> HIDE DEF b
<1>4. /\ t \in Seq(Requests) /\ Len(t) = Len(b) + 1 /\ t[Len(b) + 1] = q
      /\ DOMAIN t = 1 .. Len(b) + 1 /\ DOMAIN b = 1 .. Len(b)
      /\ \A k \in 1 .. Len(b) : t[k] = b[k]
  BY <1>2
<1> HIDE DEF t
<1>5. Distinct(t)
  <2>1. SUFFICES ASSUME NEW i \in DOMAIN t, NEW j \in DOMAIN t, t[i] = t[j]
                 PROVE  i = j
    BY DEF Distinct
  <2>2. \A k \in DOMAIN t : k = Len(b) + 1 \/ k \in DOMAIN b
    BY <1>2, <1>4
  <2>3. CASE i \in DOMAIN b /\ j \in DOMAIN b
    BY <1>2, <1>4, <2>1, <2>3 DEF Distinct
  <2>4. CASE i \notin DOMAIN b \/ j \notin DOMAIN b
    <3>1. t[i] = q /\ t[j] = q
      BY <1>4, <2>1, <2>2, <2>4
    <3>2. i \notin DOMAIN b /\ j \notin DOMAIN b
      BY <1>2, <1>4, <3>1
    <3> QED
      BY <2>2, <3>2
  <2> QED
    BY <2>3, <2>4
<1>6. Follows(t, recent, q)
  <2>1. SUFFICES ASSUME NEW i \in DOMAIN recent, recent[i] # q
                 PROVE  \E j \in DOMAIN t :
                          /\ t[j] = recent[i]
                          /\ \A k \in DOMAIN t : k > j =>
                               t[k] = q \/ \E l \in DOMAIN recent : l > i /\ t[k] = recent[l]
    BY DEF Follows
  <2>2. PICK j \in DOMAIN b :
          /\ b[j] = recent[i]
          /\ \A k \in DOMAIN b : k > j =>
               b[k] = q \/ \E l \in DOMAIN recent : l > i /\ b[k] = recent[l]
    BY <1>2, <2>1 DEF Follows
  <2>3. j \in DOMAIN t /\ t[j] = recent[i]
    BY <1>2, <1>4, <2>2
  <2>4. ASSUME NEW k \in DOMAIN t, k > j
        PROVE  t[k] = q \/ \E l \in DOMAIN recent : l > i /\ t[k] = recent[l]
    <3>1. k = Len(b) + 1 \/ k \in DOMAIN b
      BY <1>2, <1>4
    <3>2. CASE k = Len(b) + 1
      BY <1>4, <3>2
    <3>3. CASE k \in DOMAIN b
      BY <1>4, <2>2, <2>4, <3>3
    <3> QED
      BY <3>1, <3>2, <3>3
  <2> QED
    BY <2>3, <2>4
<1> QED
  BY <1>1, <1>2, <1>3, <1>4, <1>5, <1>6

\* As many different values as the cache has entries take a set of that size.
LEMMA AsManyValues ==
  ASSUME NEW t \in Seq(Requests), Distinct(t), Len(t) = CacheSize + 1,
         NEW X, IsFiniteSet(X), \A k \in DOMAIN t : k > 1 => t[k] \in X
  PROVE  Cardinality(X) >= CacheSize
<1> DEFINE f == [k \in 1 .. CacheSize |-> t[k + 1]]
<1>1. CacheSize \in Nat /\ DOMAIN t = 1 .. CacheSize + 1
  BY LoadBalancerAssumption
<1>2. \A k \in 1 .. CacheSize : k + 1 \in DOMAIN t /\ k + 1 > 1
  BY <1>1
<1>3. \A k \in 1 .. CacheSize : t[k + 1] \in X
  BY <1>2
<1>4. \A i, j \in 1 .. CacheSize : t[i + 1] = t[j + 1] => i = j
  BY <1>1, <1>2 DEF Distinct
<1>5. f \in [1 .. CacheSize -> X] /\ \A i \in 1 .. CacheSize : f[i] = t[i + 1]
  BY <1>3
<1> HIDE DEF f
<1>6. f \in Injection(1 .. CacheSize, X)
  BY <1>4, <1>5 DEF Injection, IsInjective
<1>7. Cardinality(1 .. CacheSize) <= Cardinality(X)
  BY <1>6, FS_Injection
<1>8. Cardinality(1 .. CacheSize) = CacheSize
  BY <1>1, FS_Interval
<1>9. Cardinality(X) \in Nat
  BY FS_CardinalityType
<1> QED
  BY <1>1, <1>7, <1>8, <1>9

\* The cache stays within its size and keeps the entry just used at its end.
LEMMA CachedEntries ==
  ASSUME CacheOK, NEW q \in Requests
  PROVE  /\ Cached(q) \in Seq(Requests) /\ Len(Cached(q)) \in 1 .. CacheSize
         /\ Distinct(Cached(q)) /\ Cached(q)[Len(Cached(q))] = q
<1> DEFINE t == Touched(q)
<1>1. /\ t \in Seq(Requests) /\ Len(t) \in 1 .. CacheSize + 1 /\ t[Len(t)] = q /\ Distinct(t)
      /\ CacheSize \in Nat \ {0}
  BY TouchedEntries, LoadBalancerAssumption
<1>2. Cached(q) = IF Len(t) > CacheSize THEN Tail(t) ELSE t
  BY DEF Cached
<1> HIDE DEF t
<1>3. CASE Len(t) > CacheSize
  <2>1. /\ Tail(t) \in Seq(Requests) /\ Len(Tail(t)) = Len(t) - 1 /\ Len(t) = CacheSize + 1
        /\ DOMAIN t = 1 .. Len(t) /\ DOMAIN Tail(t) = 1 .. Len(t) - 1
        /\ \A k \in 1 .. Len(t) - 1 : Tail(t)[k] = t[k + 1]
    BY <1>1, <1>3
  <2>2. Distinct(Tail(t))
    <3>1. \A k \in DOMAIN Tail(t) : k + 1 \in DOMAIN t /\ k \in Int
      BY <1>1, <2>1
    <3> QED
      BY <1>1, <2>1, <3>1 DEF Distinct
  <2>3. Tail(t)[Len(Tail(t))] = q
    BY <1>1, <2>1
  <2> QED
    BY <1>1, <1>2, <1>3, <2>1, <2>2, <2>3
<1>4. CASE ~ (Len(t) > CacheSize)
  BY <1>1, <1>2, <1>4
<1> QED
  BY <1>3, <1>4

\* Another request's turn leaves an entry in its place among the others, or
\* evicts it: then as many others as the cache has entries have come after it.
LEMMA KeptOrEvicted ==
  ASSUME CacheOK, NEW q \in Requests, NEW i \in DOMAIN recent, recent[i] # q,
         NEW X, IsFiniteSet(X), q \in X,
         \A l \in DOMAIN recent : l > i => recent[l] \in X
  PROVE  \/ Cardinality(X) >= CacheSize
         \/ \E j \in DOMAIN Cached(q) :
              /\ Cached(q)[j] = recent[i]
              /\ \A k \in DOMAIN Cached(q) : k > j => Cached(q)[k] \in X
<1> DEFINE t == Touched(q)
<1>1. /\ t \in Seq(Requests) /\ Len(t) \in 1 .. CacheSize + 1 /\ Distinct(t)
      /\ CacheSize \in Nat \ {0} /\ Follows(t, recent, q)
  BY TouchedEntries, LoadBalancerAssumption
<1>2. Cached(q) = IF Len(t) > CacheSize THEN Tail(t) ELSE t
  BY DEF Cached
<1> HIDE DEF t
<1>3. PICK j \in DOMAIN t :
        /\ t[j] = recent[i]
        /\ \A k \in DOMAIN t : k > j =>
             t[k] = q \/ \E l \in DOMAIN recent : l > i /\ t[k] = recent[l]
  BY <1>1 DEF Follows
<1>4. \A k \in DOMAIN t : k > j => t[k] \in X
  BY <1>3
<1>5. CASE ~ (Len(t) > CacheSize)
  BY <1>2, <1>3, <1>4, <1>5
<1>6. CASE Len(t) > CacheSize /\ j = 1
  <2>1. Len(t) = CacheSize + 1
    BY <1>1, <1>6
  <2>2. Cardinality(X) >= CacheSize
    BY <1>1, <1>4, <1>6, <2>1, AsManyValues
  <2> QED
    BY <2>2
<1>7. CASE Len(t) > CacheSize /\ j # 1
  <2>1. /\ Len(Tail(t)) = Len(t) - 1 /\ Len(t) = CacheSize + 1 /\ DOMAIN t = 1 .. Len(t)
        /\ DOMAIN Tail(t) = 1 .. Len(t) - 1
        /\ \A k \in 1 .. Len(t) - 1 : Tail(t)[k] = t[k + 1]
    BY <1>1, <1>7
  <2>2. j - 1 \in DOMAIN Tail(t) /\ Tail(t)[j - 1] = recent[i]
    BY <1>1, <1>3, <1>7, <2>1
  <2>3. \A k \in DOMAIN Tail(t) : k > j - 1 => Tail(t)[k] \in X
    <3>1. \A k \in DOMAIN Tail(t) : k > j - 1 => k + 1 \in DOMAIN t /\ k + 1 > j
      BY <1>1, <2>1
    <3> QED
      BY <1>4, <2>1, <3>1
  <2> QED
    BY <1>2, <1>7, <2>2, <2>3
<1> QED
  BY <1>5, <1>6, <1>7

-----------------------------------------------------------------------------
\* Sticky sessions

\* The entry of r is there, points to its last server, and only requests that
\* acquired since r's last turn were used after it.
Kept(r) ==
  /\ route[r] = home[r]
  /\ \E i \in DOMAIN recent :
       /\ recent[i] = r
       /\ \A k \in DOMAIN recent : k > i => recent[k] \in since[r]

\* The last server is in the pool, and the entry is lost at the earliest when
\* the cache has been filled by others.
SessionInv ==
  \A r \in Requests : home[r] # None =>
    home[r] \in Pool /\ (Cardinality(since[r]) >= CacheSize \/ Kept(r))

StickyInv == IInv /\ TypeOK /\ CacheOK /\ SessionInv

LEMMA SinceFinite ==
  ASSUME TypeOK, NEW r \in Requests
  PROVE  IsFiniteSet(since[r]) /\ Cardinality(since[r]) \in Nat
<1>1. since[r] \in SUBSET Requests /\ IsFiniteSet(Requests)
  BY LoadBalancerAssumption DEF TypeOK
<1> QED
  BY <1>1, FS_Subset, FS_CardinalityType

LEMMA InitStickyInv == Init => StickyInv
<1> SUFFICES ASSUME Init PROVE StickyInv
  OBVIOUS
<1>1. recent = <<>> /\ recent \in Seq(Requests) /\ Len(recent) = 0 /\ DOMAIN recent = {}
  BY DEF Init
<1>2. CacheOK
  BY <1>1, LoadBalancerAssumption DEF CacheOK, Distinct
<1>3. IInv /\ LoadTypeOK
  BY InitIInv DEF IInv
<1>4. TypeOK
  BY <1>1, <1>3, LoadBalancerAssumption DEF Init, TypeOK
<1>5. SessionInv
  BY DEF Init, SessionInv
<1> QED
  BY <1>2, <1>3, <1>4, <1>5 DEF StickyInv

LEMMA AcquireStickyInv ==
  ASSUME StickyInv, NEW q \in Requests, Acquire(q), IInv'
  PROVE  StickyInv'
<1>1. PICK s \in Candidates(q) :
        /\ inflight' = Acquired(q, s)
        /\ recent' = Cached(q)
        /\ route' = [r \in Requests |->
             IF r = q THEN s
             ELSE IF \E i \in DOMAIN recent' : recent'[i] = r THEN route[r] ELSE None]
        /\ home' = [home EXCEPT ![q] = s]
  BY DEF Acquire
<1>2. /\ turns[q] < MaxTurns /\ turns' = [turns EXCEPT ![q] = @ + 1]
      /\ since' = [r \in Requests |-> IF r = q THEN {} ELSE since[r] \cup {q}]
  BY DEF Acquire
<1>3. s \in Pool /\ s \in Servers /\ Pool' = Pool
  BY <1>1 DEF Candidates, LeastLoaded, Acquired, Pool, StickyInv, IInv, LoadTypeOK, Servers
<1>4. /\ recent' \in Seq(Requests) /\ Len(recent') \in 1 .. CacheSize
      /\ Distinct(recent') /\ recent'[Len(recent')] = q
  BY <1>1, CachedEntries DEF StickyInv
<1>5. CacheOK'
  BY <1>4, LoadBalancerAssumption DEF CacheOK, Distinct
<1>6. TypeOK'
  <2>1. route' \in [Requests -> Servers \cup {None}]
    BY <1>1, <1>3 DEF StickyInv, TypeOK
  <2>2. home' \in [Requests -> Servers \cup {None}]
    BY <1>1, <1>3 DEF StickyInv, TypeOK
  <2>3. turns' \in [Requests -> 0 .. MaxTurns]
    <3>1. turns[q] + 1 \in 0 .. MaxTurns
      BY <1>2, LoadBalancerAssumption DEF StickyInv, TypeOK
    <3> QED
      BY <1>2, <3>1 DEF StickyInv, TypeOK
  <2>4. since' \in [Requests -> SUBSET Requests]
    BY <1>2 DEF StickyInv, TypeOK
  <2>5. LoadTypeOK' /\ recent' \in Seq(Requests) /\ Len(recent') <= CacheSize
    BY <1>5 DEF IInv, CacheOK
  <2> QED
    BY <2>1, <2>2, <2>3, <2>4, <2>5 DEF TypeOK
<1>7. ASSUME NEW r \in Requests, home'[r] # None
      PROVE  home'[r] \in Pool' /\ (Cardinality(since'[r]) >= CacheSize \/ Kept(r)')
  <2>1. CASE r = q
    <3>1. home'[r] = s /\ route'[r] = s
      BY <1>1, <2>1 DEF StickyInv, TypeOK
    <3>2. Len(recent') \in DOMAIN recent' /\ \A k \in DOMAIN recent' : ~ (k > Len(recent'))
      BY <1>4
    <3>3. Kept(r)'
      BY <1>4, <2>1, <3>1, <3>2 DEF Kept
    <3> QED
      BY <1>3, <3>1, <3>3
  <2>2. CASE r # q
    <3>1. home'[r] = home[r] /\ since'[r] = since[r] \cup {q}
      BY <1>1, <1>2, <2>2 DEF StickyInv, TypeOK
    <3>2. IsFiniteSet(since'[r]) /\ Cardinality(since'[r]) \in Nat /\ Cardinality(since[r]) \in Nat
          /\ Cardinality(since[r]) <= Cardinality(since'[r])
      <4>1. IsFiniteSet(since[r]) /\ Cardinality(since[r]) \in Nat
        BY SinceFinite DEF StickyInv
      <4>2. IsFiniteSet(since[r] \cup {q})
        BY <4>1, FS_AddElement
      <4>3. since[r] \in SUBSET (since[r] \cup {q})
        OBVIOUS
      <4> QED
        BY <3>1, <4>1, <4>2, <4>3, FS_Subset, FS_CardinalityType
    <3>3. home[r] \in Pool /\ (Cardinality(since[r]) >= CacheSize \/ Kept(r))
      BY <1>7, <3>1 DEF StickyInv, SessionInv
    <3>4. CASE Cardinality(since[r]) >= CacheSize
      BY <1>3, <3>1, <3>2, <3>3, <3>4, LoadBalancerAssumption
    <3>5. CASE Kept(r)
      <4>1. PICK i \in DOMAIN recent :
              recent[i] = r /\ \A k \in DOMAIN recent : k > i => recent[k] \in since[r]
        BY <3>5 DEF Kept
      <4>2. \/ Cardinality(since'[r]) >= CacheSize
            \/ \E j \in DOMAIN recent' :
                 /\ recent'[j] = r
                 /\ \A k \in DOMAIN recent' : k > j => recent'[k] \in since'[r]
        <5>1. recent[i] # q /\ q \in since'[r]
              /\ \A k \in DOMAIN recent : k > i => recent[k] \in since'[r]
          BY <2>2, <3>1, <4>1
        <5>2. CacheOK
          BY DEF StickyInv
        <5>3. \/ Cardinality(since'[r]) >= CacheSize
              \/ \E j \in DOMAIN Cached(q) :
                   /\ Cached(q)[j] = recent[i]
                   /\ \A k \in DOMAIN Cached(q) : k > j => Cached(q)[k] \in since'[r]
          BY <3>2, <5>1, <5>2, KeptOrEvicted
        <5> QED
          BY <1>1, <4>1, <5>3
      <4>3. CASE \E j \in DOMAIN recent' :
                   /\ recent'[j] = r
                   /\ \A k \in DOMAIN recent' : k > j => recent'[k] \in since'[r]
        <5>1. route'[r] = route[r]
          BY <1>1, <2>2, <4>3
        <5>2. Kept(r)'
          BY <3>1, <3>5, <4>3, <5>1 DEF Kept
        <5> QED
          BY <1>3, <3>1, <3>3, <5>2
      <4> QED
        BY <1>3, <3>1, <3>3, <4>2, <4>3
    <3> QED
      BY <3>3, <3>4, <3>5
  <2> QED
    BY <2>1, <2>2
<1>8. SessionInv'
  BY <1>7 DEF SessionInv
<1> QED
  BY <1>5, <1>6, <1>8 DEF StickyInv

\* What touches neither the cache nor the histories keeps the sessions.
LEMMA OtherStickyInv ==
  ASSUME StickyInv, IInv', UNCHANGED <<route, recent, turns, since>>,
         \A r \in Requests : home'[r] = home[r] \/ home'[r] = None,
         home' \in [Requests -> Servers \cup {None}],
         \A r \in Requests : home'[r] \in Pool => home'[r] \in Pool'
  PROVE  StickyInv'
<1>1. CacheOK' /\ TypeOK'
  BY DEF StickyInv, CacheOK, Distinct, TypeOK, IInv
<1>2. ASSUME NEW r \in Requests, home'[r] # None
      PROVE  home'[r] \in Pool' /\ (Cardinality(since'[r]) >= CacheSize \/ Kept(r)')
  <2>1. home'[r] = home[r] /\ home[r] \in Pool
        /\ (Cardinality(since[r]) >= CacheSize \/ Kept(r))
    BY <1>2 DEF StickyInv, SessionInv
  <2>2. Kept(r) => Kept(r)'
    BY <2>1 DEF Kept
  <2> QED
    BY <2>1, <2>2
<1>3. SessionInv'
  BY <1>2 DEF SessionInv
<1> QED
  BY <1>1, <1>3 DEF StickyInv

LEMMA NextStickyInv == StickyInv /\ [Next]_vars => StickyInv'
<1> SUFFICES ASSUME StickyInv, [Next]_vars PROVE StickyInv'
  OBVIOUS
<1>1. IInv'
  BY NextIInv DEF StickyInv
<1>2. home \in [Requests -> Servers \cup {None}]
  BY DEF StickyInv, TypeOK
<1>3. ASSUME NEW r \in Requests, Acquire(r) PROVE StickyInv'
  BY <1>1, <1>3, AcquireStickyInv
<1>4. ASSUME NEW r \in Requests, Finish(r) \/ Release(r) PROVE StickyInv'
  <2>1. UNCHANGED <<route, recent, turns, home, since>> /\ Pool' = Pool
    BY <1>4 DEF Finish, Release, Released, Pool, StickyInv, IInv, LoadTypeOK
  <2> QED
    BY <1>1, <1>2, <2>1, OtherStickyInv
<1>5. CASE AddHybrid
  <2>1. UNCHANGED <<route, recent, turns, home, since>> /\ Pool' = Pool \cup Hybrid
    BY <1>5 DEF AddHybrid, Pool
  <2> QED
    BY <1>1, <1>2, <2>1, OtherStickyInv
<1>6. CASE RemoveHybrid
  <2>1. /\ UNCHANGED <<route, recent, turns, since>> /\ Pool' = Pool \ Hybrid
        /\ home' = [r \in Requests |-> IF home[r] \in Hybrid THEN None ELSE home[r]]
    BY <1>6 DEF RemoveHybrid, Pool
  <2>2. None \notin Hybrid
    BY LoadBalancerAssumption DEF Servers
  <2>3. /\ \A r \in Requests : home'[r] = home[r] \/ home'[r] = None
        /\ home' \in [Requests -> Servers \cup {None}]
    BY <1>2, <2>1
  <2>4. \A r \in Requests : home'[r] \in Pool => home'[r] \in Pool'
    BY <2>1, <2>2
  <2> QED
    BY <1>1, <2>1, <2>3, <2>4, OtherStickyInv
<1>7. CASE UNCHANGED vars
  <2>1. UNCHANGED <<route, recent, turns, home, since>> /\ Pool' = Pool
    BY <1>7 DEF vars, Pool
  <2> QED
    BY <1>1, <1>2, <2>1, OtherStickyInv
<1> QED
  BY <1>3, <1>4, <1>5, <1>6, <1>7 DEF Next

\* A turn that begins while its session is kept goes to the server of the last.
LEMMA AcquireSticks ==
  ASSUME StickyInv, [Next]_vars, NEW r \in Requests,
         at[r] = None, at'[r] # None, home[r] # None, Cardinality(since[r]) < CacheSize
  PROVE  at'[r] = home[r]
<1>1. Acquire(r)
  <2>1. at \in [Requests -> Servers \cup {None}]
    BY DEF StickyInv, IInv, LoadTypeOK
  <2>2. ASSUME NEW q \in Requests, Acquire(q) PROVE q = r
    BY <2>1, <2>2 DEF Acquire
  <2>3. ASSUME NEW q \in Requests, Finish(q) \/ Release(q) PROVE FALSE
    BY <2>1, <2>3 DEF Finish, Release
  <2>4. ~ AddHybrid /\ ~ RemoveHybrid /\ ~ UNCHANGED vars
    BY DEF AddHybrid, RemoveHybrid, vars
  <2> QED
    BY <2>2, <2>3, <2>4 DEF Next
<1>2. home[r] \in Pool /\ route[r] = home[r]
  <2>1. Cardinality(since[r]) \in Nat /\ CacheSize \in Nat
    BY SinceFinite, LoadBalancerAssumption DEF StickyInv
  <2>2. ~ (Cardinality(since[r]) >= CacheSize)
    BY <2>1
  <2> QED
    BY <2>2 DEF StickyInv, SessionInv, Kept
<1>3. Candidates(r) = {home[r]}
  BY <1>2 DEF Candidates
<1>4. at' = [at EXCEPT ![r] = home[r]]
  BY <1>1, <1>3 DEF Acquire
<1> QED
  BY <1>4 DEF StickyInv, IInv, LoadTypeOK

\* With the order of use in the invariant, the sessions carry themselves.
THEOREM SessionInvariance == Spec => []StickyInv
BY InitStickyInv, NextStickyInv, PTL DEF Spec

\* The actor's tables keep their shape; the cache never holds more entries than
\* max_cache_size, and no load count drops below zero.
THEOREM TypeCorrect == Spec => []TypeOK
<1>1. StickyInv => TypeOK
  BY DEF StickyInv
<1> QED
  BY <1>1, SessionInvariance, PTL

\* Docstring, "Sticky Session": a turn goes to the server of the one before as
\* long as that server stayed in the pool and fewer other conversations than
\* the cache has entries came in between, for any pool and any cache size.
THEOREM SessionsStick == Spec => SessionSticks
<1>1. ASSUME StickyInv, [Next]_vars
      PROVE  [\A r \in Requests :
                (at[r] = None /\ at'[r] # None /\ home[r] # None
                   /\ Cardinality(since[r]) < CacheSize) => at'[r] = home[r]]_vars
  BY <1>1, AcquireSticks
<1> QED
  BY <1>1, SessionInvariance, PTL DEF Spec, SessionSticks

=============================================================================
