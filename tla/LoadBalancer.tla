---------------------------- MODULE LoadBalancer ----------------------------
(***************************************************************************)
(* GlobalRequestLoadBalancer, the clients that acquire and release a       *)
(* server for every turn of a conversation, and the hybrid replicas that   *)
(* join the pool for a validation and leave it again.                      *)
(*                                                                         *)
(* A request id stands for a conversation: it has at most one turn at a    *)
(* server, and its releases reach the actor before its next acquire, since *)
(* both are calls of one client.  Other clients' calls come in between.    *)
(***************************************************************************)
EXTENDS Naturals, Sequences, FiniteSets

CONSTANTS
  Standalone,  \* servers of the rollout side, in the pool for good
  Hybrid,      \* servers on the trainer's GPUs, in the pool now and then
  Requests,    \* request ids
  CacheSize,   \* max_cache_size of the LRU cache
  MaxTurns,    \* bound on the turns of a conversation
  None

Servers == Standalone \cup Hybrid

ASSUME LoadBalancerAssumption ==
  /\ Standalone # {}
  /\ Standalone \cap Hybrid = {}
  /\ None \notin Servers
  /\ IsFiniteSet(Requests)
  /\ CacheSize \in Nat \ {0}
  /\ MaxTurns \in Nat

VARIABLES
  inflight,   \* _inflight_requests; its domain is the pool
  route,      \* _request_id_to_server, None where there is no entry
  recent,     \* the cached request ids, the most recently used last
  at,         \* the server of the turn a request has not released yet
  releasing,  \* requests whose turn is over and whose release is under way
  turns,      \* turns begun
  home,       \* history: server of the last turn, if it stayed in the pool
  since       \* history: other requests that acquired since the last turn

vars == <<inflight, route, recent, at, releasing, turns, home, since>>

Pool == DOMAIN inflight

\* __init__
Init ==
  /\ inflight = [s \in Standalone |-> 0]
  /\ route = [r \in Requests |-> None]
  /\ recent = <<>>
  /\ at = [r \in Requests |-> None]
  /\ releasing = {}
  /\ turns = [r \in Requests |-> 0]
  /\ home = [r \in Requests |-> None]
  /\ since = [r \in Requests |-> {}]

-----------------------------------------------------------------------------
\* acquire_server

LeastLoaded == {s \in Pool : \A o \in Pool : inflight[s] <= inflight[o]}

\* The sticky server while it is in the pool.  Among the least loaded the code
\* takes the first of its dict.
Candidates(r) == IF route[r] \in Pool THEN {route[r]} ELSE LeastLoaded

\* Mutant: a sticky turn is not counted.
AcquiredUncounted(r, s) ==
  IF route[r] = s THEN inflight ELSE [inflight EXCEPT ![s] = @ + 1]

Acquired(r, s) == [inflight EXCEPT ![s] = @ + 1]

Listed(r) == \E i \in DOMAIN recent : recent[i] = r

\* The other entries in their order, where r has one.
Without(r) ==
  LET i == CHOOSE i \in DOMAIN recent : recent[i] = r
  IN  [k \in 1 .. Len(recent) - 1 |-> recent[IF k < i THEN k ELSE k + 1]]

\* Mutant: a sticky turn only peeks at its entry.
TouchedFirst(r) == IF Listed(r) THEN recent ELSE Append(recent, r)

\* The sticky branch reads the entry, the other one sets it: a use either way,
\* which moves the entry to the end.
Touched(r) == Append(IF Listed(r) THEN Without(r) ELSE recent, r)

\* LRUCache.__setitem__: the least recently used entry makes room.
Cached(r) == IF Len(Touched(r)) > CacheSize THEN Tail(Touched(r)) ELSE Touched(r)

Acquire(r) ==
  /\ at[r] = None
  /\ turns[r] < MaxTurns
  /\ turns' = [turns EXCEPT ![r] = @ + 1]
  /\ \E s \in Candidates(r) :
       /\ inflight' = Acquired(r, s)
       /\ at' = [at EXCEPT ![r] = s]
       /\ recent' = Cached(r)
       /\ route' = [q \in Requests |->
            IF q = r THEN s
            ELSE IF \E i \in DOMAIN recent' : recent'[i] = q THEN route[q] ELSE None]
       /\ home' = [home EXCEPT ![r] = s]
  /\ since' = [q \in Requests |-> IF q = r THEN {} ELSE since[q] \cup {r}]
  /\ UNCHANGED releasing

-----------------------------------------------------------------------------
\* LLMServerClient.generate, release_server

\* The generation ends, is aborted or raises: the finally clause sends the
\* release and does not wait for it.
Finish(r) ==
  /\ at[r] # None
  /\ r \notin releasing
  /\ releasing' = releasing \cup {r}
  /\ UNCHANGED <<inflight, route, recent, at, turns, home, since>>

\* Mutant: off by one.
ReleasedLate(s) ==
  IF s \in Pool /\ inflight[s] > 1 THEN [inflight EXCEPT ![s] = @ - 1] ELSE inflight

\* Mutant: the count may become negative.
ReleasedUnguarded(s) ==
  IF s \in Pool THEN [inflight EXCEPT ![s] = @ - 1] ELSE inflight

\* The server may have left the pool, or left and come back, meanwhile.
Released(s) ==
  IF s \in Pool /\ inflight[s] > 0 THEN [inflight EXCEPT ![s] = @ - 1] ELSE inflight

Release(r) ==
  /\ r \in releasing
  /\ releasing' = releasing \ {r}
  /\ inflight' = Released(at[r])
  /\ at' = [at EXCEPT ![r] = None]
  /\ UNCHANGED <<route, recent, turns, home, since>>

-----------------------------------------------------------------------------
\* add_replicas and remove_replicas, with add_servers and remove_servers: a
\* validation takes all hybrid replicas at once.

AddHybrid ==
  /\ Hybrid # {}
  /\ Hybrid \cap Pool = {}
  /\ inflight' = [s \in Pool \cup Hybrid |-> IF s \in Hybrid THEN 0 ELSE inflight[s]]
  /\ UNCHANGED <<route, recent, at, releasing, turns, home, since>>

\* The entries of the cache that point to a removed server stay.
RemoveHybrid ==
  /\ Hybrid # {}
  /\ Hybrid \subseteq Pool
  /\ inflight' = [s \in Pool \ Hybrid |-> inflight[s]]
  /\ home' = [r \in Requests |-> IF home[r] \in Hybrid THEN None ELSE home[r]]
  /\ UNCHANGED <<route, recent, at, releasing, turns, since>>

Next ==
  \/ \E r \in Requests : Acquire(r) \/ Finish(r) \/ Release(r)
  \/ AddHybrid \/ RemoveHybrid

Spec == Init /\ [][Next]_vars

-----------------------------------------------------------------------------
\* Properties

\* The servers in the pool and the turns at them.
LoadTypeOK ==
  /\ Pool \in {Standalone, Servers}
  /\ inflight \in [Pool -> Nat]
  /\ at \in [Requests -> Servers \cup {None}]
  /\ releasing \subseteq {r \in Requests : at[r] # None}

TypeOK ==
  /\ LoadTypeOK
  /\ route \in [Requests -> Servers \cup {None}]
  /\ recent \in Seq(Requests) /\ Len(recent) <= CacheSize
  /\ turns \in [Requests -> 0 .. MaxTurns]
  /\ home \in [Requests -> Servers \cup {None}]
  /\ since \in [Requests -> SUBSET Requests]

\* The requests whose turn is at s, those whose release is under way included.
At(s) == {r \in Requests : at[r] = s}

\* No release is lost for good (release_server ignores a server that is not in
\* the pool, add_servers starts at 0): no server looks busier than it is, so
\* none is starved of new conversations by turns that are over.
LoadNotLeaked == \A s \in Pool : inflight[s] <= Cardinality(At(s))

\* For a server that never leaves the pool the count is exact, whatever hybrid
\* servers come and go and whichever releases are late.
StandaloneExact == \A s \in Standalone : s \in Pool /\ inflight[s] = Cardinality(At(s))

\* Docstring, "Sticky Session": a turn goes to the server of the previous turn
\* if that server stayed in the pool, until as many other conversations as the
\* cache has entries came in between.
SessionSticks ==
  [][\A r \in Requests :
       (at[r] = None /\ at'[r] # None /\ home[r] # None /\ Cardinality(since[r]) < CacheSize)
         => at'[r] = home[r]]_vars

=============================================================================
