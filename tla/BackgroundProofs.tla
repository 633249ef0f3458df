-------------------------- MODULE BackgroundProofs --------------------------
(***************************************************************************)
(* The background pass, for every number of functions, workers and batch   *)
(* sizes: types, no function decompiled twice, and a completed pass that   *)
(* nobody cancelled has published every function.                          *)
(***************************************************************************)
EXTENDS BackgroundDecompile, AnalysisProofs

LEMMA HeldFacts ==
    ASSUME PassTypeOK, NEW r \in Runs, NEW w \in Workers
    PROVE  /\ Held(r, w) \in CacheMaps
           /\ DOMAIN Held(r, w) =
                 DOMAIN batch[r][w] \cup (IF claim[r][w] \in Opaque THEN {} ELSE {claim[r][w]})
           /\ OwnBodies(r) => \A f \in DOMAIN Held(r, w) : Held(r, w)[f].run = r
<1>1. batch[r][w] \in CacheMaps /\ claim[r][w] \in Funcs
  BY DEF PassTypeOK, PoolTypeOK
<1>2. Decompiled(r, claim[r][w]) \in Body /\ Decompiled(r, claim[r][w]).run = r
  BY <1>1, DecompiledIsBody DEF PassTypeOK
<1>3. CASE claim[r][w] \in Opaque
  BY <1>1, <1>3 DEF Held, OwnBodies
<1>4. CASE claim[r][w] \notin Opaque
  <2> DEFINE h == Insert(batch[r][w], claim[r][w], Decompiled(r, claim[r][w]))
  <2>1. Held(r, w) = h
    BY <1>4 DEF Held
  <2>2. /\ h \in CacheMaps
        /\ DOMAIN h = DOMAIN batch[r][w] \cup {claim[r][w]}
        /\ h[claim[r][w]] = Decompiled(r, claim[r][w])
        /\ \A g \in DOMAIN batch[r][w] : g # claim[r][w] => h[g] = batch[r][w][g]
    BY <1>1, <1>2, InsertFacts
  <2>3. OwnBodies(r) => \A f \in DOMAIN h : h[f].run = r
    BY <1>2, <2>2 DEF OwnBodies
  <2> HIDE DEF h
  <2> QED BY <1>4, <2>1, <2>2, <2>3
<1> QED BY <1>3, <1>4

-----------------------------------------------------------------------------
(* Type correctness.                                                       *)

LEMMA PassTypeInit == PassInit => PassTypeOK
<1>1. 0 \in Funcs
  BY TotalAssumption DEF Funcs
<1> QED
  BY <1>1, SharedInitType, EmptyIsCache
  DEF PassInit, PoolInit, PassTypeOK, PoolTypeOK, PassStates, WorkerStates

\* A cell of a table of workers, written: MoveWorker, claim and batch.
LEMMA CellUpdate ==
    ASSUME NEW S, NEW t \in [Runs -> [Workers -> S]],
           NEW r \in Runs, NEW w \in Workers, NEW x \in S
    PROVE  LET u == [t EXCEPT ![r][w] = x]
           IN  /\ u \in [Runs -> [Workers -> S]]
               /\ u[r][w] = x
               /\ \A v \in Workers \ {w} : u[r][v] = t[r][v]
               /\ \A s \in Runs \ {r} : u[s] = t[s]
  OBVIOUS

LEMMA MoveFacts ==
    ASSUME PassTypeOK, NEW r \in Runs, NEW w \in Workers, NEW s \in WorkerStates,
           MoveWorker(r, w, s)
    PROVE  /\ wpc' \in [Runs -> [Workers -> WorkerStates]]
           /\ wpc'[r][w] = s
           /\ \A v \in Workers \ {w} : wpc'[r][v] = wpc[r][v]
           /\ \A q \in Runs \ {r} : wpc'[q] = wpc[q]
<1>1. wpc \in [Runs -> [Workers -> WorkerStates]]
  BY DEF PassTypeOK, PoolTypeOK
<1> QED BY <1>1, CellUpdate DEF MoveWorker

LEMMA BatchFacts ==
    ASSUME PassTypeOK, NEW r \in Runs, NEW w \in Workers, NEW b \in CacheMaps,
           batch' = [batch EXCEPT ![r][w] = b]
    PROVE  /\ batch' \in [Runs -> [Workers -> CacheMaps]]
           /\ batch'[r][w] = b
           /\ \A v \in Workers \ {w} : batch'[r][v] = batch[r][v]
           /\ \A q \in Runs \ {r} : batch'[q] = batch[q]
<1>1. batch \in [Runs -> [Workers -> CacheMaps]]
  BY DEF PassTypeOK, PoolTypeOK
<1> QED BY <1>1, CellUpdate

LEMMA CursorFacts ==
    ASSUME PassTypeOK, NEW r \in Runs
    PROVE  /\ next[r] \in Nat /\ done[r] \in Nat
           /\ [next EXCEPT ![r] = @ + 1] \in [Runs -> Nat]
           /\ [done EXCEPT ![r] = @ + 1] \in [Runs -> Nat]
           /\ next[r] < Total => next[r] \in Funcs
  BY TotalAssumption DEF PassTypeOK, PoolTypeOK, Funcs

LEMMA DecompileMoves ==
    ASSUME NEW r, NEW w, Decompile(r, w)
    PROVE  MoveWorker(r, w, "publish") \/ MoveWorker(r, w, "loop")
<1> DEFINE s == IF Cardinality(DOMAIN Held(r, w)) >= BatchCap THEN "publish" ELSE "loop"
<1>1. MoveWorker(r, w, s)
  BY DEF Decompile
<1>2. s = "publish" \/ s = "loop"
  OBVIOUS
<1> HIDE DEF s
<1>3. CASE s = "publish"
  BY <1>1, <1>3
<1>4. CASE s = "loop"
  BY <1>1, <1>4
<1> QED BY <1>2, <1>3, <1>4

LEMMA PassTypeStep ==
    ASSUME PassTypeOK, [PassNext]_PassVars
    PROVE  PassTypeOK'
<1> USE DEF sharedVars
<1>1. ASSUME NEW r \in Runs, StartPass(r) PROVE PassTypeOK'
  BY <1>1 DEF StartPass, PassTypeOK, SharedTypeOK, PoolTypeOK, PassStates
<1>2. ASSUME NEW r \in Runs, NEW w \in Workers, SpawnWorker(r, w) \/ SpawnFails(r, w)
      PROVE  PassTypeOK'
  <2>1. MoveWorker(r, w, "loop") \/ MoveWorker(r, w, "failed")
    BY <1>2 DEF SpawnWorker, SpawnFails
  <2>2. wpc' \in [Runs -> [Workers -> WorkerStates]]
    BY <2>1, MoveFacts DEF WorkerStates
  <2>3. UNCHANGED <<sharedVars, pass, next, done, claim, batch>>
    BY <1>2 DEF SpawnWorker, SpawnFails
  <2> QED BY <2>2, <2>3 DEF PassTypeOK, SharedTypeOK, PoolTypeOK
<1>3. ASSUME NEW r \in Runs, AllSpawned(r) \/ StopReporting(r) PROVE PassTypeOK'
  BY <1>3 DEF AllSpawned, StopReporting, PassTypeOK, SharedTypeOK, PoolTypeOK, PassStates
<1>4. ASSUME NEW r \in Runs, Complete(r) PROVE PassTypeOK'
  BY <1>4 DEF Complete, Events, PassTypeOK, SharedTypeOK, PoolTypeOK, PassStates
<1>5. ASSUME NEW r \in Runs, CancelPass(r) PROVE PassTypeOK'
  BY <1>5 DEF CancelPass, poolVars, PassTypeOK, SharedTypeOK, PoolTypeOK
<1>6. ASSUME NEW r \in Runs, NEW w \in Workers, Claim(r, w) PROVE PassTypeOK'
  <2>1. next' \in [Runs -> Nat] /\ UNCHANGED <<sharedVars, pass, done, batch>>
    BY <1>6, CursorFacts DEF Claim
  <2>2. MoveWorker(r, w, "drain") \/ MoveWorker(r, w, "decompile")
    BY <1>6 DEF Claim
  <2>3. wpc' \in [Runs -> [Workers -> WorkerStates]]
    BY <2>2, MoveFacts DEF WorkerStates
  <2>4. claim \in [Runs -> [Workers -> Funcs]]
    BY DEF PassTypeOK, PoolTypeOK
  <2>5. claim' = claim \/ (next[r] < Total /\ claim' = [claim EXCEPT ![r][w] = next[r]])
    BY <1>6, CursorFacts, TotalAssumption DEF Claim
  <2>6. claim' \in [Runs -> [Workers -> Funcs]]
    <3>1. ASSUME next[r] < Total PROVE [claim EXCEPT ![r][w] = next[r]] \in [Runs -> [Workers -> Funcs]]
      <4>1. next[r] \in Funcs
        BY <3>1, CursorFacts
      <4> QED BY <2>4, <4>1, CellUpdate
    <3> QED BY <2>4, <2>5, <3>1
  <2> QED BY <2>1, <2>3, <2>6 DEF PassTypeOK, SharedTypeOK, PoolTypeOK
<1>7. ASSUME NEW r \in Runs, NEW w \in Workers, Decompile(r, w) PROVE PassTypeOK'
  <2>1. batch' \in [Runs -> [Workers -> CacheMaps]]
    BY <1>7, HeldFacts, BatchFacts DEF Decompile
  <2>2. MoveWorker(r, w, "publish") \/ MoveWorker(r, w, "loop")
    BY <1>7, DecompileMoves
  <2>3. wpc' \in [Runs -> [Workers -> WorkerStates]]
    BY <2>2, MoveFacts DEF WorkerStates
  <2>4. done' \in [Runs -> Nat] /\ UNCHANGED <<sharedVars, pass, next, claim>>
    BY <1>7, CursorFacts DEF Decompile
  <2> QED BY <2>1, <2>3, <2>4 DEF PassTypeOK, SharedTypeOK, PoolTypeOK
<1>8. ASSUME NEW r \in Runs, NEW w \in Workers, Publish(r, w) \/ Drain(r, w) PROVE PassTypeOK'
  <2>1. batch[r][w] \in CacheMaps /\ cache \in CacheMaps
    BY DEF PassTypeOK, PoolTypeOK, SharedTypeOK
  <2>2. cache' = Merge(cache, batch[r][w]) /\ batch' = [batch EXCEPT ![r][w] = EmptyMap]
    BY <1>8 DEF Publish, Drain
  <2>3. cache' \in CacheMaps
    BY <2>1, <2>2, MergeFacts
  <2>4. batch' \in [Runs -> [Workers -> CacheMaps]]
    BY <2>2, BatchFacts, EmptyIsCache
  <2>5. MoveWorker(r, w, "exited") \/ MoveWorker(r, w, "loop")
    BY <1>8 DEF Publish, Drain
  <2>6. wpc' \in [Runs -> [Workers -> WorkerStates]]
    BY <2>5, MoveFacts DEF WorkerStates
  <2>7. UNCHANGED <<pass, next, done, claim, token, cancelled, view, types, env, events>>
    BY <1>8 DEF Publish, Drain
  <2> QED BY <2>3, <2>4, <2>6, <2>7 DEF PassTypeOK, SharedTypeOK, PoolTypeOK
<1>9. CASE UNCHANGED PassVars
  BY <1>9 DEF PassVars, poolVars, PassTypeOK, SharedTypeOK, PoolTypeOK
<1> QED
  BY <1>1, <1>2, <1>3, <1>4, <1>5, <1>6, <1>7, <1>8, <1>9 DEF PassNext, PassStep, WorkerStep

\* Every value of the pass has its type: in particular what is published are
\* bodies of functions of the run.
THEOREM PassTypeCorrect == PassSpec => []PassTypeOK
  BY PassTypeInit, PassTypeStep, PTL DEF PassSpec

-----------------------------------------------------------------------------
(***************************************************************************)
(* PoolInv is inductive.  A step of one run leaves the tables of the other *)
(* runs alone; it may only add to the cache, and only its own bodies.      *)
(***************************************************************************)
OwnAdditions(r) ==
    /\ DOMAIN cache \subseteq DOMAIN cache'
    /\ \A f \in DOMAIN cache' : cache'[f].run = r => f \in DOMAIN cache /\ cache[f].run = r

TablesKept(r) ==
    /\ next'[r] = next[r] /\ done'[r] = done[r]
    /\ wpc'[r] = wpc[r] /\ claim'[r] = claim[r] /\ batch'[r] = batch[r]
    /\ cancelled[r] => cancelled'[r]
    /\ OwnAdditions(r)

LEMMA SameCache == ASSUME NEW r, cache' = cache PROVE OwnAdditions(r)
  BY DEF OwnAdditions

LEMMA SameHand ==
    ASSUME NEW r, NEW w, wpc'[r][w] = wpc[r][w], claim'[r][w] = claim[r][w],
           batch'[r][w] = batch[r][w]
    PROVE  InHand(r, w)' = InHand(r, w)
  BY DEF InHand

LEMMA KeptTables ==
    ASSUME NEW r \in Runs, WorkersInvAt(r), TablesKept(r)
    PROVE  WorkersInvAt(r)'
<1>1. \A w \in Workers : InHand(r, w)' = InHand(r, w)
  BY SameHand DEF TablesKept
<1>2. \A f \in PublishedBy(r)' : f \in PublishedBy(r)
  BY DEF TablesKept, OwnAdditions, PublishedBy
<1>3. OnceIn(r)'
  BY <1>1, <1>2 DEF WorkersInvAt, OnceIn, TablesKept
<1>4. BelowCursor(r)'
  BY <1>1, <1>2 DEF WorkersInvAt, BelowCursor, TablesKept
<1>5. OwnBodies(r)' /\ ParkedIsEmpty(r)' /\ StopsAtTheEnd(r)' /\ SomebodyCounted(r)'
  BY DEF WorkersInvAt, OwnBodies, ParkedIsEmpty, StopsAtTheEnd, SomebodyCounted, TablesKept
<1>6. NothingLost(r)'
  BY <1>1 DEF WorkersInvAt, NothingLost, TablesKept, OwnAdditions
<1> QED BY <1>3, <1>4, <1>5, <1>6 DEF WorkersInvAt

LEMMA Untouched ==
    ASSUME NEW r \in Runs, PoolInvAt(r), TablesKept(r), pass'[r] = pass[r], events'[r] = events[r]
    PROVE  PoolInvAt(r)'
<1>1. WorkersInvAt(r)'
  BY KeptTables DEF PoolInvAt
<1>2. JoinsWhenCounted(r)' /\ CompleteAt(r)'
  BY DEF PoolInvAt, JoinsWhenCounted, CompleteAt, TablesKept, OwnAdditions
<1> QED BY <1>1, <1>2 DEF PoolInvAt

-----------------------------------------------------------------------------
(* What a step of run r does to PoolInvAt(r), one lemma per group of       *)
(* actions.                                                                *)

LEMMA SpawnStep ==
    ASSUME PassTypeOK, NEW r \in Runs, NEW w \in Workers, PoolInvAt(r),
           SpawnWorker(r, w) \/ SpawnFails(r, w)
    PROVE  PoolInvAt(r)'
<1>1. PICK s \in {"loop", "failed"} : MoveWorker(r, w, s)
  BY DEF SpawnWorker, SpawnFails
<1>2. /\ wpc[r][w] = "unspawned"
      /\ wpc'[r][w] = s
      /\ \A v \in Workers \ {w} : wpc'[r][v] = wpc[r][v]
  BY <1>1, MoveFacts DEF SpawnWorker, SpawnFails, WorkerStates
<1>3. UNCHANGED <<pass, next, done, claim, batch, cancelled, cache, events>>
  BY DEF SpawnWorker, SpawnFails, sharedVars
<1>4. \A v \in Workers : InHand(r, v)' = InHand(r, v)
  BY <1>2, <1>3 DEF InHand
<1>5. PublishedBy(r)' = PublishedBy(r)
  BY <1>3 DEF PublishedBy
<1>6. OnceIn(r)' /\ BelowCursor(r)'
  BY <1>2, <1>3, <1>4, <1>5 DEF PoolInvAt, WorkersInvAt, OnceIn, BelowCursor
<1>7. OwnBodies(r)' /\ ParkedIsEmpty(r)' /\ StopsAtTheEnd(r)' /\ SomebodyCounted(r)'
  BY <1>2, <1>3
  DEF PoolInvAt, WorkersInvAt, OwnBodies, ParkedIsEmpty, StopsAtTheEnd, SomebodyCounted, Parked
<1>8. NothingLost(r)'
  BY <1>3, <1>4 DEF PoolInvAt, WorkersInvAt, NothingLost
<1>9. JoinsWhenCounted(r)' /\ CompleteAt(r)'
  BY <1>3 DEF PoolInvAt, JoinsWhenCounted, CompleteAt
<1> QED BY <1>6, <1>7, <1>8, <1>9 DEF PoolInvAt, WorkersInvAt

\* The steps that touch no table: the pass thread's, and a cancel.
LEMMA PassThreadStep ==
    ASSUME PassTypeOK, NEW r \in Runs, PoolInvAt(r),
           StartPass(r) \/ AllSpawned(r) \/ StopReporting(r) \/ CancelPass(r)
    PROVE  PoolInvAt(r)'
<1>1. UNCHANGED <<next, done, wpc, claim, batch, cache, events>>
  BY DEF StartPass, AllSpawned, StopReporting, CancelPass, sharedVars, poolVars
<1>2. cancelled[r] => cancelled'[r]
  BY DEF StartPass, AllSpawned, StopReporting, CancelPass, sharedVars, PassTypeOK, SharedTypeOK
<1>3. WorkersInvAt(r)'
  BY <1>1, <1>2, KeptTables, SameCache DEF TablesKept, PoolInvAt
<1>4. CompleteAt(r)'
  BY <1>1, <1>2 DEF PoolInvAt, CompleteAt
<1>5. pass \in [Runs -> PassStates]
  BY DEF PassTypeOK, PoolTypeOK
<1>6. pass'[r] = "joining" => pass[r] = "joining" \/ done[r] >= Total \/ cancelled[r]
  BY <1>5 DEF StartPass, AllSpawned, StopReporting, CancelPass, poolVars
<1>7. JoinsWhenCounted(r)'
  BY <1>1, <1>2, <1>6 DEF PoolInvAt, JoinsWhenCounted
<1> QED BY <1>3, <1>4, <1>7 DEF PoolInvAt

\* The join: every worker is parked, so nothing is in a hand any more; a
\* count that reached Total is the work of a worker that has exited, and it
\* exited at the end of the cursor.
LEMMA CompleteStep ==
    ASSUME PassTypeOK, NEW r \in Runs, PoolInvAt(r), Complete(r)
    PROVE  PoolInvAt(r)'
<1>1. UNCHANGED <<next, done, wpc, claim, batch, cache, cancelled>>
  BY DEF Complete
<1>2. WorkersInvAt(r)'
  BY <1>1, KeptTables, SameCache DEF TablesKept, PoolInvAt
<1>3. JoinsWhenCounted(r)'
  <2>1. pass'[r] = "complete"
    BY DEF Complete, PassTypeOK, PoolTypeOK
  <2> QED BY <2>1 DEF JoinsWhenCounted
<1>4. ASSUME ~cancelled[r], NEW f \in Funcs \ Opaque PROVE f \in DOMAIN cache
  <2>1. done[r] > 0
    BY <1>4, CursorFacts, TotalAssumption DEF Complete, PoolInvAt, JoinsWhenCounted
  <2>2. PICK v \in Workers : wpc[r][v] = "exited"
    BY <2>1 DEF Complete, PoolInvAt, WorkersInvAt, SomebodyCounted
  <2>3. f < next[r]
    BY <1>4, <2>2, CursorFacts, TotalAssumption
    DEF PoolInvAt, WorkersInvAt, StopsAtTheEnd, Funcs
  <2>4. \A w \in Workers : InHand(r, w) = {}
    BY DEF Complete, PoolInvAt, WorkersInvAt, ParkedIsEmpty, Parked, InHand
  <2> QED BY <1>4, <2>3, <2>4 DEF PoolInvAt, WorkersInvAt, NothingLost
<1>5. CompleteAt(r)'
  BY <1>1, <1>4 DEF CompleteAt
<1> QED BY <1>2, <1>3, <1>5 DEF PoolInvAt

\* The cursor's old value is in nobody's hand and was never published, so
\* the claim keeps the hands apart.
LEMMA ClaimStep ==
    ASSUME PassTypeOK, NEW r \in Runs, NEW w \in Workers, PoolInvAt(r), Claim(r, w)
    PROVE  PoolInvAt(r)'
<1>1. UNCHANGED <<pass, done, batch, cancelled, cache, events>> /\ wpc[r][w] = "loop"
  BY DEF Claim, sharedVars
<1>2. next'[r] = next[r] + 1 /\ next[r] \in Nat
  BY CursorFacts DEF Claim, PassTypeOK, PoolTypeOK
<1>3. InHand(r, w) = DOMAIN batch[r][w]
  BY <1>1 DEF InHand
<1>4. PublishedBy(r)' = PublishedBy(r)
  BY <1>1 DEF PublishedBy
<1>5. PICK s \in {"drain", "decompile"} :
        /\ MoveWorker(r, w, s)
        /\ s = "drain" => (next[r] >= Total \/ cancelled[r]) /\ claim' = claim
        /\ s = "decompile" => claim' = [claim EXCEPT ![r][w] = next[r]] /\ next[r] < Total
  BY <1>2, TotalAssumption DEF Claim
<1>6. wpc'[r][w] = s /\ \A v \in Workers \ {w} : wpc'[r][v] = wpc[r][v]
  BY <1>5, MoveFacts DEF WorkerStates
<1>7. /\ \A v \in Workers \ {w} : claim'[r][v] = claim[r][v]
      /\ s = "decompile" => claim'[r][w] = next[r]
  <2>1. claim \in [Runs -> [Workers -> Funcs]]
    BY DEF PassTypeOK, PoolTypeOK
  <2> QED BY <1>5, <2>1
<1>8. \A v \in Workers \ {w} : InHand(r, v)' = InHand(r, v)
  BY <1>1, <1>6, <1>7, SameHand
<1>9. InHand(r, w)' = InHand(r, w) \cup (IF s = "decompile" THEN {next[r]} ELSE {})
  BY <1>1, <1>3, <1>6, <1>7 DEF InHand
<1>10. /\ \A v \in Workers : next[r] \notin InHand(r, v)
       /\ next[r] \notin PublishedBy(r)
  BY <1>2 DEF PoolInvAt, WorkersInvAt, BelowCursor
<1>11. OnceIn(r)'
  <2>1. \A u \in Workers : \A v \in Workers \ {u} : InHand(r, v)' \cap InHand(r, u)' = {}
    BY <1>8, <1>9, <1>10 DEF PoolInvAt, WorkersInvAt, OnceIn
  <2>2. \A u \in Workers : wpc'[r][u] = "decompile" => claim'[r][u] \notin DOMAIN batch'[r][u]
    BY <1>1, <1>3, <1>6, <1>7, <1>10 DEF PoolInvAt, WorkersInvAt, OnceIn
  <2>3. \A u \in Workers : InHand(r, u)' \cap PublishedBy(r)' = {}
    BY <1>4, <1>8, <1>9, <1>10 DEF PoolInvAt, WorkersInvAt, OnceIn
  <2> QED BY <2>1, <2>2, <2>3 DEF OnceIn
<1>12. BelowCursor(r)'
  <2>1. \A v \in Workers : InHand(r, v) \subseteq Nat
    BY CacheMapParts, TotalAssumption DEF InHand, PassTypeOK, PoolTypeOK, Funcs
  <2>2. PublishedBy(r) \subseteq Nat
    BY CacheMapParts, TotalAssumption DEF PublishedBy, PassTypeOK, SharedTypeOK, Funcs
  <2>3. \A v \in Workers : \A f \in InHand(r, v)' : f < next'[r]
    BY <1>2, <1>8, <1>9, <2>1 DEF PoolInvAt, WorkersInvAt, BelowCursor
  <2>4. \A f \in PublishedBy(r)' : f < next'[r]
    BY <1>2, <1>4, <2>2 DEF PoolInvAt, WorkersInvAt, BelowCursor
  <2> QED BY <2>3, <2>4 DEF BelowCursor
<1>13. OwnBodies(r)' /\ ParkedIsEmpty(r)' /\ SomebodyCounted(r)'
  BY <1>1, <1>6 DEF PoolInvAt, WorkersInvAt, OwnBodies, ParkedIsEmpty, SomebodyCounted, Parked
<1>14. StopsAtTheEnd(r)'
  BY <1>1, <1>2, <1>5, <1>6, TotalAssumption DEF PoolInvAt, WorkersInvAt, StopsAtTheEnd
<1>15. NothingLost(r)'
  <2>1. ASSUME ~cancelled[r], NEW f \in Funcs \ Opaque, f < next'[r]
        PROVE  f \in DOMAIN cache \/ \E v \in Workers : f \in InHand(r, v)'
    <3>1. CASE f < next[r]
      BY <1>8, <1>9, <2>1, <3>1 DEF PoolInvAt, WorkersInvAt, NothingLost
    <3>2. CASE ~(f < next[r])
      <4>1. f = next[r] /\ f < Total
        BY <1>2, <2>1, <3>2, TotalAssumption DEF Funcs
      <4>2. s = "decompile"
        BY <1>2, <1>5, <2>1, <4>1, TotalAssumption
      <4> QED BY <1>9, <4>1, <4>2
    <3> QED BY <3>1, <3>2
  <2> QED BY <1>1, <2>1 DEF NothingLost
<1>16. JoinsWhenCounted(r)' /\ CompleteAt(r)'
  BY <1>1 DEF PoolInvAt, JoinsWhenCounted, CompleteAt
<1> QED BY <1>11, <1>12, <1>13, <1>14, <1>15, <1>16 DEF PoolInvAt, WorkersInvAt

\* A decompilation moves the claim into the batch (or nowhere, if the engine
\* returned no body): the worker's hand gains nothing and loses nothing that
\* has a body.
LEMMA DecompileStep ==
    ASSUME PassTypeOK, NEW r \in Runs, NEW w \in Workers, PoolInvAt(r), Decompile(r, w)
    PROVE  PoolInvAt(r)'
<1>1. UNCHANGED <<pass, next, claim, cancelled, cache, events>> /\ wpc[r][w] = "decompile"
  BY DEF Decompile, sharedVars
<1>2. done'[r] = done[r] + 1 /\ done[r] \in Nat
  BY CursorFacts DEF Decompile, PassTypeOK, PoolTypeOK
<1>3. PICK s \in {"publish", "loop"} : MoveWorker(r, w, s)
  BY DecompileMoves
<1>4. wpc'[r][w] = s /\ \A v \in Workers \ {w} : wpc'[r][v] = wpc[r][v]
  BY <1>3, MoveFacts DEF WorkerStates
<1>5. batch'[r][w] = Held(r, w) /\ \A v \in Workers \ {w} : batch'[r][v] = batch[r][v]
  <2> DEFINE held == Held(r, w)
  <2>1. held \in CacheMaps
    BY HeldFacts
  <2>2. batch' = [batch EXCEPT ![r][w] = held]
    BY DEF Decompile
  <2> HIDE DEF held
  <2>3. batch'[r][w] = held /\ \A v \in Workers \ {w} : batch'[r][v] = batch[r][v]
    BY <2>1, <2>2, BatchFacts
  <2> QED BY <2>3 DEF held
<1>6. /\ InHand(r, w) = DOMAIN batch[r][w] \cup {claim[r][w]}
      /\ InHand(r, w)' = DOMAIN Held(r, w)
  <2>1. s # "decompile" /\ "decompile" \notin {"publish", "loop"}
    OBVIOUS
  <2>2. wpc'[r][w] # "decompile" /\ batch'[r][w] = Held(r, w)
    BY <1>4, <1>5, <2>1
  <2> QED BY <1>1, <2>2 DEF InHand
<1>7. /\ InHand(r, w)' \subseteq InHand(r, w)
      /\ \A f \in InHand(r, w) : f \notin Opaque => f \in InHand(r, w)'
  <2>1. DOMAIN Held(r, w) =
          DOMAIN batch[r][w] \cup (IF claim[r][w] \in Opaque THEN {} ELSE {claim[r][w]})
    BY HeldFacts
  <2> QED BY <1>6, <2>1
<1>8. \A v \in Workers \ {w} : InHand(r, v)' = InHand(r, v)
  BY <1>1, <1>4, <1>5, SameHand
<1>9. PublishedBy(r)' = PublishedBy(r)
  BY <1>1 DEF PublishedBy
<1>10. OnceIn(r)'
  <2>1. \A u \in Workers : \A v \in Workers \ {u} : InHand(r, v)' \cap InHand(r, u)' = {}
    BY <1>7, <1>8 DEF PoolInvAt, WorkersInvAt, OnceIn
  <2>2. \A u \in Workers : wpc'[r][u] = "decompile" => claim'[r][u] \notin DOMAIN batch'[r][u]
    BY <1>1, <1>4, <1>5 DEF PoolInvAt, WorkersInvAt, OnceIn
  <2>3. \A u \in Workers : InHand(r, u)' \cap PublishedBy(r)' = {}
    BY <1>7, <1>8, <1>9 DEF PoolInvAt, WorkersInvAt, OnceIn
  <2> QED BY <2>1, <2>2, <2>3 DEF OnceIn
<1>11. BelowCursor(r)'
  <2>1. \A v \in Workers : \A f \in InHand(r, v)' : f \in InHand(r, v)
    BY <1>7, <1>8
  <2> QED BY <1>1, <1>9, <2>1 DEF PoolInvAt, WorkersInvAt, BelowCursor
<1>12. OwnBodies(r)'
  <2>1. OwnBodies(r)
    BY DEF PoolInvAt, WorkersInvAt
  <2>2. \A f \in DOMAIN Held(r, w) : Held(r, w)[f].run = r
    BY <2>1, HeldFacts
  <2> QED BY <1>5, <2>1, <2>2 DEF OwnBodies
<1>13. ParkedIsEmpty(r)' /\ StopsAtTheEnd(r)'
  BY <1>1, <1>4, <1>5 DEF PoolInvAt, WorkersInvAt, ParkedIsEmpty, StopsAtTheEnd, Parked
<1>14. SomebodyCounted(r)'
  BY <1>4 DEF SomebodyCounted
<1>15. NothingLost(r)'
  BY <1>1, <1>7, <1>8 DEF PoolInvAt, WorkersInvAt, NothingLost
<1>16. JoinsWhenCounted(r)' /\ CompleteAt(r)'
  BY <1>1, <1>2, TotalAssumption DEF PoolInvAt, JoinsWhenCounted, CompleteAt
<1> QED BY <1>10, <1>11, <1>12, <1>13, <1>14, <1>15, <1>16 DEF PoolInvAt, WorkersInvAt

\* What the cache holds after Publish or Drain.
LEMMA PublishedFacts ==
    ASSUME PassTypeOK, NEW r \in Runs, NEW w \in Workers, OwnBodies(r),
           Publish(r, w) \/ Drain(r, w)
    PROVE  /\ DOMAIN cache' = DOMAIN cache \cup DOMAIN batch[r][w]
           /\ PublishedBy(r)' \subseteq PublishedBy(r) \cup DOMAIN batch[r][w]
           /\ \A q \in Runs \ {r} : OwnAdditions(q)
<1>1. batch[r][w] \in CacheMaps /\ cache \in CacheMaps
  BY DEF PassTypeOK, PoolTypeOK, SharedTypeOK
<1>2. cache' = Merge(cache, batch[r][w])
  BY DEF Publish, Drain
<1>3. /\ DOMAIN cache' = DOMAIN cache \cup DOMAIN batch[r][w]
      /\ \A f \in DOMAIN batch[r][w] : cache'[f] = batch[r][w][f]
      /\ \A f \in DOMAIN cache \ DOMAIN batch[r][w] : cache'[f] = cache[f]
  BY <1>1, <1>2, MergeFacts
<1>4. \A f \in DOMAIN batch[r][w] : cache'[f].run = r
  BY <1>3 DEF OwnBodies
<1>5. PublishedBy(r)' \subseteq PublishedBy(r) \cup DOMAIN batch[r][w]
  BY <1>3 DEF PublishedBy
<1>6. ASSUME NEW q \in Runs \ {r} PROVE OwnAdditions(q)
  BY <1>3, <1>4 DEF OwnAdditions
<1> QED BY <1>3, <1>5, <1>6

LEMMA PublishStep ==
    ASSUME PassTypeOK, NEW r \in Runs, NEW w \in Workers, PoolInvAt(r),
           Publish(r, w) \/ Drain(r, w)
    PROVE  PoolInvAt(r)'
<1>1. UNCHANGED <<pass, next, done, claim, cancelled, events>>
  BY DEF Publish, Drain
<1>2. PICK s \in {"loop", "exited"} :
        MoveWorker(r, w, s) /\ (s = "exited" => wpc[r][w] = "drain")
  BY DEF Publish, Drain
<1>3. /\ wpc[r][w] \in {"publish", "drain"} /\ wpc'[r][w] = s
      /\ \A v \in Workers \ {w} : wpc'[r][v] = wpc[r][v]
  BY <1>2, MoveFacts DEF WorkerStates, Publish, Drain
<1>4. /\ batch'[r][w] = EmptyMap /\ DOMAIN EmptyMap = {}
      /\ \A v \in Workers \ {w} : batch'[r][v] = batch[r][v]
  BY EmptyIsCache, BatchFacts DEF Publish, Drain
<1>5. InHand(r, w) = DOMAIN batch[r][w] /\ InHand(r, w)' = {}
  BY <1>3, <1>4 DEF InHand
<1>6. \A v \in Workers \ {w} : InHand(r, v)' = InHand(r, v)
  BY <1>1, <1>3, <1>4, SameHand
<1>7. /\ DOMAIN cache' = DOMAIN cache \cup InHand(r, w)
      /\ PublishedBy(r)' \subseteq PublishedBy(r) \cup InHand(r, w)
  BY <1>5, PublishedFacts DEF PoolInvAt, WorkersInvAt
<1>8. OnceIn(r)'
  <2>1. \A u \in Workers : \A v \in Workers \ {u} : InHand(r, v)' \cap InHand(r, u)' = {}
    BY <1>5, <1>6 DEF PoolInvAt, WorkersInvAt, OnceIn
  <2>2. \A u \in Workers : wpc'[r][u] = "decompile" => claim'[r][u] \notin DOMAIN batch'[r][u]
    BY <1>1, <1>3, <1>4 DEF PoolInvAt, WorkersInvAt, OnceIn
  <2>3. \A u \in Workers : InHand(r, u)' \cap PublishedBy(r)' = {}
    BY <1>5, <1>6, <1>7 DEF PoolInvAt, WorkersInvAt, OnceIn
  <2> QED BY <2>1, <2>2, <2>3 DEF OnceIn
<1>9. BelowCursor(r)'
  BY <1>1, <1>5, <1>6, <1>7 DEF PoolInvAt, WorkersInvAt, BelowCursor
<1>10. OwnBodies(r)' /\ ParkedIsEmpty(r)' /\ StopsAtTheEnd(r)'
  BY <1>1, <1>2, <1>3, <1>4
  DEF PoolInvAt, WorkersInvAt, OwnBodies, ParkedIsEmpty, StopsAtTheEnd, Parked
<1>11. SomebodyCounted(r)'
  BY <1>1, <1>3 DEF PoolInvAt, WorkersInvAt, SomebodyCounted
<1>12. NothingLost(r)'
  BY <1>1, <1>6, <1>7 DEF PoolInvAt, WorkersInvAt, NothingLost
<1>13. JoinsWhenCounted(r)' /\ CompleteAt(r)'
  BY <1>1, <1>7 DEF PoolInvAt, JoinsWhenCounted, CompleteAt
<1> QED BY <1>8, <1>9, <1>10, <1>11, <1>12, <1>13 DEF PoolInvAt, WorkersInvAt

-----------------------------------------------------------------------------
(* A step of run r disturbs no other run.                                  *)

LEMMA OthersUntouched ==
    ASSUME PassTypeOK, NEW r \in Runs, OwnBodies(r),
           NEW q \in Runs \ {r},
           \/ StartPass(r) \/ PassStep(r) \/ CancelPass(r)
           \/ \E w \in Workers : WorkerStep(r, w)
    PROVE  TablesKept(q) /\ pass'[q] = pass[q] /\ events'[q] = events[q]
<1> USE DEF sharedVars
<1>t. /\ pass \in [Runs -> PassStates] /\ next \in [Runs -> Nat] /\ done \in [Runs -> Nat]
      /\ claim \in [Runs -> [Workers -> Funcs]]
      /\ cancelled \in [Runs -> BOOLEAN] /\ events \in [Runs -> SUBSET Events]
  BY DEF PassTypeOK, PoolTypeOK, SharedTypeOK
<1>1. CASE StartPass(r) \/ AllSpawned(r) \/ StopReporting(r) \/ Complete(r) \/ CancelPass(r)
  <2>1. UNCHANGED <<next, done, wpc, claim, batch, cache>>
    BY <1>1 DEF StartPass, AllSpawned, StopReporting, Complete, CancelPass, poolVars
  <2>2. cancelled'[q] = cancelled[q]
    BY <1>1, <1>t DEF StartPass, AllSpawned, StopReporting, Complete, CancelPass
  <2>3. pass'[q] = pass[q]
    BY <1>1, <1>t DEF StartPass, AllSpawned, StopReporting, Complete, CancelPass, poolVars
  <2>4. events' = events \/ events' = [events EXCEPT ![r] = @ \cup {"decompile_complete"}]
    BY <1>1 DEF StartPass, AllSpawned, StopReporting, Complete, CancelPass
  <2>5. events'[q] = events[q]
    BY <1>t, <2>4
  <2> QED BY <2>1, <2>2, <2>3, <2>5, SameCache DEF TablesKept
<1>2. ASSUME NEW w \in Workers, SpawnWorker(r, w) \/ SpawnFails(r, w)
      PROVE  TablesKept(q) /\ pass'[q] = pass[q] /\ events'[q] = events[q]
  <2>1. UNCHANGED <<pass, next, done, claim, batch, cancelled, cache, events>>
    BY <1>2 DEF SpawnWorker, SpawnFails
  <2>2. MoveWorker(r, w, "loop") \/ MoveWorker(r, w, "failed")
    BY <1>2 DEF SpawnWorker, SpawnFails
  <2>3. wpc'[q] = wpc[q]
    BY <2>2, MoveFacts DEF WorkerStates
  <2> QED BY <2>1, <2>3, SameCache DEF TablesKept
<1>3. ASSUME NEW w \in Workers, Claim(r, w)
      PROVE  TablesKept(q) /\ pass'[q] = pass[q] /\ events'[q] = events[q]
  <2>1. UNCHANGED <<pass, done, batch, cancelled, cache, events>> /\ next'[q] = next[q]
    BY <1>3, <1>t DEF Claim
  <2>2. MoveWorker(r, w, "drain") \/ MoveWorker(r, w, "decompile")
    BY <1>3 DEF Claim
  <2>3. wpc'[q] = wpc[q]
    BY <2>2, MoveFacts DEF WorkerStates
  <2>4. claim'[q] = claim[q]
    BY <1>3, <1>t DEF Claim
  <2> QED BY <2>1, <2>3, <2>4, SameCache DEF TablesKept
<1>4. ASSUME NEW w \in Workers, Decompile(r, w)
      PROVE  TablesKept(q) /\ pass'[q] = pass[q] /\ events'[q] = events[q]
  <2>1. UNCHANGED <<pass, next, claim, cancelled, cache, events>> /\ done'[q] = done[q]
    BY <1>4, <1>t DEF Decompile
  <2>2. wpc'[q] = wpc[q]
    BY <1>4, DecompileMoves, MoveFacts DEF WorkerStates
  <2>3. batch'[q] = batch[q]
    BY <1>4, HeldFacts, BatchFacts DEF Decompile
  <2> QED BY <2>1, <2>2, <2>3, SameCache DEF TablesKept
<1>5. ASSUME NEW w \in Workers, Publish(r, w) \/ Drain(r, w)
      PROVE  TablesKept(q) /\ pass'[q] = pass[q] /\ events'[q] = events[q]
  <2>1. UNCHANGED <<pass, next, done, claim, cancelled, events>>
    BY <1>5 DEF Publish, Drain
  <2>2. MoveWorker(r, w, "loop") \/ MoveWorker(r, w, "exited")
    BY <1>5 DEF Publish, Drain
  <2>3. wpc'[q] = wpc[q]
    BY <2>2, MoveFacts DEF WorkerStates
  <2>4. batch'[q] = batch[q]
    BY <1>5, EmptyIsCache, BatchFacts DEF Publish, Drain
  <2>5. OwnAdditions(q)
    BY <1>5, PublishedFacts
  <2> QED BY <2>1, <2>3, <2>4, <2>5 DEF TablesKept
<1> QED BY <1>1, <1>2, <1>3, <1>4, <1>5 DEF PassStep, WorkerStep

LEMMA PoolInvInit == PassInit => PoolInv
<1> SUFFICES ASSUME PassInit, NEW r \in Runs PROVE PoolInvAt(r)
  BY DEF PoolInv
<1>1. /\ next[r] = 0 /\ done[r] = 0 /\ pass[r] = "none" /\ events[r] = {}
      /\ cache = EmptyMap /\ DOMAIN EmptyMap = {}
      /\ \A w \in Workers : wpc[r][w] = "unspawned" /\ batch[r][w] = EmptyMap
  BY EmptyIsCache DEF PassInit, PoolInit, SharedInit
<1>2. PublishedBy(r) = {} /\ \A w \in Workers : InHand(r, w) = {}
  BY <1>1 DEF PublishedBy, InHand
<1>3. OnceIn(r) /\ BelowCursor(r) /\ OwnBodies(r) /\ ParkedIsEmpty(r)
  BY <1>1, <1>2 DEF OnceIn, BelowCursor, OwnBodies, ParkedIsEmpty
<1>4. NothingLost(r)
  BY <1>1, TotalAssumption DEF NothingLost, Funcs
<1>5. StopsAtTheEnd(r) /\ SomebodyCounted(r) /\ JoinsWhenCounted(r) /\ CompleteAt(r)
  BY <1>1 DEF StopsAtTheEnd, SomebodyCounted, JoinsWhenCounted, CompleteAt
<1> QED BY <1>3, <1>4, <1>5 DEF PoolInvAt, WorkersInvAt

LEMMA PoolInvStep ==
    ASSUME PassTypeOK, PoolInv, [PassNext]_PassVars
    PROVE  PoolInv'
<1>1. CASE UNCHANGED PassVars
  <2> SUFFICES ASSUME NEW q \in Runs PROVE PoolInvAt(q)'
    BY DEF PoolInv
  <2>1. /\ TablesKept(q) /\ pass'[q] = pass[q] /\ events'[q] = events[q]
    BY <1>1, SameCache DEF PassVars, poolVars, sharedVars, TablesKept
  <2> QED BY <2>1, Untouched DEF PoolInv
<1>2. ASSUME NEW r \in Runs,
             \/ StartPass(r) \/ PassStep(r) \/ CancelPass(r)
             \/ \E w \in Workers : WorkerStep(r, w)
      PROVE  PoolInv'
  <2>1. PoolInvAt(r) /\ OwnBodies(r)
    BY DEF PoolInv, PoolInvAt, WorkersInvAt
  <2>2. PoolInvAt(r)'
    BY <1>2, <2>1, SpawnStep, PassThreadStep, CompleteStep, ClaimStep, DecompileStep, PublishStep
    DEF PassStep, WorkerStep
  <2>3. ASSUME NEW q \in Runs \ {r} PROVE PoolInvAt(q)'
    BY <1>2, <2>1, OthersUntouched, Untouched DEF PoolInv
  <2> QED BY <2>2, <2>3 DEF PoolInv
<1> QED BY <1>1, <1>2 DEF PassNext

\* The cursor's hand-out is kept through every interleaving of the passes,
\* the workers and cancels.
THEOREM PoolInvariant == PassSpec => []PoolInv
<1>1. PassInit => PassTypeOK /\ PoolInv
  BY PassTypeInit, PoolInvInit
<1>2. PassTypeOK /\ PoolInv /\ [PassNext]_PassVars => (PassTypeOK /\ PoolInv)'
  BY PassTypeStep, PoolInvStep
<1> QED BY <1>1, <1>2, PTL DEF PassSpec

\* next.fetch_add is enough to keep the workers apart: no function is in two
\* hands, or in a hand and already published, for any number of workers.
THEOREM EachFunctionOnceHolds == PassSpec => []EachFunctionOnce
<1>1. PoolInv => EachFunctionOnce
  BY DEF PoolInv, PoolInvAt, WorkersInvAt, EachFunctionOnce
<1> QED BY <1>1, PoolInvariant, PTL

\* The join before `decompile_complete` is enough: the event of a pass nobody
\* cancelled means that every function with a body is in decomp_cache, the
\* workers' last batches included, however many spawns failed.
THEOREM CompleteMeansCachedHolds == PassSpec => []CompleteMeansCached
<1>1. PoolInv => CompleteMeansCached
  BY DEF PoolInv, PoolInvAt, CompleteAt, CompleteMeansCached
<1> QED BY <1>1, PoolInvariant, PTL
=============================================================================
