------------------------ MODULE BackgroundDecompile -------------------------
(***************************************************************************)
(* background_decompile (crates/shell/src/session.rs): the pass that fills *)
(* decomp_cache after the window is usable.  One thread per pass spawns a  *)
(* pool of workers on an atomic cursor, reports progress until every       *)
(* function is counted or the pass is cancelled, joins the workers, and    *)
(* pushes `decompile_complete`.                                            *)
(*                                                                         *)
(* Each step is what one thread does between two accesses another thread   *)
(* can tell apart: the cursor, the cancel flag, the engine with the        *)
(* environment it reads, and the session lock.                             *)
(***************************************************************************)
EXTENDS SessionState

CONSTANTS
    Workers,     \* nthreads: min(cores, total), at least one
    BatchCap     \* bodies a worker holds before it publishes them (32)

ASSUME BatchCapAssumption == BatchCap \in Nat \ {0}

VARIABLES
    pass,    \* the pass's own thread, per run
    next,    \* the cursor, per run
    done,    \* the count the reporter reads, per run
    wpc,     \* where each worker is, per run
    claim,   \* the function a worker is decompiling
    batch    \* the bodies a worker has not published

poolVars == <<pass, next, done, wpc, claim, batch>>

PassStates == {"none", "spawning", "reporting", "joining", "complete"}

WorkerStates == {"unspawned", "failed", "loop", "decompile", "publish", "drain", "exited"}

PoolInit ==
    /\ pass = [r \in Runs |-> "none"]
    /\ next = [r \in Runs |-> 0]
    /\ done = [r \in Runs |-> 0]
    /\ wpc = [r \in Runs |-> [w \in Workers |-> "unspawned"]]
    /\ claim = [r \in Runs |-> [w \in Workers |-> 0]]
    /\ batch = [r \in Runs |-> [w \in Workers |-> EmptyMap]]

PoolTypeOK ==
    /\ pass \in [Runs -> PassStates]
    /\ next \in [Runs -> Nat]
    /\ done \in [Runs -> Nat]
    /\ wpc \in [Runs -> [Workers -> WorkerStates]]
    /\ claim \in [Runs -> [Workers -> Funcs]]
    /\ batch \in [Runs -> [Workers -> CacheMaps]]

MoveWorker(r, w, s) == wpc' = [wpc EXCEPT ![r][w] = s]

-----------------------------------------------------------------------------
(* The pass thread.                                                        *)

\* The spawned thread sets DS_LINE_ADDR and begins to spawn workers.  (A run
\* with no function returns before that; Total is positive here.)
StartPass(r) ==
    /\ pass[r] = "none"
    /\ pass' = [pass EXCEPT ![r] = "spawning"]
    /\ env' = [env EXCEPT !.marks = TRUE]
    /\ UNCHANGED <<next, done, wpc, claim, batch, token, cancelled, view, cache, types, events>>

SpawnWorker(r, w) ==
    /\ pass[r] = "spawning"
    /\ wpc[r][w] = "unspawned"
    /\ MoveWorker(r, w, "loop")
    /\ UNCHANGED <<pass, next, done, claim, batch>>
    /\ UNCHANGED sharedVars

\* The platform refuses a thread: the error is printed and the loop goes on.
SpawnFails(r, w) ==
    /\ pass[r] = "spawning"
    /\ wpc[r][w] = "unspawned"
    /\ MoveWorker(r, w, "failed")
    /\ UNCHANGED <<pass, next, done, claim, batch>>
    /\ UNCHANGED sharedVars

AllSpawned(r) ==
    /\ pass[r] = "spawning"
    /\ \A w \in Workers : wpc[r][w] # "unspawned"
    /\ pass' = [pass EXCEPT ![r] = "reporting"]
    /\ UNCHANGED <<next, done, wpc, claim, batch>>
    /\ UNCHANGED sharedVars

\* The reporter leaves its loop when everything is counted, or on cancel.
StopReporting(r) ==
    /\ pass[r] = "reporting"
    /\ done[r] >= Total \/ cancelled[r]
    /\ pass' = [pass EXCEPT ![r] = "joining"]
    /\ UNCHANGED <<next, done, wpc, claim, batch>>
    /\ UNCHANGED sharedVars

\* Mutant: the event is pushed without the join.
CompleteWithoutJoin(r) ==
    /\ pass[r] = "joining"
    /\ pass' = [pass EXCEPT ![r] = "complete"]
    /\ env' = [env EXCEPT !.marks = FALSE]
    /\ events' = [events EXCEPT ![r] = @ \cup {"decompile_complete"}]
    /\ UNCHANGED <<next, done, wpc, claim, batch, token, cancelled, view, cache, types>>

\* The end of the scope joins every worker; then the variable is removed and
\* the window is told.
Complete(r) ==
    /\ pass[r] = "joining"
    /\ \A w \in Workers : wpc[r][w] \in {"exited", "failed"}
    /\ pass' = [pass EXCEPT ![r] = "complete"]
    /\ env' = [env EXCEPT !.marks = FALSE]
    /\ events' = [events EXCEPT ![r] = @ \cup {"decompile_complete"}]
    /\ UNCHANGED <<next, done, wpc, claim, batch, token, cancelled, view, cache, types>>

-----------------------------------------------------------------------------
(* A worker.                                                               *)

\* Mutant: the cursor is loaded and not advanced.
ClaimByLoad(r, w) ==
    /\ wpc[r][w] = "loop"
    /\ IF next[r] >= Total \/ cancelled[r]
         THEN MoveWorker(r, w, "drain") /\ UNCHANGED claim
         ELSE MoveWorker(r, w, "decompile") /\ claim' = [claim EXCEPT ![r][w] = next[r]]
    /\ UNCHANGED <<pass, next, done, batch>>
    /\ UNCHANGED sharedVars

ClaimAndCount(r, w) ==
    /\ wpc[r][w] = "loop"
    /\ next' = [next EXCEPT ![r] = @ + 1]
    /\ done' = [done EXCEPT ![r] = @ + 1]
    /\ IF next[r] >= Total \/ cancelled[r]
         THEN MoveWorker(r, w, "drain") /\ UNCHANGED claim
         ELSE MoveWorker(r, w, "decompile") /\ claim' = [claim EXCEPT ![r][w] = next[r]]
    /\ UNCHANGED <<pass, batch>>
    /\ UNCHANGED sharedVars

\* next.fetch_add(1), and the exit test on the index and the cancel flag.
Claim(r, w) ==
    /\ wpc[r][w] = "loop"
    /\ next' = [next EXCEPT ![r] = @ + 1]
    /\ IF next[r] >= Total \/ cancelled[r]
         THEN /\ MoveWorker(r, w, "drain")
              /\ UNCHANGED claim
         ELSE /\ MoveWorker(r, w, "decompile")
              /\ claim' = [claim EXCEPT ![r][w] = next[r]]
    /\ UNCHANGED <<pass, done, batch>>
    /\ UNCHANGED sharedVars

Held(r, w) ==
    IF claim[r][w] \in Opaque
      THEN batch[r][w]
      ELSE Insert(batch[r][w], claim[r][w], Decompiled(r, claim[r][w]))

\* Mutant: only the functions with a body are counted.
DecompileCountsBodies(r, w) ==
    /\ wpc[r][w] = "decompile"
    /\ batch' = [batch EXCEPT ![r][w] = Held(r, w)]
    /\ done' = [done EXCEPT ![r] = IF claim[r][w] \in Opaque THEN @ ELSE @ + 1]
    /\ MoveWorker(r, w, IF Cardinality(DOMAIN Held(r, w)) >= BatchCap THEN "publish" ELSE "loop")
    /\ UNCHANGED <<pass, next, claim>>
    /\ UNCHANGED sharedVars

\* One decompilation, off every lock; the function is counted whether or not
\* the engine returned a body.
Decompile(r, w) ==
    /\ wpc[r][w] = "decompile"
    /\ batch' = [batch EXCEPT ![r][w] = Held(r, w)]
    /\ done' = [done EXCEPT ![r] = @ + 1]
    /\ MoveWorker(r, w, IF Cardinality(DOMAIN Held(r, w)) >= BatchCap THEN "publish" ELSE "loop")
    /\ UNCHANGED <<pass, next, claim>>
    /\ UNCHANGED sharedVars

\* Under the session lock: the batch goes into the session's cache, whatever
\* run the session now belongs to.
Publish(r, w) ==
    /\ wpc[r][w] = "publish"
    /\ cache' = Merge(cache, batch[r][w])
    /\ batch' = [batch EXCEPT ![r][w] = EmptyMap]
    /\ MoveWorker(r, w, "loop")
    /\ UNCHANGED <<pass, next, done, claim, token, cancelled, view, types, env, events>>

\* Mutant: the last, short batch is forgotten.
DrainForgets(r, w) ==
    /\ wpc[r][w] = "drain"
    /\ batch' = [batch EXCEPT ![r][w] = EmptyMap]
    /\ MoveWorker(r, w, "exited")
    /\ UNCHANGED <<pass, next, done, claim>>
    /\ UNCHANGED sharedVars

\* After the loop, the rest of the batch is published too, cancelled or not.
Drain(r, w) ==
    /\ wpc[r][w] = "drain"
    /\ cache' = Merge(cache, batch[r][w])
    /\ batch' = [batch EXCEPT ![r][w] = EmptyMap]
    /\ MoveWorker(r, w, "exited")
    /\ UNCHANGED <<pass, next, done, claim, token, cancelled, view, types, env, events>>

WorkerStep(r, w) == Claim(r, w) \/ Decompile(r, w) \/ Publish(r, w) \/ Drain(r, w)

PassStep(r) ==
    \/ \E w \in Workers : SpawnWorker(r, w) \/ SpawnFails(r, w)
    \/ AllSpawned(r)
    \/ StopReporting(r)
    \/ Complete(r)

-----------------------------------------------------------------------------
(***************************************************************************)
(* The pass on its own: nothing else touches the cache, and somebody may   *)
(* cancel.                                                                 *)
(***************************************************************************)
PassVars == <<sharedVars, poolVars>>

PassInit == SharedInit /\ PoolInit

CancelPass(r) ==
    /\ ~cancelled[r]
    /\ cancelled' = [cancelled EXCEPT ![r] = TRUE]
    /\ UNCHANGED <<poolVars, token, view, cache, types, env, events>>

PassNext ==
    \E r \in Runs :
        \/ StartPass(r)
        \/ PassStep(r)
        \/ CancelPass(r)
        \/ \E w \in Workers : WorkerStep(r, w)

\* The operating system runs every thread; nobody is obliged to cancel.
PassFairness ==
    \A r \in Runs :
        /\ WF_PassVars(StartPass(r))
        /\ WF_PassVars(PassStep(r))
        /\ \A w \in Workers : WF_PassVars(WorkerStep(r, w))

PassSpec == PassInit /\ [][PassNext]_PassVars /\ PassFairness

\* Type invariant of the pass.
PassTypeOK == SharedTypeOK /\ PoolTypeOK

\* The functions a worker of run r holds: in hand, or decompiled and not
\* published.
InHand(r, w) ==
    DOMAIN batch[r][w] \cup IF wpc[r][w] = "decompile" THEN {claim[r][w]} ELSE {}

\* The functions whose body in the cache comes from run r.
PublishedBy(r) == {f \in DOMAIN cache : cache[f].run = r}

OnceIn(r) ==
    \A w \in Workers :
        /\ \A v \in Workers \ {w} : InHand(r, v) \cap InHand(r, w) = {}
        /\ wpc[r][w] = "decompile" => claim[r][w] \notin DOMAIN batch[r][w]
        /\ InHand(r, w) \cap PublishedBy(r) = {}

\* No function is decompiled twice: two workers never hold the same one, and
\* none in the middle of a decompilation is in a batch or published already.
\* (The cursor is the only thing that keeps the workers apart.)
EachFunctionOnce ==
    \A r \in Runs : OnceIn(r)

\* decompile_complete of a pass nobody cancelled means what it says: every
\* function that has a body is in the cache, the last batches included.
CompleteMeansCached ==
    \A r \in Runs :
        "decompile_complete" \in events[r] /\ ~cancelled[r] => Funcs \ Opaque \subseteq DOMAIN cache

\* The indicator never shows N of N while a decompilation of the pass is
\* still to come: a full count means the cursor is spent and no worker is
\* inside the engine.
FullCountIsFinal ==
    \A r \in Runs :
        done[r] >= Total => next[r] >= Total /\ \A w \in Workers : wpc[r][w] # "decompile"

\* The platform refused every worker.  The reporter then waits for a count
\* that nobody makes, until the pass is cancelled.
NoWorker(r) == \A w \in Workers : wpc[r][w] = "failed"

\* A pass that has begun ends and tells the window, cancelled or not.
PassEnds ==
    \A r \in Runs :
        pass[r] = "spawning" ~> ("decompile_complete" \in events[r] \/ NoWorker(r))

\* "A failed spawn loses no work": every function that has a body is cached
\* in the end, as long as one worker was started and nobody cancels.
NoWorkLost ==
    \A r \in Runs :
        pass[r] = "spawning"
            ~> (cancelled[r] \/ NoWorker(r) \/ Funcs \ Opaque \subseteq DOMAIN cache)

-----------------------------------------------------------------------------
(***************************************************************************)
(* The inductive invariant, per run.  The cursor separates the functions   *)
(* that were handed out from those that were not; of the former nothing is *)
(* lost between the workers' hands and the cache while the pass is not     *)
(* cancelled; a worker stops only at the end of the cursor.                *)
(***************************************************************************)
Parked == {"unspawned", "failed", "exited"}

\* Only what the cursor has passed is held or published.
BelowCursor(r) ==
    /\ \A w \in Workers : \A f \in InHand(r, w) : f < next[r]
    /\ \A f \in PublishedBy(r) : f < next[r]

OwnBodies(r) ==
    \A w \in Workers : \A f \in DOMAIN batch[r][w] : batch[r][w][f].run = r

ParkedIsEmpty(r) ==
    \A w \in Workers : wpc[r][w] \in Parked => DOMAIN batch[r][w] = {}

NothingLost(r) ==
    cancelled[r] \/
        \A f \in Funcs \ Opaque :
            f < next[r] => f \in DOMAIN cache \/ \E w \in Workers : f \in InHand(r, w)

StopsAtTheEnd(r) ==
    \A w \in Workers : wpc[r][w] \in {"drain", "exited"} => cancelled[r] \/ next[r] >= Total

\* A positive count is the work of some worker that was started.
SomebodyCounted(r) ==
    done[r] > 0 => \E w \in Workers : wpc[r][w] \notin {"unspawned", "failed"}

JoinsWhenCounted(r) == pass[r] = "joining" => cancelled[r] \/ done[r] >= Total

CompleteAt(r) ==
    "decompile_complete" \in events[r] => cancelled[r] \/ Funcs \ Opaque \subseteq DOMAIN cache

WorkersInvAt(r) ==
    /\ OnceIn(r)
    /\ BelowCursor(r)
    /\ OwnBodies(r)
    /\ ParkedIsEmpty(r)
    /\ NothingLost(r)
    /\ StopsAtTheEnd(r)
    /\ SomebodyCounted(r)

PoolInvAt(r) ==
    /\ WorkersInvAt(r)
    /\ JoinsWhenCounted(r)
    /\ CompleteAt(r)

PoolInv == \A r \in Runs : PoolInvAt(r)

=============================================================================
