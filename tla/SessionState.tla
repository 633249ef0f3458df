---------------------------- MODULE SessionState ----------------------------
(***************************************************************************)
(* What the threads of one disassembly window share.                       *)
(*                                                                         *)
(* crates/shell/src/session.rs: the `Session` behind Arc<Mutex<..>>, the   *)
(* engines it hands out, and the two process-global environment variables  *)
(* the engine reads while it decompiles.  The components that act on this  *)
(* state (AnalysisRun, BackgroundDecompile, OnDemand) each extend this     *)
(* module; Session composes them.                                          *)
(*                                                                         *)
(* A run is one call of start_analysis.  The cancel flag, an               *)
(* Arc<AtomicBool> compared by identity, is named by the run it was made   *)
(* for, and so is the engine that run builds.  A function is its index in  *)
(* the run's function list.  A decompiled body is the record of what the   *)
(* text depends on.                                                        *)
(***************************************************************************)
EXTENDS Integers, FiniteSets

CONSTANTS
    MaxRuns,     \* bound: calls of start_analysis in the window's life
    Total,       \* number of functions the analysis finds
    Opaque,      \* functions the engine returns no body for
    MaxRetypes   \* bound: user retypes per function and engine

Runs == 1..MaxRuns

Funcs == 0..(Total - 1)

ASSUME MaxRunsAssumption == MaxRuns \in Nat \ {0}

ASSUME TotalAssumption == Total \in Nat \ {0}

ASSUME OpaqueAssumption == Opaque \subseteq Funcs

ASSUME MaxRetypesAssumption == MaxRetypes \in Nat

Events == {"analysis_error", "analysis_done", "decompile_complete"}

VARIABLES
    token,      \* Session.cancel: the run whose flag the session holds
    cancelled,  \* the flags: [Runs -> BOOLEAN]
    view,       \* the run whose engine and tables are committed, 0 for none
    cache,      \* Session.decomp_cache: function -> body, a partial function
    types,      \* the engines' user variable types, as a version per function
    env,        \* DS_FORCE_SM (sm) and DS_LINE_ADDR (marks), process-global
    events      \* the events each run has pushed to the window

sharedVars == <<token, cancelled, view, cache, types, env, events>>

(***************************************************************************)
(* A body: the engine it came from (run 0 is an earlier session, through   *)
(* the saved cache), the version of the function's types it was built      *)
(* with, whether it is the state-machine form, and whether its lines carry *)
(* address markers.                                                        *)
(***************************************************************************)
Body == [run : 0..MaxRuns, ver : 0..MaxRetypes, sm : BOOLEAN, marks : BOOLEAN]

\* What the HashMap of bodies can hold.
CacheMaps == UNION {[D -> Body] : D \in SUBSET Funcs}

EmptyMap == [f \in {} |-> 0]

\* HashMap::insert, remove, and the insertion of a whole batch.
Insert(map, f, body) == [g \in DOMAIN map \cup {f} |-> IF g = f THEN body ELSE map[g]]

Remove(map, f) == [g \in DOMAIN map \ {f} |-> map[g]]

Merge(map, batch) ==
    [g \in DOMAIN map \cup DOMAIN batch |-> IF g \in DOMAIN batch THEN batch[g] ELSE map[g]]

(***************************************************************************)
(* What engine.decompile(f) of run r returns if it runs now: the engine    *)
(* consults its type store and both environment variables on every call.   *)
(***************************************************************************)
Decompiled(r, f) == [run |-> r, ver |-> types[r][f], sm |-> env.sm, marks |-> env.marks]

SharedInit ==
    /\ token = 1
    /\ cancelled = [r \in Runs |-> FALSE]
    /\ view = 0
    /\ cache = EmptyMap
    /\ types = [r \in Runs |-> [f \in Funcs |-> 0]]
    /\ env = [sm |-> FALSE, marks |-> FALSE]
    /\ events = [r \in Runs |-> {}]

SharedTypeOK ==
    /\ token \in Runs
    /\ cancelled \in [Runs -> BOOLEAN]
    /\ view \in 0..MaxRuns
    /\ cache \in CacheMaps
    /\ types \in [Runs -> [Funcs -> 0..MaxRetypes]]
    /\ env \in [sm : BOOLEAN, marks : BOOLEAN]
    /\ events \in [Runs -> SUBSET Events]
=============================================================================
