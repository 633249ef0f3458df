---------------------------- MODULE AnalysisRun -----------------------------
(***************************************************************************)
(* The life of an analysis: start_analysis, run_analysis                   *)
(* (crates/shell/src/session.rs), and the handlers on the UI thread that   *)
(* start, cancel and replace a run: cancel_analysis, reanalyze,            *)
(* save_analysis (crates/shell/src/ipc.rs) and handle_close (main.rs).     *)
(*                                                                         *)
(* Every start_analysis gets a worker thread of its own, so an old run may *)
(* still be working when the next one has started.  Everything a stage     *)
(* computes stays on that thread until the commit.                         *)
(***************************************************************************)
EXTENDS SessionState

CONSTANT Commands    \* bound: which of the commands below the user gives

AllCommands == {"cancel", "reanalyze", "save", "close"}

ASSUME CommandsAssumption == Commands \subseteq AllCommands

VARIABLES
    stage,      \* where each run's worker thread is
    preloaded,  \* what load_decomp_cache gave the run: {} or {map}
    ui,         \* where the UI thread is inside a handler, "idle" between two
    closed,     \* the window is gone
    saved       \* the saved cache of this binary: {} or {map}

runVars == <<stage, preloaded, ui, closed, saved>>

(***************************************************************************)
(* The stages in order.  Up to "build_xrefs" each is a step that can fail; *)
(* "listing" is FLIRT naming, the listing, strings and data pointers.      *)
(***************************************************************************)
NextStage ==
    [read |-> "parse", parse |-> "disassemble", disassemble |-> "build_cfg",
     build_cfg |-> "resolve_symbols", resolve_symbols |-> "build_xrefs",
     build_xrefs |-> "listing", listing |-> "load"]

Pipeline == DOMAIN NextStage

CanFail == Pipeline \ {"listing"}

\* "idle": not started.  "quit": returned early, on an error or a cancel.
\* "decompiling": the background pass has the run; "over": nothing to do.
Stages == Pipeline \cup {"idle", "load", "commit", "announce", "quit", "decompiling", "over"}

UiStates == {"idle", "reanalyze_token", "reanalyze_start"}

\* open_binary_window makes the session and starts its first run.  A cache
\* may have been saved by an earlier session: all functions, by engine 0.
SavedBefore == [f \in Funcs \ Opaque |-> [run |-> 0, ver |-> 0, sm |-> FALSE, marks |-> TRUE]]

RunInit ==
    /\ stage = [r \in Runs |-> IF r = 1 THEN "read" ELSE "idle"]
    /\ preloaded = [r \in Runs |-> {}]
    /\ ui = "idle"
    /\ closed = FALSE
    /\ saved \in {{}, {SavedBefore}}

OptionalMaps == {{}} \cup {{m} : m \in CacheMaps}

RunTypeOK ==
    /\ stage \in [Runs -> Stages]
    /\ preloaded \in [Runs -> OptionalMaps]
    /\ ui \in UiStates
    /\ closed \in BOOLEAN
    /\ saved \in OptionalMaps

MoveRun(r, s) == stage' = [stage EXCEPT ![r] = s]

-----------------------------------------------------------------------------
(* The worker thread of a run.                                             *)

\* A stage ends well and the cancel flag is read after it.
StageOk(r) ==
    /\ stage[r] \in Pipeline
    /\ MoveRun(r, IF cancelled[r] THEN "quit" ELSE NextStage[stage[r]])
    /\ UNCHANGED <<preloaded, ui, closed, saved>>
    /\ UNCHANGED sharedVars

\* Mutant: a failing stage returns without the error event.
StageFailsQuietly(r) ==
    /\ stage[r] \in CanFail
    /\ MoveRun(r, "quit")
    /\ UNCHANGED <<preloaded, ui, closed, saved>>
    /\ UNCHANGED sharedVars

\* A stage fails: the error is pushed before the flag is looked at.
StageFails(r) ==
    /\ stage[r] \in CanFail
    /\ MoveRun(r, "quit")
    /\ events' = [events EXCEPT ![r] = @ \cup {"analysis_error"}]
    /\ UNCHANGED <<preloaded, ui, closed, saved, token, cancelled, view, cache, types, env>>

\* Mutant: the fast path announces without taking the commit's test.
LoadAndAnnounce(r) ==
    /\ stage[r] = "load"
    /\ preloaded' = [preloaded EXCEPT ![r] = saved]
    /\ MoveRun(r, IF saved = {} THEN "commit" ELSE "announce")
    /\ UNCHANGED <<ui, closed, saved>>
    /\ UNCHANGED sharedVars

\* load_decomp_cache, before the session lock is taken.  The binary is the
\* one that was saved (SavedAnalysis models the stamps and torn files).
LoadSaved(r) ==
    /\ stage[r] = "load"
    /\ preloaded' = [preloaded EXCEPT ![r] = saved]
    /\ MoveRun(r, "commit")
    /\ UNCHANGED <<ui, closed, saved>>
    /\ UNCHANGED sharedVars

\* Mutants: the commit checks nothing, or only one half of its test.
AlwaysCommit(r) == TRUE

CommitUnlessReplaced(r) == token = r

\* The test the commit makes under the lock: still the session's run, and
\* not cancelled.
MayCommit(r) == token = r /\ ~cancelled[r]

\* Under the session lock: engine, tables and cache change together, or the
\* run returns.
Commit(r) ==
    /\ stage[r] = "commit"
    /\ IF MayCommit(r)
         THEN /\ view' = r
              /\ cache' = IF preloaded[r] = {} THEN EmptyMap ELSE CHOOSE m \in preloaded[r] : TRUE
              /\ MoveRun(r, "announce")
         ELSE /\ MoveRun(r, "quit")
              /\ UNCHANGED <<view, cache>>
    /\ UNCHANGED <<preloaded, ui, closed, saved, token, cancelled, types, env, events>>

\* The lock is released; analysis_done is pushed.  With a saved cache the run
\* ends here, otherwise the background pass takes over.
Announce(r) ==
    /\ stage[r] = "announce"
    /\ events' = [events EXCEPT ![r] = @ \cup {"analysis_done"}]
    /\ MoveRun(r, IF preloaded[r] = {} THEN "decompiling" ELSE "over")
    /\ UNCHANGED <<preloaded, ui, closed, saved, token, cancelled, view, cache, types, env>>

RunStep(r) ==
    \/ StageOk(r) \/ StageFails(r) \/ LoadSaved(r) \/ Commit(r) \/ Announce(r)

-----------------------------------------------------------------------------
(* The UI thread.                                                          *)

UiFree == ui = "idle" /\ ~closed

CancelAnalysis ==
    /\ UiFree
    /\ "cancel" \in Commands
    /\ cancelled' = [cancelled EXCEPT ![token] = TRUE]
    /\ UNCHANGED <<stage, preloaded, ui, closed, saved, token, view, cache, types, env, events>>

\* Mutant: reanalyze drops the cache but lets the old run go on.
ReanalyzeWithoutCancel ==
    /\ UiFree
    /\ "reanalyze" \in Commands
    /\ token < MaxRuns
    /\ cache' = EmptyMap
    /\ ui' = "reanalyze_token"
    /\ UNCHANGED <<stage, preloaded, closed, saved, token, cancelled, view, types, env, events>>

\* reanalyze takes the lock three times.  First: cancel the run, drop the cache.
ReanalyzeCancel ==
    /\ UiFree
    /\ "reanalyze" \in Commands
    /\ token < MaxRuns
    /\ cancelled' = [cancelled EXCEPT ![token] = TRUE]
    /\ cache' = EmptyMap
    /\ ui' = "reanalyze_token"
    /\ UNCHANGED <<stage, preloaded, closed, saved, token, view, types, env, events>>

\* Second: a new cancel flag.
ReanalyzeToken ==
    /\ ui = "reanalyze_token"
    /\ token' = token + 1
    /\ ui' = "reanalyze_start"
    /\ UNCHANGED <<stage, preloaded, closed, saved, cancelled, view, cache, types, env, events>>

\* Third: start_analysis clones the flag and spawns the run.
ReanalyzeStart ==
    /\ ui = "reanalyze_start"
    /\ stage[token] = "idle"
    /\ MoveRun(token, "read")
    /\ ui' = "idle"
    /\ UNCHANGED <<preloaded, closed, saved>>
    /\ UNCHANGED sharedVars

\* Ctrl+S, under the session lock.
SaveAnalysis ==
    /\ UiFree
    /\ "save" \in Commands
    /\ saved' = {cache}
    /\ UNCHANGED <<stage, preloaded, ui, closed>>
    /\ UNCHANGED sharedVars

\* handle_close drops the window and cancels the session's run.
CloseWindow ==
    /\ UiFree
    /\ "close" \in Commands
    /\ closed' = TRUE
    /\ cancelled' = [cancelled EXCEPT ![token] = TRUE]
    /\ UNCHANGED <<stage, preloaded, ui, saved, token, view, cache, types, env, events>>

Reanalyze == ReanalyzeCancel \/ ReanalyzeToken \/ ReanalyzeStart

UiStep == CancelAnalysis \/ Reanalyze \/ SaveAnalysis \/ CloseWindow

-----------------------------------------------------------------------------
(* The lifecycle on its own, without the passes and the requests.          *)

RunVars == <<runVars, sharedVars>>

AnalysisInit == SharedInit /\ RunInit

AnalysisNext == UiStep \/ \E r \in Runs : RunStep(r)

\* A worker thread and a handler that has begun both run to their ends; what
\* the user does is never promised.
AnalysisFairness ==
    /\ \A r \in Runs : WF_RunVars(RunStep(r))
    /\ WF_RunVars(ReanalyzeToken \/ ReanalyzeStart)

AnalysisSpec == AnalysisInit /\ [][AnalysisNext]_RunVars /\ AnalysisFairness

AnalysisTypeOK == SharedTypeOK /\ RunTypeOK

-----------------------------------------------------------------------------
(* Properties.                                                             *)

\* Stages from which a run can still commit.
Uncommitted == Pipeline \cup {"load", "commit"}

\* "The in-flight run is cancelled so two workers cannot both commit": of
\* any two runs still on their way to the commit, one is cancelled.
OneLiveRun ==
    \A r, s \in Runs :
        r # s /\ {stage[r], stage[s]} \subseteq Uncommitted => cancelled[r] \/ cancelled[s]

\* analysis_done is pushed only when the session answers for that run, or for
\* a later one: the page that boots on it finds tables to show.
AnnouncedIsCommitted ==
    \A r \in Runs : "analysis_done" \in events[r] => view >= r

\* The session moves from one engine to another only forward, and only to the
\* run its own flag belongs to: a slow old run never replaces a newer one.
CommitsForward == [][view' # view => view' > view /\ view' = token]_RunVars

\* The loading overlay is resolved: every run that starts pushes done or an
\* error in the end, unless it is cancelled.
OverlayResolved ==
    \A r \in Runs :
        stage[r] = "read" ~> (cancelled[r] \/ events[r] \cap {"analysis_done", "analysis_error"} # {})

-----------------------------------------------------------------------------
(***************************************************************************)
(* The inductive invariant.  The runs before the session's own are all     *)
(* cancelled, those after it have not begun, and nothing after the commit  *)
(* is reached without it.                                                  *)
(***************************************************************************)
Lifecycle ==
    /\ \A r \in Runs : r < token => cancelled[r]
    /\ \A r \in Runs : r > token => stage[r] = "idle" /\ ~cancelled[r]
    /\ ui = "reanalyze_token" => cancelled[token] /\ token < MaxRuns
    /\ ui = "reanalyze_start" => stage[token] = "idle" /\ ~cancelled[token]
    /\ view <= token
    /\ stage[token] \in Uncommitted \cup {"idle"} => view < token
    /\ \A r \in Runs :
          stage[r] = "announce" \/ "analysis_done" \in events[r] => view >= r

-----------------------------------------------------------------------------
(***************************************************************************)
(* What the window is promised (PublishedAnalysis), with the session's     *)
(* flag for the latest request and its cancellation for its withdrawal.    *)
(***************************************************************************)
Promise == INSTANCE PublishedAnalysis WITH
    latest <- token, withdrawn <- cancelled[token], shown <- view

KeepsPromise == Promise!PublishedSpec
=============================================================================
