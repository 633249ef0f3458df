--------------------------- MODULE AnalysisProofs ---------------------------
(***************************************************************************)
(* The analysis lifecycle, for every number of runs: types, no two live    *)
(* runs, commits that only move forward, and the promise of                *)
(* PublishedAnalysis.                                                      *)
(***************************************************************************)
EXTENDS AnalysisRun, TLAPS

-----------------------------------------------------------------------------
(* Facts about the maps of bodies (decomp_cache and the workers' batches).  *)

LEMMA EmptyIsCache == EmptyMap \in CacheMaps /\ DOMAIN EmptyMap = {}
<1>1. EmptyMap \in [{} -> Body] /\ DOMAIN EmptyMap = {}
  BY DEF EmptyMap
<1>2. {} \in SUBSET Funcs
  OBVIOUS
<1> QED BY <1>1, <1>2 DEF CacheMaps

LEMMA CacheMapParts ==
    ASSUME NEW map \in CacheMaps
    PROVE  /\ DOMAIN map \subseteq Funcs
           /\ map \in [DOMAIN map -> Body]
           /\ \A f \in DOMAIN map : map[f] \in Body
  BY DEF CacheMaps

LEMMA InsertFacts ==
    ASSUME NEW map \in CacheMaps, NEW f \in Funcs, NEW body \in Body
    PROVE  /\ Insert(map, f, body) \in CacheMaps
           /\ DOMAIN Insert(map, f, body) = DOMAIN map \cup {f}
           /\ Insert(map, f, body)[f] = body
           /\ \A g \in DOMAIN map : g # f => Insert(map, f, body)[g] = map[g]
<1>1. Insert(map, f, body) \in [DOMAIN map \cup {f} -> Body]
  BY CacheMapParts DEF Insert
<1>2. DOMAIN map \cup {f} \in SUBSET Funcs
  BY CacheMapParts
<1>3. Insert(map, f, body) \in CacheMaps
  BY <1>1, <1>2 DEF CacheMaps
<1> QED BY <1>3 DEF Insert

LEMMA MergeFacts ==
    ASSUME NEW map \in CacheMaps, NEW batch \in CacheMaps
    PROVE  /\ Merge(map, batch) \in CacheMaps
           /\ DOMAIN Merge(map, batch) = DOMAIN map \cup DOMAIN batch
           /\ \A g \in DOMAIN batch : Merge(map, batch)[g] = batch[g]
           /\ \A g \in DOMAIN map \ DOMAIN batch : Merge(map, batch)[g] = map[g]
<1>1. Merge(map, batch) \in [DOMAIN map \cup DOMAIN batch -> Body]
  BY CacheMapParts DEF Merge
<1>2. DOMAIN map \cup DOMAIN batch \in SUBSET Funcs
  BY CacheMapParts
<1>3. Merge(map, batch) \in CacheMaps
  BY <1>1, <1>2 DEF CacheMaps
<1> QED BY <1>3 DEF Merge

LEMMA RemoveFacts ==
    ASSUME NEW map \in CacheMaps, NEW f
    PROVE  /\ Remove(map, f) \in CacheMaps
           /\ DOMAIN Remove(map, f) = DOMAIN map \ {f}
           /\ \A g \in DOMAIN map \ {f} : Remove(map, f)[g] = map[g]
<1>1. Remove(map, f) \in [DOMAIN map \ {f} -> Body]
  BY CacheMapParts DEF Remove
<1>2. DOMAIN map \ {f} \in SUBSET Funcs
  BY CacheMapParts
<1>3. Remove(map, f) \in CacheMaps
  BY <1>1, <1>2 DEF CacheMaps
<1> QED BY <1>3 DEF Remove

LEMMA DecompiledIsBody ==
    ASSUME SharedTypeOK, NEW r \in Runs, NEW f \in Funcs
    PROVE  Decompiled(r, f) \in Body /\ Decompiled(r, f).run = r
  BY MaxRunsAssumption DEF SharedTypeOK, Decompiled, Body, Runs

LEMMA SharedInitType == SharedInit => SharedTypeOK
<1>1. 1 \in Runs /\ 0 \in 0..MaxRuns /\ 0 \in 0..MaxRetypes
  BY MaxRunsAssumption, MaxRetypesAssumption DEF Runs
<1> QED BY <1>1, EmptyIsCache DEF SharedInit, SharedTypeOK
-----------------------------------------------------------------------------
(* The run.                                                                 *)

LEMMA PipelineStages ==
    /\ Pipeline = {"read", "parse", "disassemble", "build_cfg",
                   "resolve_symbols", "build_xrefs", "listing"}
    /\ \A s \in Pipeline : NextStage[s] \in Pipeline \cup {"load"}
  BY DEF Pipeline, NextStage

LEMMA SavedBeforeIsCache == SavedBefore \in CacheMaps
<1>1. [run |-> 0, ver |-> 0, sm |-> FALSE, marks |-> TRUE] \in Body
  BY MaxRunsAssumption, MaxRetypesAssumption DEF Body
<1>2. SavedBefore \in [Funcs \ Opaque -> Body]
  BY <1>1 DEF SavedBefore
<1>3. Funcs \ Opaque \in SUBSET Funcs
  OBVIOUS
<1> QED BY <1>2, <1>3 DEF CacheMaps

-----------------------------------------------------------------------------
(* Type correctness.                                                       *)

\* The bound on runs is checked when a reanalysis begins and used when its
\* flag is made, hence the second assumption.
LEMMA TypeStep ==
    ASSUME AnalysisTypeOK, ui = "reanalyze_token" => token < MaxRuns, [AnalysisNext]_RunVars
    PROVE  AnalysisTypeOK'
<1> USE DEF AnalysisTypeOK, SharedTypeOK, RunTypeOK
<1>1. ASSUME NEW r \in Runs, StageOk(r) PROVE AnalysisTypeOK'
  BY <1>1, PipelineStages DEF StageOk, MoveRun, sharedVars, Stages
<1>2. ASSUME NEW r \in Runs, StageFails(r) PROVE AnalysisTypeOK'
  BY <1>2, PipelineStages DEF StageFails, MoveRun, Stages, Events
<1>3. ASSUME NEW r \in Runs, LoadSaved(r) PROVE AnalysisTypeOK'
  BY <1>3 DEF LoadSaved, MoveRun, sharedVars, Stages
<1>4. ASSUME NEW r \in Runs, Commit(r) PROVE AnalysisTypeOK'
  <2>1. CASE MayCommit(r)
    <3>1. view' \in 0..MaxRuns
      BY <1>4, <2>1, MaxRunsAssumption DEF Commit, Runs
    <3>2. cache' \in CacheMaps
      <4>1. CASE preloaded[r] = {}
        BY <1>4, <2>1, <4>1, EmptyIsCache DEF Commit
      <4>2. CASE preloaded[r] # {}
        <5>1. PICK m \in CacheMaps : preloaded[r] = {m}
          BY <4>2 DEF OptionalMaps
        <5> QED BY <1>4, <2>1, <4>2, <5>1 DEF Commit
      <4> QED BY <4>1, <4>2
    <3> QED BY <1>4, <2>1, <3>1, <3>2 DEF Commit, MoveRun, Stages
  <2>2. CASE ~MayCommit(r)
    BY <1>4, <2>2 DEF Commit, MoveRun, Stages
  <2> QED BY <2>1, <2>2
<1>5. ASSUME NEW r \in Runs, Announce(r) PROVE AnalysisTypeOK'
  BY <1>5 DEF Announce, MoveRun, Stages, Events
<1>6. CASE CancelAnalysis
  BY <1>6 DEF CancelAnalysis
<1>7. CASE ReanalyzeCancel
  BY <1>7, EmptyIsCache DEF ReanalyzeCancel, UiStates
<1>8. CASE ReanalyzeToken
  <2>1. token + 1 \in Runs
    BY <1>8, MaxRunsAssumption DEF ReanalyzeToken, Runs
  <2> QED BY <1>8, <2>1 DEF ReanalyzeToken, UiStates
<1>9. CASE ReanalyzeStart
  BY <1>9, PipelineStages DEF ReanalyzeStart, MoveRun, sharedVars, UiStates, Stages
<1>10. CASE SaveAnalysis
  BY <1>10 DEF SaveAnalysis, sharedVars, OptionalMaps
<1>11. CASE CloseWindow
  BY <1>11 DEF CloseWindow
<1>12. CASE UNCHANGED RunVars
  BY <1>12 DEF RunVars, runVars, sharedVars
<1> QED
  BY <1>1, <1>2, <1>3, <1>4, <1>5, <1>6, <1>7, <1>8, <1>9, <1>10, <1>11, <1>12
  DEF AnalysisNext, RunStep, UiStep, Reanalyze

LEMMA TypeInit == AnalysisInit => AnalysisTypeOK
<1> SUFFICES ASSUME AnalysisInit PROVE AnalysisTypeOK
  OBVIOUS
<1>1. SharedTypeOK
  BY SharedInitType DEF AnalysisInit
<1>2. RunTypeOK
  BY SavedBeforeIsCache, PipelineStages
  DEF AnalysisInit, RunInit, RunTypeOK, Stages, UiStates, OptionalMaps
<1> QED BY <1>1, <1>2 DEF AnalysisTypeOK

-----------------------------------------------------------------------------
(* The lifecycle invariant.                                                *)

\* A run that returns early, from wherever it was, disturbs nothing.
LEMMA QuitKeepsLifecycle ==
    ASSUME AnalysisTypeOK, Lifecycle, NEW r \in Runs,
           stage[r] # "idle",
           stage' = [stage EXCEPT ![r] = "quit"],
           UNCHANGED <<ui, token, cancelled, view>>,
           \A s \in Runs : "analysis_done" \in events'[s] => "analysis_done" \in events[s]
    PROVE  Lifecycle'
<1>1. \A s \in Runs : s # r => stage'[s] = stage[s]
  BY DEF AnalysisTypeOK, RunTypeOK
<1>2. stage'[r] = "quit"
  BY DEF AnalysisTypeOK, RunTypeOK
<1>3. "quit" \notin Uncommitted \cup {"idle"}
  BY PipelineStages DEF Uncommitted
<1>4. token \in Runs
  BY DEF AnalysisTypeOK, SharedTypeOK
<1>5. \A s \in Runs : s > token => stage'[s] = "idle" /\ ~cancelled'[s]
  BY <1>1 DEF Lifecycle
<1>6. ui' = "reanalyze_start" => stage'[token'] = "idle" /\ ~cancelled'[token']
  BY <1>1, <1>4 DEF Lifecycle
<1>7. stage'[token'] \in Uncommitted \cup {"idle"} => view' < token'
  BY <1>1, <1>2, <1>3, <1>4 DEF Lifecycle
<1>8. \A s \in Runs : stage'[s] = "announce" \/ "analysis_done" \in events'[s] => view' >= s
  BY <1>1, <1>2 DEF Lifecycle
<1> QED BY <1>5, <1>6, <1>7, <1>8 DEF Lifecycle

LEMMA LifecycleStep ==
    ASSUME AnalysisTypeOK, Lifecycle, [AnalysisNext]_RunVars
    PROVE  Lifecycle'
<1> USE DEF AnalysisTypeOK, SharedTypeOK, RunTypeOK, Lifecycle, Runs
<1>1. ASSUME NEW r \in Runs, StageOk(r) PROVE Lifecycle'
  <2>1. stage[r] \in Pipeline /\ NextStage[stage[r]] \in Pipeline \cup {"load"}
    BY <1>1, PipelineStages DEF StageOk
  <2>2. PICK then \in Pipeline \cup {"load", "quit"} : stage' = [stage EXCEPT ![r] = then]
    BY <1>1, <2>1 DEF StageOk, MoveRun
  <2>3. r <= token
    BY <2>1, PipelineStages
  <2> QED BY <1>1, <2>1, <2>2, <2>3, PipelineStages DEF StageOk, sharedVars, Uncommitted
<1>2. ASSUME NEW r \in Runs, StageFails(r) PROVE Lifecycle'
  <2>1. /\ stage[r] # "idle" /\ stage' = [stage EXCEPT ![r] = "quit"]
        /\ UNCHANGED <<ui, token, cancelled, view>>
    BY <1>2, PipelineStages DEF StageFails, MoveRun, CanFail
  <2>2. \A s \in Runs : "analysis_done" \in events'[s] => "analysis_done" \in events[s]
    BY <1>2 DEF StageFails
  <2> QED BY <2>1, <2>2, QuitKeepsLifecycle
<1>3. ASSUME NEW r \in Runs, LoadSaved(r) PROVE Lifecycle'
  BY <1>3, PipelineStages DEF LoadSaved, MoveRun, sharedVars, Uncommitted
<1>4. ASSUME NEW r \in Runs, Commit(r) PROVE Lifecycle'
  <2>1. CASE MayCommit(r)
    <3>1. /\ token = r /\ view' = r /\ stage' = [stage EXCEPT ![r] = "announce"]
          /\ UNCHANGED <<ui, token, cancelled, events>>
      BY <1>4, <2>1 DEF Commit, MayCommit, MoveRun
    <3>2. stage'[token] \notin Uncommitted \cup {"idle"}
      BY <3>1, PipelineStages DEF Uncommitted
    <3>3. \A s \in Runs :
             stage'[s] = "announce" \/ "analysis_done" \in events'[s] => view' >= s
      BY <3>1
    <3> QED BY <1>4, <3>1, <3>2, <3>3 DEF Commit
  <2>2. CASE ~MayCommit(r)
    <3>1. /\ stage[r] # "idle" /\ stage' = [stage EXCEPT ![r] = "quit"]
          /\ UNCHANGED <<ui, token, cancelled, view, events>>
      BY <1>4, <2>2 DEF Commit, MoveRun
    <3> QED BY <3>1, QuitKeepsLifecycle
  <2> QED BY <2>1, <2>2
<1>5. ASSUME NEW r \in Runs, Announce(r) PROVE Lifecycle'
  BY <1>5, PipelineStages DEF Announce, MoveRun, Uncommitted
<1>6. CASE CancelAnalysis
  BY <1>6 DEF CancelAnalysis, UiFree
<1>7. CASE ReanalyzeCancel
  BY <1>7 DEF ReanalyzeCancel, UiFree
<1>8. CASE ReanalyzeToken
  BY <1>8, MaxRunsAssumption DEF ReanalyzeToken
<1>9. CASE ReanalyzeStart
  BY <1>9, PipelineStages DEF ReanalyzeStart, MoveRun, sharedVars, Uncommitted
<1>10. CASE SaveAnalysis
  BY <1>10 DEF SaveAnalysis, sharedVars, UiFree
<1>11. CASE CloseWindow
  BY <1>11 DEF CloseWindow, UiFree
<1>12. CASE UNCHANGED RunVars
  BY <1>12 DEF RunVars, runVars, sharedVars
<1> QED
  BY <1>1, <1>2, <1>3, <1>4, <1>5, <1>6, <1>7, <1>8, <1>9, <1>10, <1>11, <1>12
  DEF AnalysisNext, RunStep, UiStep, Reanalyze

LEMMA LifecycleInit == AnalysisInit => Lifecycle
  BY MaxRunsAssumption DEF AnalysisInit, SharedInit, RunInit, Lifecycle, Runs

\* Every value the lifecycle keeps has its type, and the runs are ordered as
\* Lifecycle says.
THEOREM LifecycleInvariant == AnalysisSpec => [](AnalysisTypeOK /\ Lifecycle)
<1>1. AnalysisInit => AnalysisTypeOK /\ Lifecycle
  BY TypeInit, LifecycleInit
<1>2. AnalysisTypeOK /\ Lifecycle /\ [AnalysisNext]_RunVars => (AnalysisTypeOK /\ Lifecycle)'
  <2> SUFFICES ASSUME AnalysisTypeOK, Lifecycle, [AnalysisNext]_RunVars
               PROVE  AnalysisTypeOK' /\ Lifecycle'
    OBVIOUS
  <2>1. ui = "reanalyze_token" => token < MaxRuns
    BY DEF Lifecycle
  <2>2. AnalysisTypeOK'
    BY <2>1, TypeStep
  <2>3. Lifecycle'
    BY LifecycleStep
  <2> QED BY <2>2, <2>3
<1> QED BY <1>1, <1>2, PTL DEF AnalysisSpec

-----------------------------------------------------------------------------
(* The properties.                                                         *)

\* The types alone: what the runs check as the type invariant.
THEOREM AnalysisTypeCorrect == AnalysisSpec => []AnalysisTypeOK
  BY LifecycleInvariant, PTL

LEMMA OneLive == AnalysisTypeOK /\ Lifecycle => OneLiveRun
<1> SUFFICES ASSUME AnalysisTypeOK, Lifecycle, NEW r \in Runs, NEW s \in Runs, r # s,
                    stage[r] \in Uncommitted, stage[s] \in Uncommitted
             PROVE  cancelled[r] \/ cancelled[s]
  BY DEF OneLiveRun
<1>1. r <= token /\ s <= token
  BY PipelineStages DEF Lifecycle, Uncommitted, AnalysisTypeOK, SharedTypeOK, Runs
<1>2. r < token \/ s < token
  BY <1>1 DEF AnalysisTypeOK, SharedTypeOK, Runs
<1> QED BY <1>2 DEF Lifecycle

\* Whatever is reanalysed, cancelled or closed, and however long the old
\* worker threads live, no two runs can both reach the commit: of two that
\* are under way, one has been cancelled.
THEOREM OneLiveRunHolds == AnalysisSpec => []OneLiveRun
  BY OneLive, LifecycleInvariant, PTL

\* The page that boots on analysis_done always finds a committed analysis, of
\* that run or of a later one.
THEOREM AnnouncedIsCommittedHolds == AnalysisSpec => []AnnouncedIsCommitted
<1>1. AnalysisTypeOK /\ Lifecycle => AnnouncedIsCommitted
  BY DEF Lifecycle, AnnouncedIsCommitted
<1> QED BY <1>1, LifecycleInvariant, PTL

LEMMA CommitStep ==
    ASSUME AnalysisTypeOK, Lifecycle, AnalysisNext, view' # view
    PROVE  /\ view' = token /\ view < token /\ ~cancelled[token]
           /\ token' = token /\ cancelled' = cancelled
<1>1. PICK r \in Runs : Commit(r)
  BY DEF AnalysisNext, RunStep, UiStep, Reanalyze, StageOk, StageFails, LoadSaved, Announce,
         CancelAnalysis, ReanalyzeCancel, ReanalyzeToken, ReanalyzeStart, SaveAnalysis,
         CloseWindow, sharedVars
<1>2. MayCommit(r)
  BY <1>1 DEF Commit
<1> QED BY <1>1, <1>2 DEF Commit, MayCommit, Lifecycle, Uncommitted, AnalysisTypeOK, SharedTypeOK

\* The session never moves back to an older engine, nor to any run but its own.
THEOREM CommitsForwardHolds == AnalysisSpec => CommitsForward
<1>1. AnalysisTypeOK /\ Lifecycle /\ [AnalysisNext]_RunVars
        => [view' # view => view' > view /\ view' = token]_RunVars
  <2> SUFFICES ASSUME AnalysisTypeOK, Lifecycle, AnalysisNext, view' # view
               PROVE  view' > view /\ view' = token
    OBVIOUS
  <2> QED BY CommitStep DEF AnalysisTypeOK, SharedTypeOK, Runs
<1> QED BY <1>1, LifecycleInvariant, PTL DEF AnalysisSpec, CommitsForward

-----------------------------------------------------------------------------
(* Refinement.                                                             *)

\* A step of the lifecycle is a withdrawal, a request, a showing or a stutter.
LEMMA PromiseStep ==
    AnalysisTypeOK /\ Lifecycle /\ [AnalysisNext]_RunVars
        => [Promise!PublishedNext]_(Promise!publishedVars)
<1> SUFFICES ASSUME AnalysisTypeOK, Lifecycle, [AnalysisNext]_RunVars
             PROVE  [Promise!PublishedNext]_(Promise!publishedVars)
  OBVIOUS
<1> USE DEF Promise!PublishedNext, Promise!publishedVars
<1>1. CASE view' # view
  <2>1. AnalysisNext
    BY <1>1 DEF RunVars, sharedVars
  <2> QED BY <1>1, <2>1, CommitStep DEF Promise!Show
<1>2. CASE view' = view /\ token' = token
  <2>1. cancelled' = cancelled \/ cancelled' = [cancelled EXCEPT ![token] = TRUE]
    BY DEF AnalysisNext, RunStep, UiStep, Reanalyze, StageOk, StageFails, LoadSaved, Commit,
           Announce, CancelAnalysis, ReanalyzeCancel, ReanalyzeToken, ReanalyzeStart,
           SaveAnalysis, CloseWindow, sharedVars, RunVars
  <2>2. cancelled'[token] = cancelled[token] \/ cancelled'[token] = TRUE
    BY <2>1 DEF AnalysisTypeOK, SharedTypeOK
  <2> QED BY <1>2, <2>2 DEF Promise!Withdraw
<1>3. CASE view' = view /\ token' # token
  <2>1. ReanalyzeToken
    BY <1>3 DEF AnalysisNext, RunStep, UiStep, Reanalyze, StageOk, StageFails, LoadSaved,
                Commit, Announce, CancelAnalysis, ReanalyzeCancel, ReanalyzeStart,
                SaveAnalysis, CloseWindow, sharedVars, RunVars
  <2>2. token + 1 \in Runs /\ token + 1 > token
    BY <2>1, MaxRunsAssumption
    DEF ReanalyzeToken, Lifecycle, AnalysisTypeOK, SharedTypeOK, Runs
  <2>3. ~cancelled[token + 1] /\ cancelled[token]
    BY <2>1, <2>2 DEF ReanalyzeToken, Lifecycle
  <2>4. cancelled[token] = TRUE /\ cancelled[token + 1] = FALSE
    BY <2>2, <2>3 DEF AnalysisTypeOK, SharedTypeOK
  <2> QED BY <2>1, <2>4 DEF ReanalyzeToken, Promise!Request
<1> QED BY <1>1, <1>2, <1>3

LEMMA PromiseInit == SharedInit => Promise!PublishedInit
  BY MaxRunsAssumption DEF SharedInit, Promise!PublishedInit, Runs

\* The session with its threads implements what the window is promised: every
\* step of the lifecycle is a request, a withdrawal, a showing or a stutter.
THEOREM KeepsPromiseHolds == AnalysisSpec => KeepsPromise
<1>1. AnalysisInit => Promise!PublishedInit
  BY PromiseInit DEF AnalysisInit
<1> QED
  BY <1>1, PromiseStep, LifecycleInvariant, PTL
  DEF AnalysisSpec, KeepsPromise, Promise!PublishedSpec
=============================================================================
