---------------------------- MODULE SessionProofs ----------------------------
(***************************************************************************)
(* The composed session, for every number of runs, functions, workers and  *)
(* requests: what the UI thread, the runs, their passes and the threads of *)
(* the requests promise together.  The invariant has a part per kind of    *)
(* thread, and one about every body the session holds; a step of one       *)
(* thread is examined once, for what it can do to the parts of the others. *)
(***************************************************************************)
EXTENDS Session, AnalysisProofs, BackgroundProofs

-----------------------------------------------------------------------------
(* The requests.                                                           *)

\* The places a request can be at, by what was asked; it has an engine from
\* the moment it is about to use one, and a result only behind that use.
RequestControl ==
    \A q \in Requests :
        /\ at[q] = "missed" => kind[q] \in {"pseudocode", "pseudocode_sm"}
        /\ at[q] \in {"retyping", "removing"} => kind[q] = "retype"
        /\ at[q] = "leaving" => kind[q] # "retype"
        /\ at[q] = "publishing" => kind[q] # "frame"
        /\ at[q] = "publishing" /\ kind[q] = "retype" => engine[q] # 0
        /\ at[q] \in {"retyping", "removing", "waiting", "running", "leaving"} => engine[q] # 0
        /\ at[q] \notin {"leaving", "publishing", "over"} => code[q] = {}
        /\ engine[q] <= view

\* The UI thread is in one handler at a time, and the type it is about to
\* change has a version left.
OneHandler ==
    /\ \A p, q \in Requests : InHandler(p) /\ InHandler(q) => p = q
    /\ \A q \in Requests :
          at[q] = "retyping" => types[engine[q]][target[q]] < MaxRetypes

HoldsGuard(q) == at[q] \in {"running", "leaving"} \/ (at[q] = "publishing" /\ kind[q] = "retype")

InEngine(q) == at[q] \in {"running", "leaving"}

\* ondemand_guard is with the thread that says so, and while it is out of
\* the engine DS_FORCE_SM is unset.
GuardInv ==
    /\ \A q \in Requests : HoldsGuard(q) <=> guard = {q}
    /\ \A q \in Requests : InEngine(q) => ~hadSm[q] /\ (env.sm <=> Sm(q))
    /\ (\A q \in Requests : ~InEngine(q)) => ~env.sm

\* What a retype asked for is in the type store until its body is made.
VersionsKept ==
    \A q \in Requests :
        kind[q] = "retype" /\ at[q] \in {"removing", "waiting", "running"}
        => types[engine[q]][target[q]] >= asked[q]

AnswersFit ==
    \A q \in Requests :
        kind[q] = "retype" /\ at[q] \in {"publishing", "over"}
        => \A b \in code[q] : b.ver >= asked[q]

RequestInv ==
    /\ RequestControl
    /\ OneHandler
    /\ GuardInv
    /\ VersionsKept
    /\ AnswersFit
    /\ FormAsAsked

-----------------------------------------------------------------------------
(* The passes.                                                             *)

\* A pass belongs to a run that has committed, and begins with empty hands.
PassOfCommittedAt(r) ==
    /\ stage[r] = "decompiling" => view >= r
    /\ pass[r] # "none" => stage[r] = "decompiling"
    /\ pass[r] = "none" =>
          /\ next[r] = 0 /\ done[r] = 0
          /\ \A w \in Workers : wpc[r][w] = "unspawned"
    /\ "decompile_complete" \in events[r] => pass[r] = "complete"

PassOfCommitted == \A r \in Runs : PassOfCommittedAt(r)

\* A retype has taken the body of f out of the cache and will put one back.
BeingRetyped(f) ==
    \E q \in Requests :
        /\ kind[q] = "retype" /\ target[q] = f
        /\ at[q] \in {"waiting", "running", "publishing"}

\* A retyped function the engine has a body for is answered with one.
RetypesHaveBodies ==
    \A q \in Requests :
        kind[q] = "retype" /\ at[q] = "publishing" /\ target[q] \notin Opaque => code[q] # {}

Cached(f) == f \in DOMAIN cache \/ BeingRetyped(f)

\* NothingLost beside requests.
NothingLostBeside(r) ==
    cancelled[r] \/
        \A f \in Funcs \ Opaque :
            f < next[r] => Cached(f) \/ \E w \in Workers : f \in InHand(r, w)

CompleteBeside(r) ==
    "decompile_complete" \in events[r] => cancelled[r] \/ \A f \in Funcs \ Opaque : Cached(f)

WorkersBeside(r) ==
    /\ OwnBodies(r)
    /\ ParkedIsEmpty(r)
    /\ NothingLostBeside(r)
    /\ StopsAtTheEnd(r)
    /\ SomebodyCounted(r)
    /\ JoinsWhenCounted(r)
    /\ CompleteBeside(r)

PassInv ==
    /\ PassOfCommitted
    /\ RetypesHaveBodies
    /\ \A r \in Runs : WorkersBeside(r)

-----------------------------------------------------------------------------
(* The bodies.                                                             *)

\* A body that can be served, now or later: in the cache, in a saved file or
\* loaded from it, in a worker's batch or in the hands of a request that
\* publishes what it gets.
Kept(b) ==
    \/ \E f \in DOMAIN cache : b = cache[f]
    \/ \E m \in saved : \E f \in DOMAIN m : b = m[f]
    \/ \E r \in Runs : \E m \in preloaded[r] : \E f \in DOMAIN m : b = m[f]
    \/ \E r \in Runs : \E w \in Workers : \E f \in DOMAIN batch[r][w] : b = batch[r][w][f]
    \/ \E q \in Requests : Markers(q) /\ b \in code[q]

NobodyAhead == \A b \in Body : Kept(b) => b.run <= view

\* DS_LINE_ADDR is set as long as a pass or a request relies on it and no
\* pass has ended.
MarksInv ==
    (\A r \in Runs : pass[r] # "complete") =>
        /\ (\E r \in Runs : pass[r] # "none") => env.marks
        /\ \A q \in Requests : Markers(q) /\ at[q] = "running" => env.marks
        /\ \A b \in Body : Kept(b) => b.marks

SessionInv ==
    /\ TypeOK
    /\ Lifecycle
    /\ RequestInv
    /\ PassInv
    /\ NobodyAhead
    /\ MarksInv

-----------------------------------------------------------------------------
(* The steps, by the thread that makes them.                               *)

AnalysisPart == AnalysisNext /\ UNCHANGED <<poolVars, requestVars>>

StepOfPass(r) ==
    \/ stage[r] = "decompiling" /\ StartPass(r)
    \/ PassStep(r)
    \/ \E w \in Workers : WorkerStep(r, w)

PoolPart == (\E r \in Runs : StepOfPass(r)) /\ UNCHANGED <<runVars, requestVars>>

StepOfRequest(q) ==
    \/ ~UiInRequest /\ Send(q)
    \/ HandlerStep(q)
    \/ ThreadStep(q)

RequestPart == (\E q \in Requests : StepOfRequest(q)) /\ UNCHANGED <<runVars, poolVars>>

LEMMA StepKinds == Next => AnalysisPart \/ PoolPart \/ RequestPart
  BY DEF Next, UiHandler, RequestHandler, RequestGoesOn, AnalysisThread, PassThread, Worker,
         RequestThread, AnalysisPart, PoolPart, RequestPart, AnalysisNext, StepOfPass,
         StepOfRequest

-----------------------------------------------------------------------------
(* Type correctness.                                                       *)

OptionalBody == {{}} \cup {{b} : b \in Body}

LEMMA EngineTypes ==
    ASSUME TypeOK, NEW q \in Requests, engine[q] # 0
    PROVE  /\ engine[q] \in Runs /\ target[q] \in Funcs
           /\ Decompiled(engine[q], target[q]) \in Body
           /\ types[engine[q]][target[q]] \in 0..MaxRetypes
<1>1. engine[q] \in Runs /\ target[q] \in Funcs
  BY MaxRunsAssumption DEF TypeOK, RequestTypeOK, Runs
<1> QED BY <1>1, DecompiledIsBody DEF TypeOK, SharedTypeOK

LEMMA VersionType ==
    ASSUME TypeOK, NEW f \in Funcs
    PROVE  VersionOf(view, f) \in 0..MaxRetypes
  BY MaxRetypesAssumption, MaxRunsAssumption DEF TypeOK, SharedTypeOK, VersionOf, Runs

LEMMA CachedIsBody ==
    ASSUME TypeOK, NEW f \in DOMAIN cache
    PROVE  cache[f] \in Body
  BY CacheMapParts DEF TypeOK, SharedTypeOK

LEMMA SendTypes ==
    ASSUME TypeOK, NEW q \in Requests, Send(q)
    PROVE  RequestTypeOK' /\ UNCHANGED sharedVars
<1> USE DEF TypeOK, RequestTypeOK, Places
<1>0. view \in 0..MaxRuns
  BY DEF SharedTypeOK
<1>1. ASSUME NEW f \in Funcs, PseudocodeCached(q, f) PROVE RequestTypeOK' /\ UNCHANGED sharedVars
  <2>1. cache[f] \in Body /\ VersionOf(view, f) \in 0..MaxRetypes
    BY <1>1, CachedIsBody, VersionType DEF PseudocodeCached
  <2> QED BY <1>0, <1>1, <2>1 DEF PseudocodeCached, Receive, Reply, Move, Kinds
<1>2. ASSUME NEW f \in Funcs, NEW k \in Kinds, PseudocodeMissed(q, k, f)
      PROVE  RequestTypeOK' /\ UNCHANGED sharedVars
  <2>1. VersionOf(view, f) \in 0..MaxRetypes
    BY VersionType
  <2> QED BY <1>0, <1>2, <2>1 DEF PseudocodeMissed, Receive, Move
<1>3. ASSUME NEW f \in Funcs, NEW k \in Kinds, NoAnalysis(q, k, f)
      PROVE  RequestTypeOK' /\ UNCHANGED sharedVars
  BY <1>0, <1>3 DEF NoAnalysis, Receive, Reply, Move
<1>4. ASSUME NEW f \in Funcs, AskRetype(q, f) PROVE RequestTypeOK' /\ UNCHANGED sharedVars
  BY <1>0, <1>4 DEF AskRetype, Receive, Move, Kinds
<1>5. ASSUME NEW f \in Funcs, AskFrame(q, f) PROVE RequestTypeOK' /\ UNCHANGED sharedVars
  <2>1. VersionOf(view, f) \in 0..MaxRetypes
    BY VersionType
  <2> QED BY <1>0, <1>5, <2>1 DEF AskFrame, Receive, Move, Kinds
<1> QED BY <1>1, <1>2, <1>3, <1>4, <1>5 DEF Send

\* set_var_type has a version left to count up to: AskRetype saw one, and no
\* other handler has run since.
LEMMA HandlerTypes ==
    ASSUME TypeOK, RequestControl, OneHandler, NEW q \in Requests, HandlerStep(q)
    PROVE  RequestTypeOK' /\ SharedTypeOK'
<1> USE DEF TypeOK, RequestTypeOK, Places
<1>1. CASE SpawnPseudocode(q)
  BY <1>1 DEF SpawnPseudocode, Move, sharedVars, SharedTypeOK
<1>2. CASE SetVarType(q)
  <2>1. /\ engine[q] \in Runs /\ target[q] \in Funcs
        /\ types[engine[q]][target[q]] + 1 \in 0..MaxRetypes
    BY <1>2, EngineTypes, MaxRetypesAssumption DEF SetVarType, RequestControl, OneHandler
  <2>2. types' \in [Runs -> [Funcs -> 0..MaxRetypes]]
    BY <1>2, <2>1 DEF SetVarType, SharedTypeOK
  <2>3. RequestTypeOK'
    BY <1>2, <2>1 DEF SetVarType, Move
  <2> QED BY <1>2, <2>2, <2>3 DEF SetVarType, SharedTypeOK
<1>3. CASE RetypeRemove(q)
  <2>1. cache' \in CacheMaps
    BY <1>3, RemoveFacts DEF RetypeRemove, SharedTypeOK
  <2>2. RequestTypeOK'
    BY <1>3 DEF RetypeRemove, Move
  <2> QED BY <1>3, <2>1, <2>2 DEF RetypeRemove, SharedTypeOK
<1> QED BY <1>1, <1>2, <1>3 DEF HandlerStep

\* What a request has computed, taken out of the option.
LEMMA CodeBody ==
    ASSUME TypeOK, NEW q \in Requests, code[q] # {}
    PROVE  /\ (CHOOSE b \in code[q] : TRUE) \in Body
           /\ code[q] = {CHOOSE b \in code[q] : TRUE}
<1>1. PICK b \in Body : code[q] = {b}
  BY DEF TypeOK, RequestTypeOK
<1> QED BY <1>1

\* What PublishReply leaves in the cache.
LEMMA PublishedReply ==
    ASSUME TypeOK, NEW q \in Requests, PublishReply(q)
    PROVE  /\ cache' \in CacheMaps
           /\ DOMAIN cache \subseteq DOMAIN cache'
           /\ code[q] # {} /\ ~Sm(q) => target[q] \in DOMAIN cache'
           /\ \A f \in DOMAIN cache' :
                 \/ f \in DOMAIN cache /\ cache'[f] = cache[f]
                 \/ cache'[f] \in code[q] /\ code[q] # {}
<1>1. cache \in CacheMaps /\ target[q] \in Funcs
  BY DEF TypeOK, SharedTypeOK, RequestTypeOK
<1>2. CASE code[q] # {} /\ ~Sm(q)
  <2> DEFINE b == CHOOSE b \in code[q] : TRUE
  <2>1. b \in Body /\ code[q] = {b}
    BY <1>2, CodeBody
  <2>2. cache' = Insert(cache, target[q], b)
    BY <1>2 DEF PublishReply
  <2> HIDE DEF b
  <2>3. /\ cache' \in CacheMaps
        /\ DOMAIN cache' = DOMAIN cache \cup {target[q]}
        /\ cache'[target[q]] = b
        /\ \A g \in DOMAIN cache : g # target[q] => cache'[g] = cache[g]
    BY <1>1, <2>1, <2>2, InsertFacts
  <2> QED BY <2>1, <2>3
<1>3. CASE ~(code[q] # {} /\ ~Sm(q))
  BY <1>1, <1>3 DEF PublishReply
<1> QED BY <1>2, <1>3

LEMMA ThreadTypes ==
    ASSUME TypeOK, RequestControl, NEW q \in Requests, ThreadStep(q)
    PROVE  RequestTypeOK' /\ SharedTypeOK'
<1> USE DEF TypeOK, RequestTypeOK, Places
<1>1. CASE TakeGuard(q)
  <2>1. RequestTypeOK'
    BY <1>1 DEF TakeGuard, Move, SharedTypeOK
  <2>2. SharedTypeOK'
    BY <1>1 DEF TakeGuard, SharedTypeOK
  <2> QED BY <2>1, <2>2
<1>2. CASE RunEngine(q)
  <2>1. Decompiled(engine[q], target[q]) \in Body
    BY <1>2, EngineTypes DEF RunEngine, RequestControl
  <2>2. PICK c \in OptionalBody : code' = [code EXCEPT ![q] = c]
    BY <1>2, <2>1 DEF RunEngine, OptionalBody
  <2>3. code' \in [Requests -> OptionalBody]
    BY <2>2 DEF OptionalBody
  <2>4. at' \in [Requests -> Places]
    BY <1>2 DEF RunEngine, Move
  <2> QED BY <1>2, <2>3, <2>4 DEF RunEngine, OptionalBody, sharedVars, SharedTypeOK
<1>3. CASE LeaveGuard(q)
  <2>1. RequestTypeOK'
    BY <1>3 DEF LeaveGuard, Move
  <2>2. env' \in [sm : BOOLEAN, marks : BOOLEAN]
    BY <1>3 DEF LeaveGuard, SharedTypeOK
  <2> QED BY <1>3, <2>1, <2>2 DEF LeaveGuard, SharedTypeOK
<1>4. CASE PublishReply(q)
  <2>1. cache' \in CacheMaps
    BY <1>4, PublishedReply
  <2>2. RequestTypeOK'
    BY <1>4 DEF PublishReply, Reply, Move
  <2> QED BY <1>4, <2>1, <2>2 DEF PublishReply, SharedTypeOK
<1>5. CASE ReplyFrame(q)
  <2>1. reply' \in [Requests -> {"none", "ok", "err"}] /\ at' \in [Requests -> Places]
    BY <1>5 DEF ReplyFrame, Reply, Move
  <2>2. guard' \in {{}} \cup {{p} : p \in Requests}
    BY <1>5 DEF ReplyFrame
  <2>3. RequestTypeOK'
    BY <1>5, <2>1, <2>2 DEF ReplyFrame
  <2>4. SharedTypeOK'
    BY <1>5 DEF ReplyFrame, sharedVars, SharedTypeOK
  <2> QED BY <2>3, <2>4
<1> QED BY <1>1, <1>2, <1>3, <1>4, <1>5 DEF ThreadStep

LEMMA SessionTypeInit == Init => TypeOK
<1> SUFFICES ASSUME Init PROVE TypeOK
  OBVIOUS
<1>1. AnalysisTypeOK
  BY TypeInit DEF Init, AnalysisInit
<1>2. PassTypeOK
  BY PassTypeInit DEF Init, PassInit
<1>3. 0 \in Funcs /\ 0 \in 0..MaxRuns /\ 0 \in 0..MaxRetypes
  BY TotalAssumption, MaxRunsAssumption, MaxRetypesAssumption DEF Funcs
<1>4. RequestTypeOK
  BY <1>3 DEF Init, RequestInit, RequestTypeOK, Kinds, Places
<1> QED BY <1>1, <1>2, <1>4 DEF TypeOK, AnalysisTypeOK, PassTypeOK

LEMMA SessionTypeStep ==
    ASSUME TypeOK, Lifecycle, RequestControl, OneHandler, [Next]_vars
    PROVE  TypeOK'
<1>1. AnalysisTypeOK /\ PassTypeOK
  BY DEF TypeOK, AnalysisTypeOK, PassTypeOK
<1>2. CASE AnalysisPart
  <2>1. AnalysisTypeOK'
    BY <1>1, <1>2, TypeStep DEF AnalysisPart, Lifecycle
  <2>2. PoolTypeOK' /\ RequestTypeOK'
    BY <1>2 DEF AnalysisPart, TypeOK, PoolTypeOK, RequestTypeOK, poolVars, requestVars
  <2> QED BY <2>1, <2>2 DEF AnalysisTypeOK, TypeOK
<1>3. CASE PoolPart
  <2>1. PassNext
    BY <1>3 DEF PoolPart, StepOfPass, PassNext
  <2>2. PassTypeOK'
    BY <1>1, <2>1, PassTypeStep
  <2>3. RunTypeOK' /\ RequestTypeOK'
    BY <1>3 DEF PoolPart, TypeOK, RunTypeOK, RequestTypeOK, runVars, requestVars
  <2> QED BY <2>2, <2>3 DEF PassTypeOK, TypeOK
<1>4. CASE RequestPart
  <2>1. RunTypeOK' /\ PoolTypeOK'
    BY <1>4 DEF RequestPart, TypeOK, RunTypeOK, PoolTypeOK, runVars, poolVars
  <2>2. PICK q \in Requests : StepOfRequest(q)
    BY <1>4 DEF RequestPart
  <2>3. RequestTypeOK' /\ SharedTypeOK'
    <3>1. CASE Send(q)
      <4>1. RequestTypeOK' /\ UNCHANGED sharedVars
        BY <3>1, SendTypes
      <4> QED BY <4>1 DEF sharedVars, TypeOK, SharedTypeOK
    <3> QED BY <2>2, <3>1, HandlerTypes, ThreadTypes DEF StepOfRequest
  <2> QED BY <2>1, <2>3 DEF TypeOK
<1>5. CASE UNCHANGED vars
  BY <1>5
  DEF vars, sharedVars, runVars, poolVars, requestVars, TypeOK, SharedTypeOK, RunTypeOK,
      PoolTypeOK, RequestTypeOK
<1> QED BY <1>2, <1>3, <1>4, <1>5, StepKinds

-----------------------------------------------------------------------------
(* What the other threads see of a step.                                   *)

LEMMA AnalysisFrame ==
    ASSUME TypeOK, Lifecycle, AnalysisPart
    PROVE  /\ UNCHANGED <<poolVars, requestVars, types, env>>
           /\ view <= view' /\ view \in Int /\ view' \in Int
           /\ \A r \in Runs : cancelled[r] => cancelled'[r]
<1>1. AnalysisTypeOK
  BY DEF TypeOK, AnalysisTypeOK
<1>2. view \in Int /\ token \in Int
  BY DEF TypeOK, SharedTypeOK, Runs
<1>3. view' = view \/ (view' = token /\ view < token)
  BY <1>1, CommitStep DEF AnalysisPart
<1>4. \/ cancelled' = cancelled
      \/ cancelled' = [cancelled EXCEPT ![token] = TRUE]
  BY DEF AnalysisPart, AnalysisNext, RunStep, UiStep, Reanalyze, StageOk, StageFails, LoadSaved,
         Commit, Announce, CancelAnalysis, ReanalyzeCancel, ReanalyzeToken, ReanalyzeStart,
         SaveAnalysis, CloseWindow, sharedVars
<1>5. \A r \in Runs : cancelled[r] => cancelled'[r]
  BY <1>4 DEF TypeOK, SharedTypeOK
<1>6. UNCHANGED <<types, env>>
  BY DEF AnalysisPart, AnalysisNext, RunStep, UiStep, Reanalyze, StageOk, StageFails, LoadSaved,
         Commit, Announce, CancelAnalysis, ReanalyzeCancel, ReanalyzeToken, ReanalyzeStart,
         SaveAnalysis, CloseWindow, sharedVars
<1> QED BY <1>2, <1>3, <1>5, <1>6 DEF AnalysisPart

LEMMA PoolFrame ==
    ASSUME TypeOK, PoolPart
    PROVE  /\ UNCHANGED <<runVars, requestVars, token, cancelled, view, types>>
           /\ env'.sm = env.sm
           /\ \A r \in Runs : "analysis_done" \in events'[r] => "analysis_done" \in events[r]
<1>1. PICK r \in Runs : StepOfPass(r)
  BY DEF PoolPart
<1>2. UNCHANGED <<token, cancelled, view, types>>
  BY <1>1 DEF StepOfPass, StartPass, PassStep, WorkerStep, SpawnWorker, SpawnFails, AllSpawned,
              StopReporting, Complete, Claim, Decompile, Publish, Drain, sharedVars
<1>3. \/ env' = env \/ env' = [env EXCEPT !.marks = TRUE] \/ env' = [env EXCEPT !.marks = FALSE]
  BY <1>1 DEF StepOfPass, StartPass, PassStep, WorkerStep, SpawnWorker, SpawnFails, AllSpawned,
              StopReporting, Complete, Claim, Decompile, Publish, Drain, sharedVars
<1>4. env'.sm = env.sm
  BY <1>3 DEF TypeOK, SharedTypeOK
<1>5. events' = events \/ events' = [events EXCEPT ![r] = @ \cup {"decompile_complete"}]
  BY <1>1 DEF StepOfPass, StartPass, PassStep, WorkerStep, SpawnWorker, SpawnFails, AllSpawned,
              StopReporting, Complete, Claim, Decompile, Publish, Drain, sharedVars
<1>6. \A s \in Runs : "analysis_done" \in events'[s] => "analysis_done" \in events[s]
  BY <1>5 DEF TypeOK, SharedTypeOK
<1> QED BY <1>2, <1>4, <1>6 DEF PoolPart

LEMMA RequestFrame ==
    ASSUME RequestPart
    PROVE  UNCHANGED <<runVars, poolVars, token, cancelled, view, events>>
  BY DEF RequestPart, StepOfRequest, Send, HandlerStep, ThreadStep, PseudocodeCached,
         PseudocodeMissed, NoAnalysis, AskRetype, AskFrame, SpawnPseudocode, SetVarType,
         RetypeRemove, TakeGuard, RunEngine, LeaveGuard, PublishReply, ReplyFrame, sharedVars

LEMMA SessionLifecycleStep ==
    ASSUME TypeOK, Lifecycle, [Next]_vars
    PROVE  Lifecycle'
<1>1. AnalysisTypeOK
  BY DEF TypeOK, AnalysisTypeOK
<1>2. CASE AnalysisPart
  BY <1>1, <1>2, LifecycleStep DEF AnalysisPart
<1>3. ASSUME UNCHANGED <<runVars, token, cancelled, view>>,
             \A r \in Runs : "analysis_done" \in events'[r] => "analysis_done" \in events[r]
      PROVE  Lifecycle'
  BY <1>3 DEF Lifecycle, runVars
<1>4. CASE PoolPart
  BY <1>3, <1>4, PoolFrame
<1>5. CASE RequestPart
  BY <1>3, <1>5, RequestFrame
<1>6. CASE UNCHANGED vars
  BY <1>3, <1>6 DEF vars, sharedVars
<1> QED BY <1>2, <1>4, <1>5, <1>6, StepKinds

-----------------------------------------------------------------------------
(* The requests.                                                           *)

\* A step of one request leaves the records of the others alone.
OthersKept(q) ==
    \A p \in Requests \ {q} :
        /\ kind'[p] = kind[p] /\ target'[p] = target[p] /\ engine'[p] = engine[p]
        /\ asked'[p] = asked[p] /\ at'[p] = at[p] /\ hadSm'[p] = hadSm[p]
        /\ code'[p] = code[p]

LEMMA RequestLocal ==
    ASSUME TypeOK, NEW q \in Requests, StepOfRequest(q)
    PROVE  OthersKept(q)
<1> USE DEF TypeOK, RequestTypeOK, OthersKept
<1>1. CASE Send(q)
  <2>1. kind' = [kind EXCEPT ![q] = kind'[q]] /\ target' = [target EXCEPT ![q] = target'[q]]
    BY <1>1 DEF Send, PseudocodeCached, PseudocodeMissed, NoAnalysis, AskRetype, AskFrame, Receive
  <2>2. engine' = [engine EXCEPT ![q] = engine'[q]] /\ hadSm' = hadSm
    BY <1>1 DEF Send, PseudocodeCached, PseudocodeMissed, NoAnalysis, AskRetype, AskFrame, Receive
  <2>3. asked' = [asked EXCEPT ![q] = asked'[q]]
    BY <1>1 DEF Send, PseudocodeCached, PseudocodeMissed, NoAnalysis, AskRetype, AskFrame
  <2>4. at' = [at EXCEPT ![q] = at'[q]]
    BY <1>1
    DEF Send, PseudocodeCached, PseudocodeMissed, NoAnalysis, AskRetype, AskFrame, Move
  <2>5. code' = [code EXCEPT ![q] = code'[q]]
    BY <1>1 DEF Send, PseudocodeCached, PseudocodeMissed, NoAnalysis, AskRetype, AskFrame
  <2> QED BY <2>1, <2>2, <2>3, <2>4, <2>5
<1>2. CASE HandlerStep(q)
  BY <1>2 DEF HandlerStep, SpawnPseudocode, SetVarType, RetypeRemove, Move
<1>3. CASE TakeGuard(q) \/ LeaveGuard(q) \/ PublishReply(q) \/ ReplyFrame(q)
  BY <1>3 DEF TakeGuard, LeaveGuard, PublishReply, ReplyFrame, Move
<1>4. CASE RunEngine(q)
  BY <1>4 DEF RunEngine, Move
<1> QED BY <1>1, <1>2, <1>3, <1>4 DEF StepOfRequest, ThreadStep

LEMMA RequestsUntouched ==
    ASSUME TypeOK, RequestInv, UNCHANGED <<requestVars, types>>, env'.sm = env.sm,
           view <= view', view \in Int, view' \in Int
    PROVE  RequestInv'
<1> USE DEF requestVars
<1>1. RequestControl'
  <2>1. \A q \in Requests : engine[q] \in Int
    BY DEF TypeOK, RequestTypeOK
  <2> QED BY <2>1 DEF RequestInv, RequestControl
<1>2. OneHandler'
  BY DEF RequestInv, OneHandler, InHandler
<1>3. GuardInv'
  BY DEF RequestInv, GuardInv, HoldsGuard, InEngine, Sm
<1>4. VersionsKept' /\ AnswersFit'
  BY DEF RequestInv, VersionsKept, AnswersFit
<1>5. FormAsAsked'
  BY DEF RequestInv, FormAsAsked, Computed, Sm
<1> QED BY <1>1, <1>2, <1>3, <1>4, <1>5 DEF RequestInv

\* The records of the request that takes the step, per action.
LEMMA SendFacts ==
    ASSUME TypeOK, RequestControl, NEW q \in Requests, Send(q)
    PROVE  /\ at[q] = "unsent" /\ code[q] = {}
           /\ engine'[q] = view /\ hadSm'[q] = hadSm[q]
           /\ UNCHANGED <<guard, token, cancelled, view, cache, types, env, events>>
           /\ \/ /\ kind'[q] = "pseudocode" /\ at'[q] = "over"
                 /\ \E f \in DOMAIN cache : code'[q] = {cache[f]}
              \/ at'[q] = "missed" /\ kind'[q] \in {"pseudocode", "pseudocode_sm"} /\ code'[q] = {}
              \/ at'[q] = "over" /\ kind'[q] \in {"retype", "frame"} /\ code'[q] = {}
              \/ /\ at'[q] = "retyping" /\ kind'[q] = "retype" /\ code'[q] = {} /\ view # 0
                 /\ types[view][target'[q]] < MaxRetypes
              \/ at'[q] = "waiting" /\ kind'[q] = "frame" /\ code'[q] = {} /\ view # 0
<1> USE DEF TypeOK, RequestTypeOK, sharedVars
<1>1. at[q] = "unsent" /\ code[q] = {}
  BY DEF Send, PseudocodeCached, PseudocodeMissed, NoAnalysis, AskRetype, AskFrame, Receive,
         RequestControl
<1>2. engine'[q] = view /\ hadSm'[q] = hadSm[q]
  BY DEF Send, PseudocodeCached, PseudocodeMissed, NoAnalysis, AskRetype, AskFrame, Receive
<1>3. UNCHANGED <<guard, token, cancelled, view, cache, types, env, events>>
  BY DEF Send, PseudocodeCached, PseudocodeMissed, NoAnalysis, AskRetype, AskFrame, Receive
<1>4. ASSUME NEW f \in Funcs, PseudocodeCached(q, f)
      PROVE  /\ kind'[q] = "pseudocode" /\ at'[q] = "over"
             /\ \E g \in DOMAIN cache : code'[q] = {cache[g]}
  BY <1>4 DEF PseudocodeCached, Receive, Move
<1>5. ASSUME NEW f \in Funcs, NEW k \in Kinds, PseudocodeMissed(q, k, f)
      PROVE  at'[q] = "missed" /\ kind'[q] \in {"pseudocode", "pseudocode_sm"} /\ code'[q] = {}
  BY <1>1, <1>5 DEF PseudocodeMissed, Receive, Move
<1>6. ASSUME NEW f \in Funcs, NEW k \in Kinds, NoAnalysis(q, k, f)
      PROVE  at'[q] = "over" /\ kind'[q] \in {"retype", "frame"} /\ code'[q] = {}
  BY <1>1, <1>6 DEF NoAnalysis, Receive, Move
<1>7. ASSUME NEW f \in Funcs, AskRetype(q, f)
      PROVE  /\ at'[q] = "retyping" /\ kind'[q] = "retype" /\ code'[q] = {} /\ view # 0
             /\ types[view][target'[q]] < MaxRetypes
  BY <1>1, <1>7 DEF AskRetype, Receive, Move
<1>8. ASSUME NEW f \in Funcs, AskFrame(q, f)
      PROVE  at'[q] = "waiting" /\ kind'[q] = "frame" /\ code'[q] = {} /\ view # 0
  BY <1>1, <1>8 DEF AskFrame, Receive, Move
<1> QED BY <1>1, <1>2, <1>3, <1>4, <1>5, <1>6, <1>7, <1>8 DEF Send

LEMMA SpawnFacts ==
    ASSUME TypeOK, NEW q \in Requests, SpawnPseudocode(q)
    PROVE  /\ at[q] = "missed" /\ engine'[q] = view /\ kind'[q] = kind[q] /\ code'[q] = code[q]
           /\ view = 0 => at'[q] = "publishing"
           /\ view # 0 => at'[q] = "waiting"
           /\ UNCHANGED <<guard, hadSm, cache, types, env, view>>
  BY DEF SpawnPseudocode, Move, TypeOK, RequestTypeOK, sharedVars

LEMMA SetTypeFacts ==
    ASSUME TypeOK, RequestControl, NEW q \in Requests, SetVarType(q)
    PROVE  /\ at[q] = "retyping" /\ at'[q] = "removing" /\ kind[q] = "retype"
           /\ UNCHANGED <<kind, target, engine, code, guard, hadSm, cache, env, view>>
           /\ asked'[q] = types'[engine[q]][target[q]]
           /\ \A r \in Runs, f \in Funcs :
                 types[r][f] \in Int /\ types'[r][f] \in Int /\ types[r][f] <= types'[r][f]
<1>1. at[q] = "retyping" /\ engine[q] # 0 /\ kind[q] = "retype"
  BY DEF SetVarType, RequestControl
<1>2. engine[q] \in Runs /\ target[q] \in Funcs
  BY <1>1, EngineTypes
<1>3. types \in [Runs -> [Funcs -> 0..MaxRetypes]]
  BY DEF TypeOK, SharedTypeOK
<1>4. \A r \in Runs, f \in Funcs :
         types'[r][f] = IF r = engine[q] /\ f = target[q] THEN types[r][f] + 1 ELSE types[r][f]
  BY <1>2, <1>3 DEF SetVarType
<1>5. \A r \in Runs, f \in Funcs : types[r][f] \in Int
  BY <1>3, MaxRetypesAssumption
<1>6. asked'[q] = types[engine[q]][target[q]] + 1 /\ at'[q] = "removing"
  BY DEF SetVarType, Move, TypeOK, RequestTypeOK
<1> QED BY <1>1, <1>2, <1>4, <1>5, <1>6 DEF SetVarType

LEMMA RemoveStepFacts ==
    ASSUME TypeOK, NEW q \in Requests, RetypeRemove(q)
    PROVE  /\ at[q] = "removing" /\ at'[q] = "waiting"
           /\ UNCHANGED <<kind, target, engine, asked, code, guard, hadSm, types, env, view>>
  BY DEF RetypeRemove, Move, TypeOK, RequestTypeOK

LEMMA TakeFacts ==
    ASSUME TypeOK, NEW q \in Requests, TakeGuard(q)
    PROVE  /\ at[q] = "waiting" /\ at'[q] = "running" /\ guard = {} /\ guard' = {q}
           /\ hadSm'[q] = env.sm
           /\ env'.sm = (env.sm \/ Sm(q)) /\ env'.marks = (env.marks \/ Markers(q))
           /\ UNCHANGED <<kind, target, engine, asked, code, cache, types, view>>
  BY DEF TakeGuard, Move, TypeOK, RequestTypeOK

LEMMA EngineFacts ==
    ASSUME TypeOK, NEW q \in Requests, RunEngine(q)
    PROVE  /\ at[q] = "running"
           /\ kind[q] = "retype" => at'[q] = "publishing"
           /\ kind[q] # "retype" => at'[q] = "leaving"
           /\ target[q] \in Opaque => code'[q] = {}
           /\ target[q] \notin Opaque => code'[q] = {Decompiled(engine[q], target[q])}
           /\ UNCHANGED <<kind, target, engine, asked, hadSm, guard, cache, types, env, view>>
  BY DEF RunEngine, Move, TypeOK, RequestTypeOK, sharedVars

LEMMA LeaveFacts ==
    ASSUME TypeOK, NEW q \in Requests, LeaveGuard(q)
    PROVE  /\ at[q] = "leaving" /\ at'[q] = "publishing" /\ kind[q] # "frame"
           /\ guard' = guard \ {q} /\ env'.sm = hadSm[q] /\ env'.marks = env.marks
           /\ UNCHANGED <<kind, target, engine, asked, hadSm, code, cache, types, view>>
  BY DEF LeaveGuard, Move, TypeOK, RequestTypeOK, SharedTypeOK

LEMMA ReplyFacts ==
    ASSUME TypeOK, NEW q \in Requests, PublishReply(q) \/ ReplyFrame(q)
    PROVE  /\ at[q] = "publishing" \/ (at[q] = "leaving" /\ kind[q] = "frame")
           /\ at'[q] = "over" /\ guard' = guard \ {q}
           /\ UNCHANGED <<kind, target, engine, asked, hadSm, code, types, env, view>>
  BY DEF PublishReply, ReplyFrame, Move, TypeOK, RequestTypeOK, sharedVars

-----------------------------------------------------------------------------
(* The parts of RequestInv, over a step of a request.                      *)

LEMMA ControlStep ==
    ASSUME TypeOK, RequestInv, NEW q \in Requests, StepOfRequest(q), view' = view
    PROVE  RequestControl'
<1>1. \A p \in Requests \ {q} :
         /\ kind'[p] = kind[p] /\ engine'[p] = engine[p] /\ at'[p] = at[p] /\ code'[p] = code[p]
  BY RequestLocal DEF OthersKept
<1>2. RequestControl /\ view \in Int
  BY DEF RequestInv, TypeOK, SharedTypeOK
<1>3. SUFFICES
         /\ at'[q] = "missed" => kind'[q] \in {"pseudocode", "pseudocode_sm"}
         /\ at'[q] \in {"retyping", "removing"} => kind'[q] = "retype"
         /\ at'[q] = "leaving" => kind'[q] # "retype"
         /\ at'[q] = "publishing" => kind'[q] # "frame"
         /\ at'[q] = "publishing" /\ kind'[q] = "retype" => engine'[q] # 0
         /\ at'[q] \in {"retyping", "removing", "waiting", "running", "leaving"} => engine'[q] # 0
         /\ at'[q] \notin {"leaving", "publishing", "over"} => code'[q] = {}
         /\ engine'[q] <= view
  BY <1>1, <1>2 DEF RequestControl
<1>4. CASE Send(q)
  BY <1>2, <1>4, SendFacts
<1>5. CASE SpawnPseudocode(q)
  BY <1>2, <1>5, SpawnFacts DEF RequestControl
<1>6. CASE SetVarType(q)
  BY <1>2, <1>6, SetTypeFacts DEF RequestControl
<1>7. CASE RetypeRemove(q)
  BY <1>2, <1>7, RemoveStepFacts DEF RequestControl
<1>8. CASE TakeGuard(q)
  BY <1>2, <1>8, TakeFacts DEF RequestControl
<1>9. CASE RunEngine(q)
  BY <1>2, <1>9, EngineFacts DEF RequestControl
<1>10. CASE LeaveGuard(q)
  BY <1>2, <1>10, LeaveFacts DEF RequestControl
<1>11. CASE PublishReply(q) \/ ReplyFrame(q)
  BY <1>2, <1>11, ReplyFacts DEF RequestControl
<1> QED
  BY <1>4, <1>5, <1>6, <1>7, <1>8, <1>9, <1>10, <1>11 DEF StepOfRequest, HandlerStep, ThreadStep

LEMMA OneHandlerStep ==
    ASSUME TypeOK, RequestInv, NEW q \in Requests, StepOfRequest(q)
    PROVE  OneHandler'
<1>1. \A p \in Requests \ {q} : at'[p] = at[p] /\ engine'[p] = engine[p] /\ target'[p] = target[p]
  BY RequestLocal DEF OthersKept
<1>2. RequestControl /\ OneHandler
  BY DEF RequestInv
<1>3. ASSUME ~UiInRequest, types' = types,
             at'[q] = "retyping" => types[engine'[q]][target'[q]] < MaxRetypes
      PROVE  OneHandler'
  <2>1. \A p \in Requests : ~InHandler(p)
    BY <1>3 DEF UiInRequest
  <2>2. \A p \in Requests \ {q} : ~InHandler(p)' /\ at'[p] # "retyping"
    BY <1>1, <2>1 DEF InHandler
  <2> QED BY <1>3, <2>2 DEF OneHandler
<1>4. ASSUME types' = types, InHandler(q)' => InHandler(q), at'[q] # "retyping"
      PROVE  OneHandler'
  <2>1. \A p \in Requests \ {q} : InHandler(p)' <=> InHandler(p)
    BY <1>1 DEF InHandler
  <2> QED BY <1>1, <1>2, <1>4, <2>1 DEF OneHandler
<1>5. CASE ~UiInRequest /\ Send(q)
  BY <1>2, <1>3, <1>5, SendFacts
<1>6. CASE SetVarType(q)
  <2>1. at[q] = "retyping" /\ at'[q] = "removing"
    BY <1>2, <1>6, SetTypeFacts
  <2>2. \A p \in Requests \ {q} : ~InHandler(p)
    BY <1>2, <2>1 DEF OneHandler, InHandler
  <2>3. \A p \in Requests \ {q} : ~InHandler(p)'
    BY <1>1, <2>2 DEF InHandler
  <2>4. \A p \in Requests : at'[p] # "retyping"
    BY <2>1, <2>3 DEF InHandler
  <2> QED BY <2>3, <2>4 DEF OneHandler
<1>7. CASE SpawnPseudocode(q)
  BY <1>4, <1>7, SpawnFacts DEF InHandler
<1>8. CASE RetypeRemove(q)
  BY <1>4, <1>8, RemoveStepFacts DEF InHandler
<1>9. CASE TakeGuard(q)
  BY <1>4, <1>9, TakeFacts DEF InHandler
<1>10. CASE RunEngine(q)
  BY <1>4, <1>10, EngineFacts DEF InHandler
<1>11. CASE LeaveGuard(q)
  BY <1>4, <1>11, LeaveFacts DEF InHandler
<1>12. CASE PublishReply(q) \/ ReplyFrame(q)
  BY <1>4, <1>12, ReplyFacts DEF InHandler
<1> QED
  BY <1>5, <1>6, <1>7, <1>8, <1>9, <1>10, <1>11, <1>12
  DEF StepOfRequest, HandlerStep, ThreadStep

\* Whoever is not in the engine leaves the guard and the variable as they are.
LEMMA GuardKept ==
    ASSUME GuardInv, NEW q \in Requests, OthersKept(q), guard' = guard, env' = env,
           ~HoldsGuard(q), ~HoldsGuard(q)'
    PROVE  GuardInv'
<1>1. ~InEngine(q) /\ ~InEngine(q)'
  BY DEF HoldsGuard, InEngine
<1>2. \A p \in Requests \ {q} :
         /\ HoldsGuard(p)' <=> HoldsGuard(p)
         /\ InEngine(p)' <=> InEngine(p)
         /\ Sm(p)' <=> Sm(p)
         /\ hadSm'[p] = hadSm[p]
  BY DEF OthersKept, HoldsGuard, InEngine, Sm
<1> QED BY <1>1, <1>2 DEF GuardInv

\* The thread that has the guard lets it go, with the variable unset.
LEMMA GuardReleased ==
    ASSUME GuardInv, NEW q \in Requests, OthersKept(q), HoldsGuard(q), ~HoldsGuard(q)',
           guard' = guard \ {q}, ~env'.sm
    PROVE  GuardInv'
<1>1. guard = {q} /\ guard' = {}
  BY DEF GuardInv
<1>2. \A p \in Requests \ {q} : ~HoldsGuard(p)
  BY <1>1 DEF GuardInv
<1>3. \A p \in Requests : ~HoldsGuard(p)' /\ ~InEngine(p)'
  BY <1>2 DEF OthersKept, HoldsGuard, InEngine
<1> QED BY <1>1, <1>3 DEF GuardInv

LEMMA GuardStep ==
    ASSUME TypeOK, RequestInv, NEW q \in Requests, StepOfRequest(q)
    PROVE  GuardInv'
<1>1. OthersKept(q)
  BY RequestLocal
<1>2. RequestControl /\ GuardInv
  BY DEF RequestInv
<1>3. CASE Send(q)
  <2>1. ~HoldsGuard(q) /\ ~HoldsGuard(q)' /\ guard' = guard /\ env' = env
    BY <1>2, <1>3, SendFacts DEF HoldsGuard
  <2> QED BY <1>1, <1>2, <2>1, GuardKept
<1>4. CASE HandlerStep(q)
  <2>1. ~HoldsGuard(q) /\ ~HoldsGuard(q)' /\ guard' = guard /\ env' = env
    BY <1>2, <1>4, SpawnFacts, SetTypeFacts, RemoveStepFacts
    DEF HandlerStep, HoldsGuard, RequestControl
  <2> QED BY <1>1, <1>2, <2>1, GuardKept
<1>5. CASE TakeGuard(q)
  <2>1. \A p \in Requests : ~HoldsGuard(p) /\ ~InEngine(p)
    BY <1>2, <1>5, TakeFacts DEF GuardInv, HoldsGuard, InEngine
  <2>2. ~env.sm
    BY <1>2, <2>1 DEF GuardInv
  <2>3. \A p \in Requests \ {q} : ~HoldsGuard(p)' /\ ~InEngine(p)'
    BY <1>1, <2>1 DEF OthersKept, HoldsGuard, InEngine
  <2>4. /\ HoldsGuard(q)' /\ InEngine(q)' /\ guard' = {q} /\ ~hadSm'[q]
        /\ env'.sm <=> Sm(q)
        /\ Sm(q)' <=> Sm(q)
    BY <1>5, <2>2, TakeFacts DEF HoldsGuard, InEngine, Sm
  <2> QED BY <2>3, <2>4 DEF GuardInv
<1>6. CASE RunEngine(q)
  <2>1. /\ InEngine(q) /\ HoldsGuard(q) /\ HoldsGuard(q)' /\ guard' = guard /\ env' = env
        /\ hadSm'[q] = hadSm[q] /\ (Sm(q)' <=> Sm(q))
        /\ InEngine(q)' \/ kind[q] = "retype"
    BY <1>6, EngineFacts DEF HoldsGuard, InEngine, Sm
  <2>2. guard = {q} /\ ~hadSm[q] /\ (env.sm <=> Sm(q))
    BY <1>2, <2>1 DEF GuardInv
  <2>3. \A p \in Requests \ {q} : ~HoldsGuard(p)
    BY <1>2, <2>2 DEF GuardInv
  <2>4. \A p \in Requests \ {q} : ~HoldsGuard(p)' /\ ~InEngine(p)'
    BY <1>1, <2>3 DEF OthersKept, HoldsGuard, InEngine
  <2>5. ~InEngine(q)' => ~env'.sm
    BY <2>1, <2>2 DEF Sm
  <2> QED BY <2>1, <2>2, <2>4, <2>5 DEF GuardInv
<1>7. CASE LeaveGuard(q)
  <2>1. InEngine(q) /\ HoldsGuard(q) /\ ~HoldsGuard(q)' /\ guard' = guard \ {q}
    BY <1>2, <1>7, LeaveFacts DEF HoldsGuard, InEngine, RequestControl
  <2>2. ~env'.sm
    BY <1>2, <1>7, <2>1, LeaveFacts DEF GuardInv
  <2> QED BY <1>1, <1>2, <2>1, <2>2, GuardReleased
<1>8. CASE PublishReply(q) \/ ReplyFrame(q)
  <2>1. at'[q] = "over" /\ guard' = guard \ {q} /\ env' = env /\ ~HoldsGuard(q)'
    BY <1>8, ReplyFacts DEF HoldsGuard
  <2>2. CASE HoldsGuard(q)
    <3>1. guard = {q}
      BY <1>2, <2>2 DEF GuardInv
    <3>2. ~Sm(q)
      BY <1>8, <2>2, ReplyFacts DEF HoldsGuard, Sm
    <3>3. \A p \in Requests \ {q} : ~InEngine(p)
      BY <1>2, <3>1 DEF GuardInv, HoldsGuard, InEngine
    <3>4. ~env.sm
      BY <1>2, <3>2, <3>3 DEF GuardInv
    <3> QED BY <1>1, <1>2, <2>1, <2>2, <3>4, GuardReleased
  <2>3. CASE ~HoldsGuard(q)
    <3>1. q \notin guard
      BY <1>2, <2>3 DEF GuardInv, TypeOK, RequestTypeOK
    <3>2. guard' = guard
      BY <2>1, <3>1
    <3> QED BY <1>1, <1>2, <2>1, <2>3, <3>2, GuardKept
  <2> QED BY <2>2, <2>3
<1> QED BY <1>3, <1>4, <1>5, <1>6, <1>7, <1>8 DEF StepOfRequest, ThreadStep

\* Versions only grow, and the body that answers a retype is made from a
\* store that has its version.
LEMMA VersionStep ==
    ASSUME TypeOK, RequestInv, NEW q \in Requests, StepOfRequest(q)
    PROVE  VersionsKept' /\ AnswersFit'
<1>1. OthersKept(q)
  BY RequestLocal
<1>2. RequestControl /\ VersionsKept /\ AnswersFit
  BY DEF RequestInv
<1>3. \A r \in Runs, f \in Funcs :
         types[r][f] \in Int /\ types'[r][f] \in Int /\ types[r][f] <= types'[r][f]
  <2>1. \A r \in Runs, f \in Funcs : types[r][f] \in Int
    BY MaxRetypesAssumption DEF TypeOK, SharedTypeOK
  <2>2. SetVarType(q) \/ types' = types
    BY <1>2, SendFacts, SpawnFacts, RemoveStepFacts, TakeFacts, EngineFacts, LeaveFacts, ReplyFacts
    DEF StepOfRequest, HandlerStep, ThreadStep
  <2> QED BY <1>2, <2>1, <2>2, SetTypeFacts
<1>4. \A p \in Requests : asked[p] \in Int
  BY DEF TypeOK, RequestTypeOK
<1>5. ASSUME NEW p \in Requests \ {q}, kind'[p] = "retype",
             at'[p] \in {"removing", "waiting", "running"}
      PROVE  types'[engine'[p]][target'[p]] >= asked'[p]
  <2>1. /\ kind[p] = "retype" /\ at[p] \in {"removing", "waiting", "running"}
        /\ engine'[p] = engine[p] /\ target'[p] = target[p] /\ asked'[p] = asked[p]
    BY <1>1, <1>5 DEF OthersKept
  <2>2. types[engine[p]][target[p]] >= asked[p]
    BY <1>2, <2>1 DEF VersionsKept
  <2>3. engine[p] \in Runs /\ target[p] \in Funcs
    BY <1>2, <2>1, EngineTypes DEF RequestControl
  <2> QED BY <1>3, <1>4, <2>1, <2>2, <2>3
<1>6. \A p \in Requests \ {q} :
         kind'[p] = "retype" /\ at'[p] \in {"publishing", "over"}
         => \A b \in code'[p] : b.ver >= asked'[p]
  BY <1>1, <1>2 DEF OthersKept, AnswersFit
<1>7. SUFFICES
         /\ kind'[q] = "retype" /\ at'[q] \in {"removing", "waiting", "running"}
            => types'[engine'[q]][target'[q]] >= asked'[q]
         /\ kind'[q] = "retype" /\ at'[q] \in {"publishing", "over"}
            => \A b \in code'[q] : b.ver >= asked'[q]
  BY <1>5, <1>6 DEF VersionsKept, AnswersFit
<1>8. CASE Send(q)
  BY <1>2, <1>8, SendFacts
<1>9. CASE SpawnPseudocode(q)
  BY <1>2, <1>9, SpawnFacts DEF RequestControl
<1>10. CASE SetVarType(q)
  <2>1. engine[q] # 0
    BY <1>2, <1>10 DEF SetVarType, RequestControl
  <2>2. engine[q] \in Runs /\ target[q] \in Funcs
    BY <2>1, EngineTypes
  <2> QED BY <1>2, <1>3, <1>10, <2>2, SetTypeFacts
<1>11. CASE RetypeRemove(q)
  BY <1>2, <1>11, RemoveStepFacts DEF VersionsKept
<1>12. CASE TakeGuard(q)
  BY <1>2, <1>12, TakeFacts DEF VersionsKept
<1>13. CASE RunEngine(q)
  <2>1. kind[q] = "retype" => types[engine[q]][target[q]] >= asked[q]
    BY <1>2, <1>13, EngineFacts DEF VersionsKept
  <2>2. \A b \in code'[q] : b.ver = types[engine[q]][target[q]]
    BY <1>13, EngineFacts DEF Decompiled
  <2>3. at'[q] \in {"publishing", "leaving"} /\ kind' = kind /\ asked' = asked
    BY <1>13, EngineFacts
  <2> QED BY <2>1, <2>2, <2>3
<1>14. CASE LeaveGuard(q)
  BY <1>2, <1>14, LeaveFacts DEF RequestControl
<1>15. CASE PublishReply(q) \/ ReplyFrame(q)
  BY <1>2, <1>15, ReplyFacts DEF AnswersFit
<1> QED
  BY <1>8, <1>9, <1>10, <1>11, <1>12, <1>13, <1>14, <1>15
  DEF StepOfRequest, HandlerStep, ThreadStep

\* Only the thread that holds the guard decompiles, so DS_FORCE_SM is as that
\* thread set it.
LEMMA FormStep ==
    ASSUME TypeOK, RequestInv, NEW q \in Requests, StepOfRequest(q)
    PROVE  FormAsAsked'
<1>1. OthersKept(q)
  BY RequestLocal
<1>2. RequestControl /\ GuardInv /\ FormAsAsked
  BY DEF RequestInv
<1>3. \A p \in Requests \ {q} : Computed(p)' => \A b \in code'[p] : b.sm <=> Sm(p)'
  BY <1>1, <1>2 DEF OthersKept, FormAsAsked, Computed, Sm
<1>4. SUFFICES ASSUME Computed(q)' PROVE \A b \in code'[q] : b.sm <=> Sm(q)'
  BY <1>3 DEF FormAsAsked
<1>5. CASE Send(q)
  BY <1>4, <1>5, <1>2, SendFacts DEF Computed
<1>6. CASE HandlerStep(q)
  <2>1. code'[q] = {}
    BY <1>2, <1>6, SpawnFacts, SetTypeFacts, RemoveStepFacts DEF HandlerStep, RequestControl
  <2> QED BY <2>1
<1>7. CASE TakeGuard(q)
  BY <1>4, <1>7, TakeFacts DEF Computed
<1>8. CASE RunEngine(q)
  <2>1. env.sm <=> Sm(q)
    BY <1>2, <1>8, EngineFacts DEF GuardInv, InEngine
  <2>2. \A b \in code'[q] : b.sm = env.sm
    BY <1>8, EngineFacts DEF Decompiled
  <2>3. Sm(q)' <=> Sm(q)
    BY <1>8, EngineFacts DEF Sm
  <2> QED BY <2>1, <2>2, <2>3
<1>9. CASE LeaveGuard(q)
  <2>1. Computed(q)
    BY <1>4, <1>9, LeaveFacts DEF Computed
  <2> QED BY <1>2, <1>9, <2>1, LeaveFacts DEF FormAsAsked, Sm
<1>10. CASE PublishReply(q) \/ ReplyFrame(q)
  BY <1>4, <1>10, ReplyFacts DEF Computed
<1> QED BY <1>5, <1>6, <1>7, <1>8, <1>9, <1>10 DEF StepOfRequest, ThreadStep

LEMMA RequestInvStep ==
    ASSUME TypeOK, Lifecycle, RequestInv, [Next]_vars
    PROVE  RequestInv'
<1>1. view \in Int /\ view <= view
  BY DEF TypeOK, SharedTypeOK
<1>2. CASE AnalysisPart
  BY <1>2, AnalysisFrame, RequestsUntouched
<1>3. CASE PoolPart
  BY <1>1, <1>3, PoolFrame, RequestsUntouched
<1>4. CASE RequestPart
  <2>1. PICK q \in Requests : StepOfRequest(q)
    BY <1>4 DEF RequestPart
  <2>2. view' = view
    BY <1>4, RequestFrame
  <2> QED
    BY <2>1, <2>2, ControlStep, OneHandlerStep, GuardStep, VersionStep, FormStep DEF RequestInv
<1>5. CASE UNCHANGED vars
  BY <1>1, <1>5, RequestsUntouched DEF vars, sharedVars
<1> QED BY <1>2, <1>3, <1>4, <1>5, StepKinds

LEMMA RequestInvInit == Init => RequestInv
<1> SUFFICES ASSUME Init PROVE RequestInv
  OBVIOUS
<1>1. /\ \A q \in Requests : at[q] = "unsent" /\ code[q] = {} /\ engine[q] = 0
      /\ view = 0 /\ guard = {} /\ ~env.sm
  BY DEF Init, SharedInit, RequestInit
<1>2. RequestControl /\ OneHandler
  BY <1>1 DEF RequestControl, OneHandler, InHandler
<1>3. GuardInv
  BY <1>1 DEF GuardInv, HoldsGuard, InEngine
<1>4. VersionsKept /\ AnswersFit /\ FormAsAsked
  BY <1>1 DEF VersionsKept, AnswersFit, FormAsAsked, Computed
<1> QED BY <1>2, <1>3, <1>4 DEF RequestInv

-----------------------------------------------------------------------------
(* The passes: PassOfCommitted.                                            *)

LEMMA AnalysisEvents ==
    ASSUME TypeOK, AnalysisPart
    PROVE  \A r \in Runs : "decompile_complete" \in events'[r] => "decompile_complete" \in events[r]
<1>1. \/ events' = events
      \/ \E r \in Runs : events' = [events EXCEPT ![r] = @ \cup {"analysis_error"}]
      \/ \E r \in Runs : events' = [events EXCEPT ![r] = @ \cup {"analysis_done"}]
  BY DEF AnalysisPart, AnalysisNext, RunStep, UiStep, Reanalyze, StageOk, StageFails, LoadSaved,
         Commit, Announce, CancelAnalysis, ReanalyzeCancel, ReanalyzeToken, ReanalyzeStart,
         SaveAnalysis, CloseWindow, sharedVars
<1>2. events \in [Runs -> SUBSET Events]
  BY DEF TypeOK, SharedTypeOK
<1> QED BY <1>1, <1>2

LEMMA PassOfCommittedStep ==
    ASSUME TypeOK, Lifecycle, PassOfCommitted, [Next]_vars
    PROVE  PassOfCommitted'
<1>t. /\ stage \in [Runs -> Stages] /\ pass \in [Runs -> PassStates]
      /\ next \in [Runs -> Nat] /\ done \in [Runs -> Nat]
      /\ wpc \in [Runs -> [Workers -> WorkerStates]] /\ events \in [Runs -> SUBSET Events]
      /\ view \in Int
  BY DEF TypeOK, SharedTypeOK, RunTypeOK, PoolTypeOK
<1>1. CASE AnalysisPart
  <2>1. UNCHANGED poolVars /\ view <= view' /\ view \in Int /\ view' \in Int
    BY <1>1, AnalysisFrame
  <2>2. \A r \in Runs : stage'[r] = "decompiling" => view >= r \/ stage[r] = "decompiling"
    BY <1>1, <1>t, PipelineStages
    DEF AnalysisPart, AnalysisNext, RunStep, UiStep, Reanalyze, StageOk, StageFails, LoadSaved,
        Commit, Announce, MoveRun, CancelAnalysis, ReanalyzeCancel, ReanalyzeToken,
        ReanalyzeStart, SaveAnalysis, CloseWindow, Lifecycle
  <2>3. \A r \in Runs : stage[r] = "decompiling" => stage'[r] = "decompiling"
    BY <1>1, <1>t, PipelineStages
    DEF AnalysisPart, AnalysisNext, RunStep, UiStep, Reanalyze, StageOk, StageFails, LoadSaved,
        Commit, Announce, MoveRun, CancelAnalysis, ReanalyzeCancel, ReanalyzeToken,
        ReanalyzeStart, SaveAnalysis, CloseWindow, CanFail
  <2>4. \A r \in Runs : stage'[r] = "decompiling" => view' >= r
    BY <2>1, <2>2 DEF PassOfCommitted, PassOfCommittedAt, Runs
  <2> QED
    BY <1>1, <2>1, <2>3, <2>4, AnalysisEvents DEF PassOfCommitted, PassOfCommittedAt, poolVars
<1>2. CASE PoolPart
  <2>1. PICK r \in Runs : StepOfPass(r)
    BY <1>2 DEF PoolPart
  <2>2. UNCHANGED <<stage, view>> /\ PassOfCommittedAt(r)
    BY <1>2, PoolFrame DEF runVars, PassOfCommitted
  <2>3. ASSUME NEW q \in Runs \ {r} PROVE PassOfCommittedAt(q)'
    <3>1. /\ pass'[q] = pass[q] /\ next'[q] = next[q] /\ done'[q] = done[q]
          /\ wpc'[q] = wpc[q]
      BY <1>t, <2>1
      DEF StepOfPass, StartPass, PassStep, WorkerStep, SpawnWorker, SpawnFails, AllSpawned,
          StopReporting, Complete, Claim, Decompile, Publish, Drain, MoveWorker
    <3>2. events'[q] = events[q]
      BY <1>t, <2>1
      DEF StepOfPass, StartPass, PassStep, WorkerStep, SpawnWorker, SpawnFails, AllSpawned,
          StopReporting, Complete, Claim, Decompile, Publish, Drain, sharedVars
    <3> QED BY <2>2, <3>1, <3>2 DEF PassOfCommitted, PassOfCommittedAt
  <2>4. ASSUME StartPass(r) /\ stage[r] = "decompiling" PROVE PassOfCommittedAt(r)'
    <3>1. pass[r] = "none" /\ pass'[r] = "spawning" /\ UNCHANGED <<stage, view, events>>
      BY <1>t, <2>2, <2>4 DEF StartPass
    <3> QED BY <2>2, <2>4, <3>1 DEF PassOfCommittedAt
  <2>5. ASSUME AllSpawned(r) \/ StopReporting(r) PROVE PassOfCommittedAt(r)'
    <3>1. /\ pass[r] \notin {"none", "complete"} /\ pass'[r] \in {"reporting", "joining"}
          /\ UNCHANGED <<stage, view, events>>
      BY <1>t, <2>2, <2>5 DEF AllSpawned, StopReporting, sharedVars
    <3> QED BY <2>2, <3>1 DEF PassOfCommittedAt
  <2>6. ASSUME Complete(r) PROVE PassOfCommittedAt(r)'
    <3>1. pass[r] = "joining" /\ pass'[r] = "complete" /\ UNCHANGED <<stage, view>>
      BY <1>t, <2>2, <2>6 DEF Complete
    <3> QED BY <2>2, <3>1 DEF PassOfCommittedAt
  <2>7. ASSUME NEW w \in Workers, SpawnWorker(r, w) \/ SpawnFails(r, w)
        PROVE  PassOfCommittedAt(r)'
    <3>1. pass[r] = "spawning" /\ UNCHANGED <<pass, events>>
      BY <2>7 DEF SpawnWorker, SpawnFails, sharedVars
    <3> QED BY <2>2, <3>1 DEF PassOfCommittedAt
  <2>8. ASSUME NEW w \in Workers, WorkerStep(r, w) PROVE PassOfCommittedAt(r)'
    <3>1. wpc[r][w] # "unspawned" /\ UNCHANGED <<pass, events>>
      BY <2>8 DEF WorkerStep, Claim, Decompile, Publish, Drain, sharedVars
    <3>2. pass[r] # "none"
      BY <2>2, <3>1 DEF PassOfCommittedAt
    <3> QED BY <2>2, <3>1, <3>2 DEF PassOfCommittedAt
  <2>9. ASSUME \E w \in Workers : WorkerStep(r, w) PROVE PassOfCommittedAt(r)'
    BY <2>8, <2>9
  <2>10. ASSUME PassStep(r) PROVE PassOfCommittedAt(r)'
    BY <2>5, <2>6, <2>7, <2>10 DEF PassStep
  <2>11. PassOfCommittedAt(r)'
    BY <2>1, <2>4, <2>9, <2>10 DEF StepOfPass
  <2> QED BY <2>3, <2>11 DEF PassOfCommitted
<1>3. CASE RequestPart
  BY <1>3, RequestFrame DEF PassOfCommitted, PassOfCommittedAt, poolVars, runVars
<1>4. CASE UNCHANGED vars
  BY <1>4 DEF vars, sharedVars, poolVars, runVars, PassOfCommitted, PassOfCommittedAt
<1> QED BY <1>1, <1>2, <1>3, <1>4, StepKinds

LEMMA RetypeBodiesStep ==
    ASSUME TypeOK, RequestInv, RetypesHaveBodies, [Next]_vars
    PROVE  RetypesHaveBodies'
<1>1. ASSUME UNCHANGED requestVars PROVE RetypesHaveBodies'
  BY <1>1 DEF requestVars, RetypesHaveBodies
<1>2. ASSUME NEW q \in Requests, StepOfRequest(q) PROVE RetypesHaveBodies'
  <2>1. OthersKept(q) /\ RequestControl
    BY <1>2, RequestLocal DEF RequestInv
  <2>2. kind'[q] = "retype" /\ at'[q] = "publishing" => RunEngine(q)
    BY <1>2, <2>1, SendFacts, SpawnFacts, SetTypeFacts, RemoveStepFacts, TakeFacts, LeaveFacts,
       ReplyFacts
    DEF StepOfRequest, HandlerStep, ThreadStep, RequestControl
  <2>3. kind'[q] = "retype" /\ at'[q] = "publishing" /\ target'[q] \notin Opaque => code'[q] # {}
    BY <2>2, EngineFacts
  <2> QED BY <2>1, <2>3 DEF OthersKept, RetypesHaveBodies
<1>3. CASE RequestPart
  BY <1>2, <1>3 DEF RequestPart
<1> QED BY <1>1, <1>3, StepKinds DEF AnalysisPart, PoolPart, vars

-----------------------------------------------------------------------------
(* The passes: WorkersBeside.                                              *)

\* A commit or a reanalysis replaces the cache; every pass under way is then
\* one of a cancelled run.
LEMMA CacheReplaced ==
    ASSUME TypeOK, Lifecycle, PassOfCommitted, AnalysisPart, NEW r \in Runs
    PROVE  cache' = cache \/ cancelled'[r] \/ pass[r] = "none"
<1>t. /\ token \in Runs /\ cancelled \in [Runs -> BOOLEAN] /\ r \in Int /\ token \in Int
  BY DEF TypeOK, SharedTypeOK, Runs
<1>1. cache' = cache \/ ReanalyzeCancel \/ \E s \in Runs : Commit(s) /\ MayCommit(s)
  BY DEF AnalysisPart, AnalysisNext, RunStep, UiStep, Reanalyze, StageOk, StageFails, LoadSaved,
         Commit, Announce, CancelAnalysis, ReanalyzeToken, ReanalyzeStart, SaveAnalysis,
         CloseWindow, sharedVars
<1>2. cancelled[r] => cancelled'[r]
  BY AnalysisFrame
<1>3. r < token => cancelled[r]
  BY DEF Lifecycle
<1>4. r > token => pass[r] = "none"
  BY DEF Lifecycle, PassOfCommitted, PassOfCommittedAt
<1>5. CASE ReanalyzeCancel
  <2>1. cancelled'[token]
    BY <1>5, <1>t DEF ReanalyzeCancel
  <2> QED BY <1>t, <1>2, <1>3, <1>4, <2>1
<1>6. ASSUME NEW s \in Runs, Commit(s), MayCommit(s)
      PROVE  cancelled'[r] \/ pass[r] = "none"
  <2>1. s = token /\ stage[token] = "commit"
    BY <1>6 DEF Commit, MayCommit
  <2>2. pass[token] = "none"
    BY <1>t, <2>1 DEF PassOfCommitted, PassOfCommittedAt
  <2> QED BY <1>t, <1>2, <1>3, <1>4, <2>2
<1> QED BY <1>1, <1>5, <1>6

\* What keeps WorkersBeside(r) when the tables of run r stay.
LEMMA BesideKept ==
    ASSUME NEW r \in Runs, WorkersBeside(r), PassOfCommittedAt(r), next[r] \in Nat,
           next'[r] = next[r], done'[r] = done[r], wpc'[r] = wpc[r], claim'[r] = claim[r],
           batch'[r] = batch[r],
           pass'[r] = "joining" => pass[r] = "joining" \/ done[r] >= Total \/ cancelled[r],
           "decompile_complete" \in events'[r] => "decompile_complete" \in events[r],
           cancelled[r] => cancelled'[r],
           \/ cancelled'[r] \/ pass[r] = "none"
           \/ \A f \in Funcs \ Opaque : Cached(f) => Cached(f)'
    PROVE  WorkersBeside(r)'
<1>1. \A w \in Workers : InHand(r, w)' = InHand(r, w)
  BY SameHand
<1>2. OwnBodies(r)' /\ ParkedIsEmpty(r)' /\ StopsAtTheEnd(r)' /\ SomebodyCounted(r)'
  BY DEF WorkersBeside, OwnBodies, ParkedIsEmpty, StopsAtTheEnd, SomebodyCounted
<1>3. JoinsWhenCounted(r)'
  BY DEF WorkersBeside, JoinsWhenCounted
<1>4. CASE cancelled'[r]
  BY <1>2, <1>3, <1>4 DEF WorkersBeside, NothingLostBeside, CompleteBeside
<1>5. CASE pass[r] = "none"
  <2>1. next[r] = 0 /\ "decompile_complete" \notin events[r]
    BY <1>5 DEF PassOfCommittedAt
  <2>2. \A f \in Funcs : ~(f < next'[r])
    BY <2>1, TotalAssumption DEF Funcs
  <2>3. NothingLostBeside(r)' /\ CompleteBeside(r)'
    BY <2>1, <2>2 DEF NothingLostBeside, CompleteBeside
  <2> QED BY <1>2, <1>3, <2>3 DEF WorkersBeside
<1>6. CASE \A f \in Funcs \ Opaque : Cached(f) => Cached(f)'
  <2>1. NothingLostBeside(r)'
    BY <1>1, <1>6 DEF WorkersBeside, NothingLostBeside
  <2>2. CompleteBeside(r)'
    BY <1>6 DEF WorkersBeside, CompleteBeside
  <2> QED BY <1>2, <1>3, <2>1, <2>2 DEF WorkersBeside
<1> QED BY <1>4, <1>5, <1>6

\* A retype takes one body out and puts one in; in between it answers for it.
LEMMA RequestKeepsCached ==
    ASSUME TypeOK, RequestInv, RetypesHaveBodies, NEW q \in Requests, StepOfRequest(q),
           NEW f \in Funcs \ Opaque, Cached(f)
    PROVE  Cached(f)'
<1>1. OthersKept(q) /\ RequestControl
  BY RequestLocal DEF RequestInv
<1>2. ASSUME NEW p \in Requests \ {q}, kind[p] = "retype", target[p] = f,
             at[p] \in {"waiting", "running", "publishing"}
      PROVE  BeingRetyped(f)'
  BY <1>1, <1>2 DEF OthersKept, BeingRetyped
<1>3. ASSUME kind[q] = "retype", target[q] = f, at[q] \in {"waiting", "running", "publishing"}
      PROVE  Cached(f)'
  <2>1. CASE TakeGuard(q)
    BY <1>3, <2>1, TakeFacts DEF BeingRetyped, Cached
  <2>2. CASE RunEngine(q)
    BY <1>3, <2>2, EngineFacts DEF BeingRetyped, Cached
  <2>3. CASE PublishReply(q)
    <3>1. at[q] = "publishing"
      BY <2>3 DEF PublishReply
    <3>2. code[q] # {} /\ ~Sm(q)
      BY <1>3, <3>1 DEF RetypesHaveBodies, Sm
    <3> QED BY <1>3, <2>3, <3>2, PublishedReply DEF Cached
  <2>4. TakeGuard(q) \/ RunEngine(q) \/ PublishReply(q)
    BY <1>1, <1>3, SendFacts, SpawnFacts, SetTypeFacts, RemoveStepFacts, LeaveFacts
    DEF StepOfRequest, HandlerStep, ThreadStep, ReplyFrame
  <2> QED BY <2>1, <2>2, <2>3, <2>4
<1>4. ASSUME f \in DOMAIN cache PROVE Cached(f)'
  <2>1. CASE RetypeRemove(q)
    <3>1. at'[q] = "waiting" /\ kind'[q] = "retype" /\ target'[q] = target[q]
      BY <1>1, <2>1, RemoveStepFacts DEF RequestControl
    <3>2. CASE f = target[q]
      BY <3>1, <3>2 DEF BeingRetyped, Cached
    <3>3. CASE f # target[q]
      <4>1. cache \in CacheMaps /\ cache' = Remove(cache, target[q])
        BY <2>1 DEF RetypeRemove, TypeOK, SharedTypeOK
      <4>2. DOMAIN cache' = DOMAIN cache \ {target[q]}
        BY <4>1, RemoveFacts
      <4> QED BY <1>4, <3>3, <4>2 DEF Cached
    <3> QED BY <3>2, <3>3
  <2>2. CASE PublishReply(q)
    BY <1>4, <2>2, PublishedReply DEF Cached
  <2>3. CASE ~RetypeRemove(q) /\ ~PublishReply(q)
    <3>1. cache' = cache
      BY <1>1, <2>3, SendFacts, SpawnFacts, SetTypeFacts, TakeFacts, EngineFacts, LeaveFacts
      DEF StepOfRequest, HandlerStep, ThreadStep, ReplyFrame, sharedVars
    <3> QED BY <1>4, <3>1 DEF Cached
  <2> QED BY <2>1, <2>2, <2>3
<1> QED BY <1>2, <1>3, <1>4 DEF Cached, BeingRetyped

LEMMA CachedGrows ==
    ASSUME UNCHANGED requestVars, DOMAIN cache \subseteq DOMAIN cache', NEW f, Cached(f)
    PROVE  Cached(f)'
  BY DEF Cached, BeingRetyped, requestVars

\* A step of the pool, seen by the run that takes it.
LEMMA SpawnBeside ==
    ASSUME PassTypeOK, NEW r \in Runs, NEW w \in Workers, WorkersBeside(r),
           SpawnWorker(r, w) \/ SpawnFails(r, w), UNCHANGED requestVars
    PROVE  WorkersBeside(r)'
<1>1. PICK s \in {"loop", "failed"} : MoveWorker(r, w, s)
  BY DEF SpawnWorker, SpawnFails
<1>2. /\ wpc[r][w] = "unspawned"
      /\ wpc'[r][w] = s
      /\ \A v \in Workers \ {w} : wpc'[r][v] = wpc[r][v]
  BY <1>1, MoveFacts DEF SpawnWorker, SpawnFails, WorkerStates
<1>3. UNCHANGED <<pass, next, done, claim, batch, cancelled, cache, events>>
  BY DEF SpawnWorker, SpawnFails, sharedVars
<1>4. \A v \in Workers : InHand(r, v)' = InHand(r, v)
  BY <1>2, <1>3 DEF InHand
<1>5. OwnBodies(r)' /\ ParkedIsEmpty(r)' /\ StopsAtTheEnd(r)' /\ SomebodyCounted(r)'
  BY <1>2, <1>3
  DEF WorkersBeside, OwnBodies, ParkedIsEmpty, StopsAtTheEnd, SomebodyCounted, Parked
<1>6. \A f \in Funcs : Cached(f) => Cached(f)'
  BY <1>3, CachedGrows
<1>7. NothingLostBeside(r)' /\ CompleteBeside(r)'
  BY <1>3, <1>4, <1>6 DEF WorkersBeside, NothingLostBeside, CompleteBeside
<1>8. JoinsWhenCounted(r)'
  BY <1>3 DEF WorkersBeside, JoinsWhenCounted
<1> QED BY <1>5, <1>7, <1>8 DEF WorkersBeside

LEMMA PassThreadBeside ==
    ASSUME PassTypeOK, NEW r \in Runs, WorkersBeside(r), PassOfCommittedAt(r),
           StartPass(r) \/ AllSpawned(r) \/ StopReporting(r), UNCHANGED requestVars
    PROVE  WorkersBeside(r)'
<1>1. UNCHANGED <<next, done, wpc, claim, batch, cache, cancelled, events>>
  BY DEF StartPass, AllSpawned, StopReporting, sharedVars
<1>2. pass \in [Runs -> PassStates] /\ next[r] \in Nat
  BY DEF PassTypeOK, PoolTypeOK
<1>3. pass'[r] = "joining" => pass[r] = "joining" \/ done[r] >= Total \/ cancelled[r]
  BY <1>2 DEF StartPass, AllSpawned, StopReporting
<1>4. \A f \in Funcs : Cached(f) => Cached(f)'
  BY <1>1, CachedGrows
<1> QED BY <1>1, <1>2, <1>3, <1>4, BesideKept

LEMMA CompleteStepBeside ==
    ASSUME PassTypeOK, NEW r \in Runs, WorkersBeside(r), Complete(r), UNCHANGED requestVars
    PROVE  WorkersBeside(r)'
<1>1. UNCHANGED <<next, done, wpc, claim, batch, cache, cancelled>>
  BY DEF Complete
<1>2. \A w \in Workers : InHand(r, w)' = InHand(r, w)
  BY <1>1, SameHand
<1>3. \A f \in Funcs : Cached(f) => Cached(f)'
  BY <1>1, CachedGrows
<1>4. OwnBodies(r)' /\ ParkedIsEmpty(r)' /\ StopsAtTheEnd(r)' /\ SomebodyCounted(r)'
  BY <1>1 DEF WorkersBeside, OwnBodies, ParkedIsEmpty, StopsAtTheEnd, SomebodyCounted
<1>5. NothingLostBeside(r)'
  BY <1>1, <1>2, <1>3 DEF WorkersBeside, NothingLostBeside
<1>6. JoinsWhenCounted(r)'
  <2>1. pass'[r] = "complete"
    BY DEF Complete, PassTypeOK, PoolTypeOK
  <2> QED BY <2>1 DEF JoinsWhenCounted
<1>7. ASSUME ~cancelled[r], NEW f \in Funcs \ Opaque PROVE Cached(f)
  <2>1. done[r] > 0
    BY <1>7, CursorFacts, TotalAssumption DEF Complete, WorkersBeside, JoinsWhenCounted
  <2>2. PICK v \in Workers : wpc[r][v] = "exited"
    BY <2>1 DEF Complete, WorkersBeside, SomebodyCounted
  <2>3. f < next[r]
    BY <1>7, <2>2, CursorFacts, TotalAssumption DEF WorkersBeside, StopsAtTheEnd, Funcs
  <2>4. \A w \in Workers : InHand(r, w) = {}
    BY DEF Complete, WorkersBeside, ParkedIsEmpty, Parked, InHand
  <2> QED BY <1>7, <2>3, <2>4 DEF WorkersBeside, NothingLostBeside
<1>8. CompleteBeside(r)'
  BY <1>1, <1>3, <1>7 DEF CompleteBeside
<1> QED BY <1>4, <1>5, <1>6, <1>8 DEF WorkersBeside

LEMMA ClaimBeside ==
    ASSUME PassTypeOK, NEW r \in Runs, NEW w \in Workers, WorkersBeside(r), Claim(r, w),
           UNCHANGED requestVars
    PROVE  WorkersBeside(r)'
<1>1. UNCHANGED <<pass, done, batch, cancelled, cache, events>> /\ wpc[r][w] = "loop"
  BY DEF Claim, sharedVars
<1>2. next'[r] = next[r] + 1 /\ next[r] \in Nat
  BY CursorFacts DEF Claim, PassTypeOK, PoolTypeOK
<1>3. InHand(r, w) = DOMAIN batch[r][w]
  BY <1>1 DEF InHand
<1>4. PICK s \in {"drain", "decompile"} :
        /\ MoveWorker(r, w, s)
        /\ s = "drain" => (next[r] >= Total \/ cancelled[r]) /\ claim' = claim
        /\ s = "decompile" => claim' = [claim EXCEPT ![r][w] = next[r]] /\ next[r] < Total
  BY <1>2, TotalAssumption DEF Claim
<1>5. wpc'[r][w] = s /\ \A v \in Workers \ {w} : wpc'[r][v] = wpc[r][v]
  BY <1>4, MoveFacts DEF WorkerStates
<1>6. /\ \A v \in Workers \ {w} : claim'[r][v] = claim[r][v]
      /\ s = "decompile" => claim'[r][w] = next[r]
  <2>1. claim \in [Runs -> [Workers -> Funcs]]
    BY DEF PassTypeOK, PoolTypeOK
  <2> QED BY <1>4, <2>1
<1>7. \A v \in Workers \ {w} : InHand(r, v)' = InHand(r, v)
  BY <1>1, <1>5, <1>6, SameHand
<1>8. InHand(r, w)' = InHand(r, w) \cup (IF s = "decompile" THEN {next[r]} ELSE {})
  BY <1>1, <1>3, <1>5, <1>6 DEF InHand
<1>9. \A f \in Funcs : Cached(f) => Cached(f)'
  BY <1>1, CachedGrows
<1>10. OwnBodies(r)' /\ ParkedIsEmpty(r)' /\ SomebodyCounted(r)'
  BY <1>1, <1>5 DEF WorkersBeside, OwnBodies, ParkedIsEmpty, SomebodyCounted, Parked
<1>11. StopsAtTheEnd(r)'
  BY <1>1, <1>2, <1>4, <1>5, TotalAssumption DEF WorkersBeside, StopsAtTheEnd
<1>12. NothingLostBeside(r)'
  <2>1. ASSUME ~cancelled[r], NEW f \in Funcs \ Opaque, f < next'[r]
        PROVE  Cached(f) \/ \E v \in Workers : f \in InHand(r, v)'
    <3>1. CASE f < next[r]
      BY <1>7, <1>8, <2>1, <3>1 DEF WorkersBeside, NothingLostBeside
    <3>2. CASE ~(f < next[r])
      <4>1. f = next[r] /\ f < Total
        BY <1>2, <2>1, <3>2, TotalAssumption DEF Funcs
      <4>2. s = "decompile"
        BY <1>2, <1>4, <2>1, <4>1, TotalAssumption
      <4> QED BY <1>8, <4>1, <4>2
    <3> QED BY <3>1, <3>2
  <2> QED BY <1>1, <1>9, <2>1 DEF NothingLostBeside
<1>13. JoinsWhenCounted(r)' /\ CompleteBeside(r)'
  BY <1>1, <1>9 DEF WorkersBeside, JoinsWhenCounted, CompleteBeside
<1> QED BY <1>10, <1>11, <1>12, <1>13 DEF WorkersBeside

LEMMA DecompileBeside ==
    ASSUME PassTypeOK, NEW r \in Runs, NEW w \in Workers, WorkersBeside(r), Decompile(r, w),
           UNCHANGED requestVars
    PROVE  WorkersBeside(r)'
<1>1. UNCHANGED <<pass, next, claim, cancelled, cache, events>> /\ wpc[r][w] = "decompile"
  BY DEF Decompile, sharedVars
<1>2. done'[r] = done[r] + 1 /\ done[r] \in Nat
  BY CursorFacts DEF Decompile, PassTypeOK, PoolTypeOK
<1>3. PICK s \in {"publish", "loop"} : MoveWorker(r, w, s)
  BY DecompileMoves
<1>4. wpc'[r][w] = s /\ \A v \in Workers \ {w} : wpc'[r][v] = wpc[r][v]
  BY <1>3, MoveFacts DEF WorkerStates
<1>5. batch'[r][w] = Held(r, w) /\ \A v \in Workers \ {w} : batch'[r][v] = batch[r][v]
  <2> DEFINE held == Held(r, w)
  <2>1. held \in CacheMaps
    BY HeldFacts
  <2>2. batch' = [batch EXCEPT ![r][w] = held]
    BY DEF Decompile
  <2> HIDE DEF held
  <2>3. batch'[r][w] = held /\ \A v \in Workers \ {w} : batch'[r][v] = batch[r][v]
    BY <2>1, <2>2, BatchFacts
  <2> QED BY <2>3 DEF held
<1>6. \A f \in InHand(r, w) : f \notin Opaque => f \in InHand(r, w)'
  <2>1. InHand(r, w) = DOMAIN batch[r][w] \cup {claim[r][w]}
    BY <1>1 DEF InHand
  <2>2. DOMAIN Held(r, w) \subseteq InHand(r, w)'
    BY <1>5 DEF InHand
  <2>3. DOMAIN Held(r, w) =
          DOMAIN batch[r][w] \cup (IF claim[r][w] \in Opaque THEN {} ELSE {claim[r][w]})
    BY HeldFacts
  <2> QED BY <2>1, <2>2, <2>3
<1>7. \A v \in Workers \ {w} : InHand(r, v)' = InHand(r, v)
  BY <1>1, <1>4, <1>5, SameHand
<1>8. \A f \in Funcs : Cached(f) => Cached(f)'
  BY <1>1, CachedGrows
<1>9. OwnBodies(r)'
  <2>1. OwnBodies(r)
    BY DEF WorkersBeside
  <2>2. \A f \in DOMAIN Held(r, w) : Held(r, w)[f].run = r
    BY <2>1, HeldFacts
  <2> QED BY <1>5, <2>1, <2>2 DEF OwnBodies
<1>10. ParkedIsEmpty(r)' /\ StopsAtTheEnd(r)'
  BY <1>1, <1>4, <1>5 DEF WorkersBeside, ParkedIsEmpty, StopsAtTheEnd, Parked
<1>11. SomebodyCounted(r)'
  BY <1>4 DEF SomebodyCounted
<1>12. NothingLostBeside(r)'
  BY <1>1, <1>6, <1>7, <1>8 DEF WorkersBeside, NothingLostBeside
<1>13. JoinsWhenCounted(r)' /\ CompleteBeside(r)'
  BY <1>1, <1>2, <1>8, TotalAssumption DEF WorkersBeside, JoinsWhenCounted, CompleteBeside
<1> QED BY <1>9, <1>10, <1>11, <1>12, <1>13 DEF WorkersBeside

LEMMA PublishBeside ==
    ASSUME PassTypeOK, NEW r \in Runs, NEW w \in Workers, WorkersBeside(r),
           Publish(r, w) \/ Drain(r, w), UNCHANGED requestVars
    PROVE  WorkersBeside(r)'
<1>1. UNCHANGED <<pass, next, done, claim, cancelled, events>>
  BY DEF Publish, Drain
<1>2. PICK s \in {"loop", "exited"} :
        MoveWorker(r, w, s) /\ (s = "exited" => wpc[r][w] = "drain")
  BY DEF Publish, Drain
<1>3. /\ wpc[r][w] \in {"publish", "drain"} /\ wpc'[r][w] = s
      /\ \A v \in Workers \ {w} : wpc'[r][v] = wpc[r][v]
  BY <1>2, MoveFacts DEF WorkerStates, Publish, Drain
<1>4. /\ batch'[r][w] = EmptyMap /\ DOMAIN EmptyMap = {}
      /\ \A v \in Workers \ {w} : batch'[r][v] = batch[r][v]
  BY EmptyIsCache, BatchFacts DEF Publish, Drain
<1>5. InHand(r, w) = DOMAIN batch[r][w]
  BY <1>3 DEF InHand
<1>6. \A v \in Workers \ {w} : InHand(r, v)' = InHand(r, v)
  BY <1>1, <1>3, <1>4, SameHand
<1>7. DOMAIN cache' = DOMAIN cache \cup InHand(r, w)
  BY <1>5, PublishedFacts DEF WorkersBeside
<1>8. \A f \in Funcs : Cached(f) => Cached(f)'
  BY <1>7, CachedGrows
<1>9. \A f \in InHand(r, w) : Cached(f)'
  BY <1>7 DEF Cached
<1>10. OwnBodies(r)' /\ ParkedIsEmpty(r)' /\ StopsAtTheEnd(r)'
  BY <1>1, <1>2, <1>3, <1>4 DEF WorkersBeside, OwnBodies, ParkedIsEmpty, StopsAtTheEnd, Parked
<1>11. SomebodyCounted(r)'
  BY <1>1, <1>3 DEF WorkersBeside, SomebodyCounted
<1>12. NothingLostBeside(r)'
  BY <1>1, <1>6, <1>8, <1>9 DEF WorkersBeside, NothingLostBeside
<1>13. JoinsWhenCounted(r)' /\ CompleteBeside(r)'
  BY <1>1, <1>8 DEF WorkersBeside, JoinsWhenCounted, CompleteBeside
<1> QED BY <1>10, <1>11, <1>12, <1>13 DEF WorkersBeside

LEMMA PoolBeside ==
    ASSUME TypeOK, PassInv, NEW r \in Runs, StepOfPass(r), UNCHANGED requestVars, NEW s \in Runs
    PROVE  WorkersBeside(s)'
<1>1. PassTypeOK /\ WorkersBeside(s) /\ PassOfCommittedAt(s) /\ next[s] \in Nat
  BY DEF TypeOK, PassTypeOK, PoolTypeOK, PassInv, PassOfCommitted
<1>2. CASE s = r
  BY <1>1, <1>2, SpawnBeside, PassThreadBeside, CompleteStepBeside, ClaimBeside,
     DecompileBeside, PublishBeside
  DEF StepOfPass, PassStep, WorkerStep
<1>3. CASE s # r
  <2>1. OwnBodies(r)
    BY DEF PassInv, WorkersBeside
  <2>2. TablesKept(s) /\ pass'[s] = pass[s] /\ events'[s] = events[s]
    BY <1>1, <1>3, <2>1, OthersUntouched DEF StepOfPass
  <2>3. \A f \in Funcs : Cached(f) => Cached(f)'
    BY <2>2, CachedGrows DEF TablesKept, OwnAdditions
  <2>4. cancelled[s] => cancelled'[s]
    BY <2>2 DEF TablesKept
  <2> QED BY <1>1, <2>2, <2>3, <2>4, BesideKept DEF TablesKept
<1> QED BY <1>2, <1>3

LEMMA PassInvStep ==
    ASSUME TypeOK, Lifecycle, RequestInv, PassInv, [Next]_vars
    PROVE  PassInv'
<1>1. PassOfCommitted' /\ RetypesHaveBodies'
  BY PassOfCommittedStep, RetypeBodiesStep DEF PassInv
<1>2. PassOfCommitted /\ RetypesHaveBodies
  BY DEF PassInv
<1>3. SUFFICES ASSUME NEW r \in Runs PROVE WorkersBeside(r)'
  BY <1>1 DEF PassInv
<1>4. /\ WorkersBeside(r) /\ PassOfCommittedAt(r) /\ next[r] \in Nat
      /\ cancelled \in [Runs -> BOOLEAN] /\ events \in [Runs -> SUBSET Events]
  BY DEF PassInv, PassOfCommitted, TypeOK, SharedTypeOK, PoolTypeOK
<1>5. CASE AnalysisPart
  <2>1. UNCHANGED <<poolVars, requestVars>> /\ (cancelled[r] => cancelled'[r])
    BY <1>5, AnalysisFrame
  <2>2. "decompile_complete" \in events'[r] => "decompile_complete" \in events[r]
    BY <1>5, AnalysisEvents
  <2>3. CASE cache' = cache
    <3>1. \A f \in Funcs : Cached(f) => Cached(f)'
      BY <2>1, <2>3, CachedGrows
    <3> QED BY <1>4, <2>1, <2>2, <3>1, BesideKept DEF poolVars
  <2>4. CASE cancelled'[r] \/ pass[r] = "none"
    BY <1>4, <2>1, <2>2, <2>4, BesideKept DEF poolVars
  <2> QED BY <1>2, <1>5, <2>3, <2>4, CacheReplaced
<1>6. CASE PoolPart
  BY <1>6, PoolBeside DEF PoolPart
<1>7. CASE RequestPart
  <2>1. UNCHANGED <<poolVars, cancelled, events>>
    BY <1>7, RequestFrame
  <2>2. PICK q \in Requests : StepOfRequest(q)
    BY <1>7 DEF RequestPart
  <2>3. \A f \in Funcs \ Opaque : Cached(f) => Cached(f)'
    BY <1>2, <2>2, RequestKeepsCached
  <2> QED BY <1>4, <2>1, <2>3, BesideKept DEF poolVars
<1>8. CASE UNCHANGED vars
  <2>1. UNCHANGED <<poolVars, requestVars, cancelled, events, cache>>
    BY <1>8 DEF vars, sharedVars
  <2>2. \A f \in Funcs : Cached(f) => Cached(f)'
    BY <2>1, CachedGrows
  <2> QED BY <1>4, <2>1, <2>2, BesideKept DEF poolVars
<1> QED BY <1>5, <1>6, <1>7, <1>8, StepKinds

LEMMA PassInvInit == Init => PassInv
<1> SUFFICES ASSUME Init, NEW r \in Runs PROVE PassOfCommittedAt(r) /\ WorkersBeside(r)
  <2>1. Init => RetypesHaveBodies
    BY DEF Init, RequestInit, RetypesHaveBodies
  <2> QED BY <2>1 DEF PassInv, PassOfCommitted
<1>1. /\ next[r] = 0 /\ done[r] = 0 /\ pass[r] = "none" /\ events[r] = {}
      /\ DOMAIN EmptyMap = {} /\ stage[r] # "decompiling"
      /\ \A w \in Workers : wpc[r][w] = "unspawned" /\ batch[r][w] = EmptyMap
  BY EmptyIsCache DEF Init, PoolInit, SharedInit, RunInit
<1>2. PassOfCommittedAt(r)
  BY <1>1 DEF PassOfCommittedAt
<1>3. OwnBodies(r) /\ ParkedIsEmpty(r) /\ StopsAtTheEnd(r) /\ SomebodyCounted(r)
  BY <1>1 DEF OwnBodies, ParkedIsEmpty, StopsAtTheEnd, SomebodyCounted
<1>4. \A f \in Funcs : ~(f < next[r])
  BY <1>1, TotalAssumption DEF Funcs
<1>5. NothingLostBeside(r) /\ CompleteBeside(r) /\ JoinsWhenCounted(r)
  BY <1>1, <1>4 DEF NothingLostBeside, CompleteBeside, JoinsWhenCounted
<1> QED BY <1>2, <1>3, <1>5 DEF WorkersBeside

-----------------------------------------------------------------------------
(* Where the bodies come from.                                             *)

\* A run moves bodies between the cache, the saved file and what was loaded
\* from it; it makes none.
LEMMA AnalysisKept ==
    ASSUME TypeOK, AnalysisPart, NEW b, Kept(b)'
    PROVE  Kept(b)
<1>t. /\ preloaded \in [Runs -> OptionalMaps] /\ DOMAIN EmptyMap = {}
      /\ saved \in OptionalMaps
  BY EmptyIsCache DEF TypeOK, RunTypeOK
<1>1. UNCHANGED <<poolVars, requestVars>>
  BY DEF AnalysisPart
<1>2. \A f \in DOMAIN cache' : b = cache'[f] => Kept(b)
  <2>1. \/ cache' = cache \/ cache' = EmptyMap
        \/ \E r \in Runs :
              preloaded[r] # {} /\ cache' = CHOOSE m \in preloaded[r] : TRUE
    BY DEF AnalysisPart, AnalysisNext, RunStep, UiStep, Reanalyze, StageOk, StageFails, LoadSaved,
           Commit, Announce, CancelAnalysis, ReanalyzeCancel, ReanalyzeToken, ReanalyzeStart,
           SaveAnalysis, CloseWindow, sharedVars
  <2>2. ASSUME NEW r \in Runs, preloaded[r] # {}
        PROVE  (CHOOSE m \in preloaded[r] : TRUE) \in preloaded[r]
    BY <2>2
  <2> QED BY <1>t, <2>1, <2>2 DEF Kept
<1>3. saved' = saved \/ saved' = {cache}
  BY DEF AnalysisPart, AnalysisNext, RunStep, UiStep, Reanalyze, StageOk, StageFails, LoadSaved,
         Commit, Announce, CancelAnalysis, ReanalyzeCancel, ReanalyzeToken, ReanalyzeStart,
         SaveAnalysis, CloseWindow
<1>4. preloaded' = preloaded \/ \E r \in Runs : preloaded' = [preloaded EXCEPT ![r] = saved]
  BY DEF AnalysisPart, AnalysisNext, RunStep, UiStep, Reanalyze, StageOk, StageFails, LoadSaved,
         Commit, Announce, CancelAnalysis, ReanalyzeCancel, ReanalyzeToken, ReanalyzeStart,
         SaveAnalysis, CloseWindow
<1>5. \A m \in saved' : m \in saved \/ m = cache
  BY <1>3
<1>6. \A r \in Runs : \A m \in preloaded'[r] : m \in preloaded[r] \/ m \in saved
  BY <1>t, <1>4
<1>7. CASE \E f \in DOMAIN cache' : b = cache'[f]
  BY <1>2, <1>7
<1>8. CASE \E m \in saved' : \E f \in DOMAIN m : b = m[f]
  BY <1>5, <1>8 DEF Kept
<1>9. CASE \E r \in Runs : \E m \in preloaded'[r] : \E f \in DOMAIN m : b = m[f]
  BY <1>6, <1>9 DEF Kept
<1>10. CASE \E r \in Runs : \E w \in Workers : \E f \in DOMAIN batch'[r][w] : b = batch'[r][w][f]
  BY <1>1, <1>10 DEF Kept, poolVars
<1>11. CASE \E q \in Requests : Markers(q)' /\ b \in code'[q]
  BY <1>1, <1>11 DEF Kept, Markers, requestVars
<1> QED BY <1>7, <1>8, <1>9, <1>10, <1>11 DEF Kept

\* A worker makes the body of what it claimed.
LEMMA HeldKept ==
    ASSUME TypeOK, NEW r \in Runs, NEW w \in Workers, NEW f \in DOMAIN Held(r, w)
    PROVE  \/ f \in DOMAIN batch[r][w] /\ Held(r, w)[f] = batch[r][w][f]
           \/ Held(r, w)[f] = Decompiled(r, claim[r][w])
  BY DEF Held, Insert

LEMMA PoolKept ==
    ASSUME TypeOK, NEW r \in Runs, StepOfPass(r), UNCHANGED <<runVars, requestVars>>,
           NEW b, Kept(b)'
    PROVE  \/ Kept(b)
           \/ \E w \in Workers : wpc[r][w] = "decompile" /\ b = Decompiled(r, claim[r][w])
<1>t. /\ PassTypeOK /\ batch \in [Runs -> [Workers -> CacheMaps]] /\ cache \in CacheMaps
      /\ DOMAIN EmptyMap = {}
  BY EmptyIsCache DEF TypeOK, PassTypeOK, PoolTypeOK, SharedTypeOK
<1>1. CASE UNCHANGED <<batch, cache>>
  BY <1>1 DEF Kept, Markers, runVars, requestVars
<1>2. ASSUME NEW w \in Workers, Decompile(r, w)
      PROVE  Kept(b) \/ (wpc[r][w] = "decompile" /\ b = Decompiled(r, claim[r][w]))
  <2>1. /\ batch'[r][w] = Held(r, w)
        /\ \A v \in Workers \ {w} : batch'[r][v] = batch[r][v]
        /\ \A q \in Runs \ {r} : batch'[q] = batch[q]
        /\ cache' = cache /\ wpc[r][w] = "decompile"
    BY <1>2, <1>t, HeldFacts, BatchFacts DEF Decompile, sharedVars
  <2>2. ASSUME NEW q \in Runs, NEW v \in Workers, NEW f \in DOMAIN batch'[q][v],
               b = batch'[q][v][f]
        PROVE  Kept(b) \/ b = Decompiled(r, claim[r][w])
    <3>1. CASE q = r /\ v = w
      BY <2>1, <2>2, <3>1, HeldKept DEF Kept
    <3>2. CASE ~(q = r /\ v = w)
      BY <2>1, <2>2, <3>2 DEF Kept
    <3> QED BY <3>1, <3>2
  <2> QED BY <2>1, <2>2 DEF Kept, Markers, runVars, requestVars
<1>3. ASSUME NEW w \in Workers, Publish(r, w) \/ Drain(r, w) PROVE Kept(b)
  <2>1. /\ batch'[r][w] = EmptyMap
        /\ \A v \in Workers \ {w} : batch'[r][v] = batch[r][v]
        /\ \A q \in Runs \ {r} : batch'[q] = batch[q]
    BY <1>3, <1>t, EmptyIsCache, BatchFacts DEF Publish, Drain
  <2>2. cache' = Merge(cache, batch[r][w])
    BY <1>3 DEF Publish, Drain
  <2>3. \A f \in DOMAIN cache' : b = cache'[f] => Kept(b)
    BY <2>2 DEF Merge, Kept
  <2>4. \A q \in Runs, v \in Workers : \A f \in DOMAIN batch'[q][v] :
           b = batch'[q][v][f] => Kept(b)
    BY <1>t, <2>1 DEF Kept
  <2> QED BY <2>3, <2>4 DEF Kept, Markers, runVars, requestVars
<1> QED
  BY <1>1, <1>2, <1>3
  DEF StepOfPass, StartPass, PassStep, WorkerStep, SpawnWorker, SpawnFails, AllSpawned,
      StopReporting, Complete, Claim, sharedVars

\* A request that is not for a frame takes its body from the cache, or makes
\* it under the guard.
LEMMA RequestKept ==
    ASSUME TypeOK, RequestInv, NEW q \in Requests, StepOfRequest(q),
           UNCHANGED <<runVars, poolVars>>, NEW b, Kept(b)'
    PROVE  \/ Kept(b)
           \/ at[q] = "running" /\ Markers(q) /\ b = Decompiled(engine[q], target[q])
<1>1. OthersKept(q) /\ RequestControl
  BY RequestLocal DEF RequestInv
<1>2. ASSUME NEW p \in Requests \ {q}, Markers(p)', b \in code'[p] PROVE Kept(b)
  BY <1>1, <1>2 DEF OthersKept, Markers, Kept
<1>3. ASSUME Markers(q)', b \in code'[q]
      PROVE  \/ Kept(b)
             \/ at[q] = "running" /\ Markers(q) /\ b = Decompiled(engine[q], target[q])
  <2>1. CASE Send(q)
    BY <1>1, <1>3, <2>1, SendFacts DEF Kept
  <2>2. CASE RunEngine(q)
    BY <1>3, <2>2, EngineFacts DEF Markers
  <2>3. CASE ~Send(q) /\ ~RunEngine(q)
    <3>1. code'[q] = code[q] /\ kind'[q] = kind[q]
      BY <1>1, <2>3, SpawnFacts, SetTypeFacts, RemoveStepFacts, TakeFacts, LeaveFacts, ReplyFacts
      DEF StepOfRequest, HandlerStep, ThreadStep
    <3> QED BY <1>3, <3>1 DEF Markers, Kept
  <2> QED BY <2>1, <2>2, <2>3
<1>4. ASSUME NEW f \in DOMAIN cache', b = cache'[f] PROVE Kept(b)
  <2>1. CASE PublishReply(q)
    <3>1. Markers(q)
      BY <1>1, <2>1 DEF PublishReply, RequestControl, Markers
    <3> QED BY <1>4, <2>1, <3>1, PublishedReply DEF Kept
  <2>2. CASE RetypeRemove(q)
    <3>1. cache' = Remove(cache, target[q])
      BY <2>2 DEF RetypeRemove
    <3> QED BY <1>4, <3>1 DEF Remove, Kept
  <2>3. CASE ~PublishReply(q) /\ ~RetypeRemove(q)
    <3>1. cache' = cache
      BY <1>1, <2>3, SendFacts, SpawnFacts, SetTypeFacts, TakeFacts, EngineFacts, LeaveFacts
      DEF StepOfRequest, HandlerStep, ThreadStep, ReplyFrame, sharedVars
    <3> QED BY <1>4, <3>1 DEF Kept
  <2> QED BY <2>1, <2>2, <2>3
<1> QED BY <1>2, <1>3, <1>4 DEF Kept, runVars, poolVars

LEMMA NobodyAheadStep ==
    ASSUME TypeOK, Lifecycle, RequestInv, PassInv, NobodyAhead, [Next]_vars
    PROVE  NobodyAhead'
<1> SUFFICES ASSUME NEW b \in Body, Kept(b)' PROVE b.run <= view'
  BY DEF NobodyAhead
<1>1. b.run \in Int /\ view \in Int
  BY DEF Body, TypeOK, SharedTypeOK
<1>2. Kept(b) => b.run <= view
  BY DEF NobodyAhead
<1>3. CASE AnalysisPart
  BY <1>1, <1>2, <1>3, AnalysisKept, AnalysisFrame
<1>4. CASE PoolPart
  <2>1. view' = view
    BY <1>4, PoolFrame
  <2>2. PICK r \in Runs : StepOfPass(r)
    BY <1>4 DEF PoolPart
  <2>3. ASSUME NEW w \in Workers, wpc[r][w] = "decompile" PROVE view >= r
    BY <2>3 DEF PassInv, PassOfCommitted, PassOfCommittedAt
  <2>4. \A w \in Workers : Decompiled(r, claim[r][w]).run = r
    BY DEF Decompiled
  <2> QED BY <1>1, <1>2, <1>4, <2>1, <2>2, <2>3, <2>4, PoolKept DEF PoolPart, Runs
<1>5. CASE RequestPart
  <2>1. view' = view /\ UNCHANGED <<runVars, poolVars>>
    BY <1>5, RequestFrame
  <2>2. PICK q \in Requests : StepOfRequest(q)
    BY <1>5 DEF RequestPart
  <2>3. Decompiled(engine[q], target[q]).run <= view
    BY DEF Decompiled, RequestInv, RequestControl
  <2> QED BY <1>2, <2>1, <2>2, <2>3, RequestKept
<1>6. CASE UNCHANGED vars
  BY <1>2, <1>6
  DEF vars, sharedVars, runVars, poolVars, requestVars, Kept, Markers
<1> QED BY <1>3, <1>4, <1>5, <1>6, StepKinds

-----------------------------------------------------------------------------
(* The line markers.                                                       *)

NoneComplete == \A r \in Runs : pass[r] # "complete"

\* While no pass has ended nobody unsets DS_LINE_ADDR, and it is set by who
\* comes to rely on it.
LEMMA PoolMarks ==
    ASSUME TypeOK, NEW r \in Runs, StepOfPass(r), NoneComplete'
    PROVE  /\ NoneComplete
           /\ env.marks => env'.marks
           /\ (\A s \in Runs : pass[s] = "none") /\ (\E s \in Runs : pass'[s] # "none") => env'.marks
<1>t. pass \in [Runs -> PassStates] /\ env \in [sm : BOOLEAN, marks : BOOLEAN]
  BY DEF TypeOK, PoolTypeOK, SharedTypeOK
<1>1. CASE StartPass(r)
  BY <1>t, <1>1 DEF StartPass, NoneComplete
<1>2. CASE Complete(r)
  BY <1>t, <1>2 DEF Complete, NoneComplete
<1>3. CASE AllSpawned(r) \/ StopReporting(r)
  BY <1>t, <1>3 DEF AllSpawned, StopReporting, NoneComplete, sharedVars
<1>4. CASE UNCHANGED <<pass, env>>
  BY <1>4 DEF NoneComplete
<1> QED
  BY <1>1, <1>2, <1>3, <1>4
  DEF StepOfPass, PassStep, WorkerStep, SpawnWorker, SpawnFails, Claim, Decompile, Publish,
      Drain, sharedVars

LEMMA RequestMarks ==
    ASSUME TypeOK, RequestInv, NEW q \in Requests, StepOfRequest(q)
    PROVE  /\ env.marks => env'.marks
           /\ \A p \in Requests :
                 Markers(p)' /\ at'[p] = "running" =>
                    (Markers(p) /\ at[p] = "running") \/ env'.marks
<1>1. OthersKept(q) /\ RequestControl
  BY RequestLocal DEF RequestInv
<1>2. CASE TakeGuard(q)
  BY <1>1, <1>2, TakeFacts DEF OthersKept, Markers
<1>3. CASE ~TakeGuard(q)
  <2>1. env.marks => env'.marks
    BY <1>1, <1>3, SendFacts, SpawnFacts, SetTypeFacts, RemoveStepFacts, EngineFacts, LeaveFacts,
       ReplyFacts
    DEF StepOfRequest, HandlerStep, ThreadStep
  <2>2. at'[q] # "running"
    BY <1>1, <1>3, SendFacts, SpawnFacts, SetTypeFacts, RemoveStepFacts, EngineFacts, LeaveFacts,
       ReplyFacts
    DEF StepOfRequest, HandlerStep, ThreadStep
  <2> QED BY <1>1, <2>1, <2>2 DEF OthersKept, Markers
<1> QED BY <1>2, <1>3

LEMMA MarksStep ==
    ASSUME TypeOK, Lifecycle, RequestInv, PassInv, MarksInv, [Next]_vars
    PROVE  MarksInv'
<1> SUFFICES ASSUME NoneComplete'
             PROVE  /\ (\E r \in Runs : pass'[r] # "none") => env'.marks
                    /\ \A q \in Requests : Markers(q)' /\ at'[q] = "running" => env'.marks
                    /\ \A b \in Body : Kept(b)' => b.marks
  BY DEF MarksInv, NoneComplete
<1>t. \A b : Kept(b) /\ b \in Body /\ NoneComplete => b.marks
  BY DEF MarksInv, NoneComplete
<1>1. CASE AnalysisPart
  <2>1. UNCHANGED <<poolVars, requestVars, env>>
    BY <1>1, AnalysisFrame
  <2>2. NoneComplete
    BY <2>1 DEF NoneComplete, poolVars
  <2>3. \A b \in Body : Kept(b)' => b.marks
    BY <1>t, <1>1, <2>2, AnalysisKept
  <2> QED BY <2>1, <2>2, <2>3 DEF MarksInv, NoneComplete, poolVars, requestVars, Markers
<1>2. CASE PoolPart
  <2>1. PICK r \in Runs : StepOfPass(r)
    BY <1>2 DEF PoolPart
  <2>2. UNCHANGED <<runVars, requestVars>>
    BY <1>2 DEF PoolPart
  <2>3. NoneComplete /\ (env.marks => env'.marks)
    BY <2>1, PoolMarks
  <2>4. (\E s \in Runs : pass'[s] # "none") => env'.marks
    BY <2>1, <2>3, PoolMarks DEF MarksInv, NoneComplete
  <2>5. ASSUME NEW w \in Workers, wpc[r][w] = "decompile" PROVE env.marks
    <3>1. pass[r] # "none"
      BY <2>5 DEF PassInv, PassOfCommitted, PassOfCommittedAt
    <3> QED BY <2>3, <3>1 DEF MarksInv, NoneComplete
  <2>6. \A w \in Workers : Decompiled(r, claim[r][w]).marks = env.marks
    BY DEF Decompiled
  <2>7. \A b \in Body : Kept(b)' => b.marks
    BY <1>t, <2>1, <2>2, <2>3, <2>5, <2>6, PoolKept
  <2>8. \A q \in Requests : Markers(q)' /\ at'[q] = "running" => env'.marks
    BY <2>2, <2>3 DEF MarksInv, NoneComplete, requestVars, Markers
  <2> QED BY <2>4, <2>7, <2>8
<1>3. CASE RequestPart
  <2>1. UNCHANGED <<runVars, poolVars>>
    BY <1>3, RequestFrame
  <2>2. PICK q \in Requests : StepOfRequest(q)
    BY <1>3 DEF RequestPart
  <2>3. NoneComplete
    BY <2>1 DEF NoneComplete, poolVars
  <2>4. Decompiled(engine[q], target[q]).marks = env.marks
    BY DEF Decompiled
  <2>5. \A b \in Body : Kept(b)' => b.marks
    BY <1>t, <2>1, <2>2, <2>3, <2>4, RequestKept DEF MarksInv, NoneComplete
  <2>6. \A p \in Requests : Markers(p)' /\ at'[p] = "running" => env'.marks
    BY <2>2, <2>3, RequestMarks DEF MarksInv, NoneComplete
  <2>7. (\E r \in Runs : pass'[r] # "none") => env'.marks
    BY <2>1, <2>2, <2>3, RequestMarks DEF MarksInv, NoneComplete, poolVars
  <2> QED BY <2>5, <2>6, <2>7
<1>4. CASE UNCHANGED vars
  <2>1. UNCHANGED <<cache, env, runVars, poolVars, requestVars>>
    BY <1>4 DEF vars, sharedVars
  <2>2. NoneComplete
    BY <2>1 DEF NoneComplete, poolVars
  <2>3. \A b \in Body : Kept(b)' => b.marks
    BY <1>t, <2>1, <2>2 DEF Kept, Markers, runVars, poolVars, requestVars
  <2> QED BY <2>1, <2>2, <2>3 DEF MarksInv, NoneComplete, poolVars, requestVars, Markers
<1> QED BY <1>1, <1>2, <1>3, <1>4, StepKinds

LEMMA BodiesInit == Init => NobodyAhead /\ MarksInv
<1> SUFFICES ASSUME Init PROVE NobodyAhead /\ MarksInv
  OBVIOUS
<1>1. /\ DOMAIN EmptyMap = {} /\ cache = EmptyMap /\ view = 0
      /\ \A r \in Runs : preloaded[r] = {} /\ pass[r] = "none"
      /\ \A r \in Runs, w \in Workers : batch[r][w] = EmptyMap
      /\ \A q \in Requests : code[q] = {} /\ at[q] = "unsent"
  BY EmptyIsCache DEF Init, SharedInit, RunInit, PoolInit, RequestInit
<1>2. \A m \in saved : \A f \in DOMAIN m : m[f].run = 0 /\ m[f].marks
  BY DEF Init, RunInit, SavedBefore
<1>3. \A b : Kept(b) => b.run = 0 /\ b.marks
  BY <1>1, <1>2 DEF Kept
<1> QED BY <1>1, <1>3 DEF NobodyAhead, MarksInv

-----------------------------------------------------------------------------
(* The theorems of the session.                                            *)

LEMMA SessionInvInit == Init => SessionInv
<1>1. Init => Lifecycle
  BY LifecycleInit DEF Init, AnalysisInit
<1> QED
  BY <1>1, SessionTypeInit, RequestInvInit, PassInvInit, BodiesInit DEF SessionInv

LEMMA SessionInvStep == SessionInv /\ [Next]_vars => SessionInv'
  BY SessionTypeStep, SessionLifecycleStep, RequestInvStep, PassInvStep, NobodyAheadStep,
     MarksStep
  DEF SessionInv, RequestInv

\* The inductive invariant of all the threads of a window together, for every
\* number of runs, functions, workers and requests.
THEOREM SessionInvariant == Spec => []SessionInv
  BY SessionInvInit, SessionInvStep, PTL DEF Spec

\* ondemand_guard with the save and restore around DS_FORCE_SM is enough: a
\* request gets the form it asked for under every interleaving.
THEOREM FormAsAskedHolds == Spec => []FormAsAsked
<1>1. SessionInv => FormAsAsked
  BY DEF SessionInv, RequestInv
<1> QED BY <1>1, SessionInvariant, PTL

\* A retype is answered with a body of its own version of the types or a
\* later one: the store is written before the thread that decompiles exists.
THEOREM RetypeAnsweredHolds == Spec => []RetypeAnswered
<1>1. SessionInv => RetypeAnswered
  BY DEF SessionInv, RequestInv, AnswersFit, RetypeAnswered
<1> QED BY <1>1, SessionInvariant, PTL

\* The body of a run is not served before the run has committed, from the
\* cache, from a file saved meanwhile, or after a reanalysis.
THEOREM NoBodyAheadHolds == Spec => []NoBodyAhead
<1>1. SessionInv => NoBodyAhead
  BY CachedIsBody DEF SessionInv, NobodyAhead, NoBodyAhead, Kept
<1> QED BY <1>1, SessionInvariant, PTL

\* Until a pass ends every body carries its line markers, whoever decompiled
\* it and wherever it came from.
THEOREM MarkedUntilPassEndsHolds == Spec => []MarkedUntilPassEnds
<1>1. ASSUME SessionInv PROVE MarkedUntilPassEnds
  <2>1. \A f \in DOMAIN cache : cache[f] \in Body /\ Kept(cache[f])
    BY <1>1, CachedIsBody DEF SessionInv, Kept
  <2>2. \A q \in Requests : Markers(q) => \A b \in code[q] : b \in Body /\ Kept(b)
    BY <1>1 DEF SessionInv, TypeOK, RequestTypeOK, Kept
  <2> QED BY <1>1, <2>1, <2>2 DEF SessionInv, MarksInv, MarkedUntilPassEnds
<1> QED BY <1>1, SessionInvariant, PTL

\* A pass nobody cancelled has filled the cache, the retypes beside it
\* included: each has put back what it took out.
THEOREM PassFillsCacheHolds == Spec => []PassFillsCache
<1>1. ASSUME SessionInv PROVE PassFillsCache
  <2> SUFFICES ASSUME NEW r \in Runs, "decompile_complete" \in events[r], ~cancelled[r],
                      \A q \in Requests : kind[q] = "retype" => at[q] = "over",
                      NEW f \in Funcs \ Opaque
               PROVE  f \in DOMAIN cache
    BY DEF PassFillsCache
  <2>1. Cached(f)
    BY <1>1 DEF SessionInv, PassInv, WorkersBeside, CompleteBeside
  <2> QED BY <2>1 DEF Cached, BeingRetyped
<1> QED BY <1>1, SessionInvariant, PTL

\* DS_FORCE_SM is unset whenever the guard is free: it never outlives the
\* request that set it, with frames and retypes between.
THEOREM ForceSmRestoredHolds == Spec => []ForceSmRestored
<1>1. SessionInv => ForceSmRestored
  BY DEF SessionInv, RequestInv, GuardInv, HoldsGuard, InEngine, ForceSmRestored
<1> QED BY <1>1, SessionInvariant, PTL

-----------------------------------------------------------------------------
(* What the lifecycle promises on its own, it promises beside the passes   *)
(* and the requests.                                                       *)

\* Of two runs on their way to the commit one is cancelled, also while the
\* passes of earlier runs and requests to their engines go on.
THEOREM OneLiveRunInSession == Spec => []OneLiveRun
<1>1. SessionInv => OneLiveRun
  BY OneLive DEF SessionInv, TypeOK, AnalysisTypeOK
<1> QED BY <1>1, SessionInvariant, PTL

\* The page that boots on analysis_done finds a committed analysis.
THEOREM AnnouncedIsCommittedInSession == Spec => []AnnouncedIsCommitted
<1>1. SessionInv => AnnouncedIsCommitted
  BY DEF SessionInv, Lifecycle, AnnouncedIsCommitted
<1> QED BY <1>1, SessionInvariant, PTL

\* No step of a pass, a worker or a request moves the session to another run.
THEOREM CommitsForwardInSession == Spec => CommitsForward
<1>1. SessionInv /\ [Next]_vars => [view' # view => view' > view /\ view' = token]_RunVars
  <2> SUFFICES ASSUME SessionInv, Next, view' # view
               PROVE  view' > view /\ view' = token
    BY DEF vars, sharedVars
  <2>1. AnalysisTypeOK /\ Lifecycle
    BY DEF SessionInv, TypeOK, AnalysisTypeOK
  <2>2. AnalysisPart
    BY StepKinds, PoolFrame, RequestFrame DEF SessionInv
  <2> QED BY <2>1, <2>2, CommitStep DEF AnalysisPart, AnalysisTypeOK, SharedTypeOK, Runs
<1> QED BY <1>1, SessionInvariant, PTL DEF Spec, CommitsForward

\* The whole window, with all its threads, implements PublishedAnalysis.
THEOREM KeepsPromiseInSession == Spec => KeepsPromise
<1>1. Init => Promise!PublishedInit
  BY PromiseInit DEF Init
<1>2. SessionInv /\ [Next]_vars => [Promise!PublishedNext]_(Promise!publishedVars)
  <2> SUFFICES ASSUME SessionInv, [Next]_vars
               PROVE  [Promise!PublishedNext]_(Promise!publishedVars)
    OBVIOUS
  <2>1. AnalysisTypeOK /\ Lifecycle
    BY DEF SessionInv, TypeOK, AnalysisTypeOK
  <2>2. CASE AnalysisPart
    BY <2>1, <2>2, PromiseStep DEF AnalysisPart
  <2>3. CASE UNCHANGED <<token, cancelled, view>>
    BY <2>3 DEF Promise!publishedVars
  <2> QED BY <2>2, <2>3, StepKinds, PoolFrame, RequestFrame DEF SessionInv, vars, sharedVars
<1> QED BY <1>1, <1>2, SessionInvariant, PTL DEF Spec, KeepsPromise, Promise!PublishedSpec
=============================================================================
