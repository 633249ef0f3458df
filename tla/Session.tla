------------------------------ MODULE Session -------------------------------
(***************************************************************************)
(* One disassembly window with every thread that acts on its session: the  *)
(* UI thread's handlers, a worker thread per analysis run, the background  *)
(* pass of each committed run with its pool, and a thread per on-demand    *)
(* request.  A step of one component leaves the variables of the others    *)
(* alone; they meet in the state of SessionState.                          *)
(***************************************************************************)
EXTENDS AnalysisRun, BackgroundDecompile, OnDemand

vars == <<sharedVars, runVars, poolVars, requestVars>>

Init == SharedInit /\ RunInit /\ PoolInit /\ RequestInit

\* A handler of several steps occupies the UI thread until the last.
UiInRequest == \E q \in Requests : InHandler(q)

UiHandler ==
    /\ ~UiInRequest
    /\ UiStep
    /\ UNCHANGED <<poolVars, requestVars>>

AnalysisThread(r) ==
    /\ RunStep(r)
    /\ UNCHANGED <<poolVars, requestVars>>

\* The run that announced itself hands over to its background pass.
PassThread(r) ==
    /\ \/ stage[r] = "decompiling" /\ StartPass(r)
       \/ PassStep(r)
    /\ UNCHANGED <<runVars, requestVars>>

Worker(r, w) ==
    /\ WorkerStep(r, w)
    /\ UNCHANGED <<runVars, requestVars>>

RequestHandler ==
    /\ UiFree
    /\ ~UiInRequest
    /\ \E q \in Requests : Send(q)
    /\ UNCHANGED <<runVars, poolVars>>

RequestGoesOn ==
    /\ \E q \in Requests : HandlerStep(q)
    /\ UNCHANGED <<runVars, poolVars>>

RequestThread(q) ==
    /\ ThreadStep(q)
    /\ UNCHANGED <<runVars, poolVars>>

Next ==
    \/ UiHandler
    \/ RequestHandler
    \/ RequestGoesOn
    \/ \E r \in Runs :
          \/ AnalysisThread(r)
          \/ PassThread(r)
          \/ \E w \in Workers : Worker(r, w)
    \/ \E q \in Requests : RequestThread(q)

\* A handler that has begun ends.
HandlerEnds ==
    \/ (ReanalyzeToken \/ ReanalyzeStart) /\ UNCHANGED <<poolVars, requestVars>>
    \/ RequestGoesOn

(***************************************************************************)
(* Every thread the code spawns runs to its end.  Whether the user sends a *)
(* request, cancels or closes is left open.                                *)
(***************************************************************************)
Fairness ==
    /\ WF_vars(HandlerEnds)
    /\ \A r \in Runs :
          /\ WF_vars(AnalysisThread(r))
          /\ WF_vars(PassThread(r))
          /\ \A w \in Workers : WF_vars(Worker(r, w))
    /\ \A q \in Requests : WF_vars(RequestThread(q))

Spec == Init /\ [][Next]_vars /\ Fairness

TypeOK == SharedTypeOK /\ RunTypeOK /\ PoolTypeOK /\ RequestTypeOK

-----------------------------------------------------------------------------
(* Properties.                                                             *)

\* The pseudocode requests whose thread has its result and has not replied.
Computed(q) == at[q] \in {"leaving", "publishing"} /\ code[q] # {}

\* A state-machine request, and nobody else, gets the state-machine form out
\* of its own decompilation: DS_FORCE_SM is global, ondemand_guard keeps the
\* request threads apart.
FormAsAsked == \A q \in Requests : Computed(q) => \A b \in code[q] : b.sm <=> Sm(q)

\* The flag never outlives the request that set it: when no thread holds the
\* guard DS_FORCE_SM is unset again, however the threads interleaved.
ForceSmRestored == guard = {} => ~env.sm

\* Every body that is served carries its line markers until a pass has ended:
\* passes and requests all set DS_LINE_ADDR, and only the end of a pass
\* removes it (under whoever relies on it then).
MarkedUntilPassEnds ==
    (\A r \in Runs : pass[r] # "complete")
    => /\ \A f \in DOMAIN cache : cache[f].marks
       /\ \A q \in Requests : Markers(q) => \A b \in code[q] : b.marks

\* A set_var_type is answered with a body that shows the new type, whatever
\* the cache and the background workers did meanwhile.
RetypeAnswered ==
    \A q \in Requests :
        kind[q] = "retype" /\ at[q] = "over" => \A b \in code[q] : b.ver >= asked[q]

\* A body of a run is never served before the session belongs to that run or
\* a later one: the workers start after the commit.
NoBodyAhead == \A f \in DOMAIN cache : cache[f].run <= view

\* Every request is answered: the guard is always handed on and no thread is
\* lost, also while passes run and the window is closed.
EveryRequestAnswered == \A q \in Requests : at[q] # "unsent" ~> reply[q] # "none"

\* A pass nobody cancels leaves every function cached, whatever requests and
\* retypes went on beside it (a retype removes and reinserts its function).
PassFillsCache ==
    \A r \in Runs :
        (/\ "decompile_complete" \in events[r]
         /\ ~cancelled[r]
         /\ \A q \in Requests : kind[q] = "retype" => at[q] = "over")
        => Funcs \ Opaque \subseteq DOMAIN cache

-----------------------------------------------------------------------------
(* What comments in the code say, and the code does not do.                *)

\* The Reanalyze dialog: "Cached decompilation is discarded", and reanalyze:
\* "serving a cached body from the previous engine after a reanalysis is
\* exactly how stale output survives a fix".  Once a reanalysis has committed,
\* no body of an earlier run or session is served.
ReanalysisDiscards == view > 1 => \A f \in DOMAIN cache : cache[f].run = view

\* set_var_type: "exactly one function is affected", and its old body is
\* dropped.  Once every retype is answered, the cached body of the session's
\* engine has the types the user gave.
RetypeTakesEffect ==
    (\A q \in Requests : kind[q] = "retype" => at[q] = "over")
    => \A f \in DOMAIN cache : cache[f].run = view => view = 0 \/ cache[f].ver = types[view][f]

\* ondemand_guard: "so the process-global DS_FORCE_SM / DS_LINE_ADDR env vars
\* the engine reads can't race"; the state-machine form "is rare and not
\* cached".
CacheIsStructured == \A f \in DOMAIN cache : ~cache[f].sm
=============================================================================
