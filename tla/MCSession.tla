----------------------------- MODULE MCSession ------------------------------
(***************************************************************************)
(* Session in small windows.  The product of everything a window can do is *)
(* out of reach, so a behaviour is about one of several scopes, which      *)
(* bound what the user does; the lifecycle of many runs also leaves their  *)
(* passes out.  A thread or a handler that has begun is never held up.     *)
(***************************************************************************)
EXTENDS Session

CONSTANTS
    Scopes,   \* the scopes to check
    Asker     \* the one request beside a reanalysis

VARIABLE scope   \* the scope this is about

\* The runs beside each other: no pass and no request.
RunsAlone == UiHandler \/ \E r \in Runs : AnalysisThread(r)

\* What the user may do.  Requests have one run and its pass beside them; a
\* reanalysis has the old run, its pass and one request, and only it cancels.
UserInScope ==
    CASE scope = "requests" -> ui' = "idle" /\ saved' = saved
      [] scope = "reanalysis" ->
            /\ token = 2 => ui' # "reanalyze_token"
            /\ cancelled' # cancelled => ui' = "reanalyze_token"
            /\ saved' = saved
            /\ \A q \in Requests \ {Asker} : at'[q] = "unsent"
            /\ \A q \in Requests : kind'[q] # "frame"

ScopedInit == Init /\ scope \in Scopes

ScopedNext ==
    /\ IF scope = "lifecycle" THEN RunsAlone ELSE Next /\ UserInScope
    /\ UNCHANGED scope

scopedVars == <<vars, scope>>

\* As in Session, of the threads there are.
ScopedFairness ==
    /\ WF_scopedVars(HandlerEnds /\ UNCHANGED scope)
    /\ \A r \in Runs :
          /\ WF_scopedVars(AnalysisThread(r) /\ UNCHANGED scope)
          /\ WF_scopedVars(scope # "lifecycle" /\ PassThread(r) /\ UNCHANGED scope)
          /\ \A w \in Workers : WF_scopedVars(Worker(r, w) /\ UNCHANGED scope)
    /\ \A q \in Requests : WF_scopedVars(RequestThread(q) /\ UNCHANGED scope)

ScopedSpec == ScopedInit /\ [][ScopedNext]_scopedVars /\ ScopedFairness
=============================================================================
