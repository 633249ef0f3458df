------------------------------ MODULE OnDemand ------------------------------
(***************************************************************************)
(* The requests that decompile one function for the window:                *)
(* get_pseudocode, set_var_type and get_stack_frame                        *)
(* (crates/shell/src/ipc.rs).  The handler runs on the UI thread and, when *)
(* it must decompile, clones the engine handle and spawns a thread that    *)
(* replies later.  ondemand_guard() serialises those threads over the      *)
(* environment variables the engine reads; it does not cover the workers   *)
(* of the background pass.                                                 *)
(***************************************************************************)
EXTENDS SessionState

CONSTANTS
    Requests,    \* bound: one name per request the user makes
    AskedKinds   \* bound: the kinds of request the user makes

VARIABLES
    kind,     \* what was asked
    target,   \* the function asked about
    engine,   \* the engine handle the handler cloned, 0 for none
    asked,    \* the version of the function's types when it was asked
    at,       \* where the request is
    hadSm,    \* the thread's `had_sm`
    code,     \* the engine's result: {} for none, or {body}
    guard,    \* who holds ondemand_guard: {} or {q}
    reply     \* what was sent back: "none", "ok" or "err"

requestVars == <<kind, target, engine, asked, at, hadSm, code, guard, reply>>

\* "pseudocode_sm" is get_pseudocode with sm: true.
Kinds == {"pseudocode", "pseudocode_sm", "retype", "frame"}

ASSUME AskedKindsAssumption == AskedKinds \subseteq Kinds

\* "missed", "retyping" and "removing" are inside a handler, between two locks.
Places ==
    {"unsent", "missed", "retyping", "removing", "waiting", "running", "leaving",
     "publishing", "over"}

InHandler(q) == at[q] \in {"missed", "retyping", "removing"}

RequestInit ==
    /\ kind = [q \in Requests |-> "pseudocode"]
    /\ target = [q \in Requests |-> 0]
    /\ engine = [q \in Requests |-> 0]
    /\ asked = [q \in Requests |-> 0]
    /\ at = [q \in Requests |-> "unsent"]
    /\ hadSm = [q \in Requests |-> FALSE]
    /\ code = [q \in Requests |-> {}]
    /\ guard = {}
    /\ reply = [q \in Requests |-> "none"]

RequestTypeOK ==
    /\ kind \in [Requests -> Kinds]
    /\ target \in [Requests -> Funcs]
    /\ engine \in [Requests -> 0..MaxRuns]
    /\ asked \in [Requests -> 0..MaxRetypes]
    /\ at \in [Requests -> Places]
    /\ hadSm \in [Requests -> BOOLEAN]
    /\ code \in [Requests -> {{}} \cup {{b} : b \in Body}]
    /\ guard \in {{}} \cup {{q} : q \in Requests}
    /\ reply \in [Requests -> {"none", "ok", "err"}]

Move(q, place) == at' = [at EXCEPT ![q] = place]

Reply(q, result) == reply' = [reply EXCEPT ![q] = result]

VersionOf(r, f) == IF r = 0 THEN 0 ELSE types[r][f]

\* What every handler notes of the message it was sent.
Receive(q, k, f) ==
    /\ at[q] = "unsent"
    /\ k \in AskedKinds
    /\ kind' = [kind EXCEPT ![q] = k]
    /\ target' = [target EXCEPT ![q] = f]
    /\ engine' = [engine EXCEPT ![q] = view]
    /\ UNCHANGED <<hadSm, guard>>

-----------------------------------------------------------------------------
(* The handlers, on the UI thread.                                         *)

\* The cached body is served at once; the state-machine form never is.
PseudocodeCached(q, f) ==
    /\ Receive(q, "pseudocode", f)
    /\ f \in DOMAIN cache
    /\ asked' = [asked EXCEPT ![q] = VersionOf(view, f)]
    /\ code' = [code EXCEPT ![q] = {cache[f]}]
    /\ Reply(q, "ok")
    /\ Move(q, "over")
    /\ UNCHANGED sharedVars

\* It is not there, or is not asked for.
PseudocodeMissed(q, k, f) ==
    /\ k \in {"pseudocode", "pseudocode_sm"}
    /\ Receive(q, k, f)
    /\ k = "pseudocode" => f \notin DOMAIN cache
    /\ asked' = [asked EXCEPT ![q] = VersionOf(view, f)]
    /\ Move(q, "missed")
    /\ UNCHANGED <<code, reply>>
    /\ UNCHANGED sharedVars

\* The handler takes the session lock again, for the engine, and spawns the
\* thread with the handle of this moment.
SpawnPseudocode(q) ==
    /\ at[q] = "missed"
    /\ engine' = [engine EXCEPT ![q] = view]
    /\ Move(q, IF view = 0 THEN "publishing" ELSE "waiting")
    /\ UNCHANGED <<kind, target, asked, hadSm, code, guard, reply>>
    /\ UNCHANGED sharedVars

\* set_var_type clones the engine handle under the session lock ...
AskRetype(q, f) ==
    /\ view # 0
    /\ types[view][f] < MaxRetypes
    /\ Receive(q, "retype", f)
    /\ Move(q, "retyping")
    /\ UNCHANGED <<asked, code, reply>>
    /\ UNCHANGED sharedVars

\* ... changes that engine's type store, under the store's own mutex ...
SetVarType(q) ==
    /\ at[q] = "retyping"
    /\ types' = [types EXCEPT ![engine[q]][target[q]] = @ + 1]
    /\ asked' = [asked EXCEPT ![q] = types[engine[q]][target[q]] + 1]
    /\ Move(q, "removing")
    /\ UNCHANGED <<kind, target, engine, hadSm, code, guard, reply>>
    /\ UNCHANGED <<token, cancelled, view, cache, env, events>>

\* ... and drops the one cached body, under the session lock again, before it
\* spawns the thread.
RetypeRemove(q) ==
    /\ at[q] = "removing"
    /\ cache' = Remove(cache, target[q])
    /\ Move(q, "waiting")
    /\ UNCHANGED <<kind, target, engine, asked, hadSm, code, guard, reply>>
    /\ UNCHANGED <<token, cancelled, view, types, env, events>>

AskFrame(q, f) ==
    /\ view # 0
    /\ Receive(q, "frame", f)
    /\ asked' = [asked EXCEPT ![q] = VersionOf(view, f)]
    /\ Move(q, "waiting")
    /\ UNCHANGED <<code, reply>>
    /\ UNCHANGED sharedVars

\* Without an engine set_var_type and get_stack_frame answer "no analysis
\* loaded" at once.
NoAnalysis(q, k, f) ==
    /\ view = 0
    /\ k \in {"retype", "frame"}
    /\ Receive(q, k, f)
    /\ Reply(q, "err")
    /\ Move(q, "over")
    /\ UNCHANGED <<asked, code>>
    /\ UNCHANGED sharedVars

Send(q) ==
    \E f \in Funcs :
        \/ PseudocodeCached(q, f)
        \/ \E k \in Kinds : PseudocodeMissed(q, k, f) \/ NoAnalysis(q, k, f)
        \/ AskRetype(q, f)
        \/ AskFrame(q, f)

HandlerStep(q) == SpawnPseudocode(q) \/ SetVarType(q) \/ RetypeRemove(q)

-----------------------------------------------------------------------------
(* The spawned thread.                                                     *)

Sm(q) == kind[q] = "pseudocode_sm"

Markers(q) == kind[q] # "frame"

\* Mutants: only the state-machine flag is set; no ondemand_guard.
TakeGuardUnmarked(q) ==
    /\ at[q] = "waiting"
    /\ guard = {}
    /\ guard' = {q}
    /\ hadSm' = [hadSm EXCEPT ![q] = env.sm]
    /\ env' = [env EXCEPT !.sm = @ \/ Sm(q)]
    /\ Move(q, "running")
    /\ UNCHANGED <<kind, target, engine, asked, code, reply>>
    /\ UNCHANGED <<token, cancelled, view, cache, types, events>>

TakeNoGuard(q) ==
    /\ at[q] = "waiting"
    /\ guard' = {q}
    /\ hadSm' = [hadSm EXCEPT ![q] = env.sm]
    /\ env' = [sm |-> env.sm \/ Sm(q), marks |-> env.marks \/ Markers(q)]
    /\ Move(q, "running")
    /\ UNCHANGED <<kind, target, engine, asked, code, reply>>
    /\ UNCHANGED <<token, cancelled, view, cache, types, events>>

\* Take the guard, note DS_FORCE_SM, and set the variables.
TakeGuard(q) ==
    /\ at[q] = "waiting"
    /\ guard = {}
    /\ guard' = {q}
    /\ hadSm' = [hadSm EXCEPT ![q] = env.sm]
    /\ env' = [sm |-> env.sm \/ Sm(q), marks |-> env.marks \/ Markers(q)]
    /\ Move(q, "running")
    /\ UNCHANGED <<kind, target, engine, asked, code, reply>>
    /\ UNCHANGED <<token, cancelled, view, cache, types, events>>

\* Mutant: the thread serves the cached body when there is one.
RunEngineOrCache(q) ==
    /\ at[q] = "running"
    /\ code' = [code EXCEPT ![q] =
                    IF target[q] \in Opaque THEN {}
                    ELSE IF target[q] \in DOMAIN cache /\ ~Sm(q) THEN {cache[target[q]]}
                    ELSE {Decompiled(engine[q], target[q])}]
    /\ Move(q, IF kind[q] = "retype" THEN "publishing" ELSE "leaving")
    /\ UNCHANGED <<kind, target, engine, asked, hadSm, guard, reply>>
    /\ UNCHANGED sharedVars

\* The decompilation itself, off every lock but the guard.
RunEngine(q) ==
    /\ at[q] = "running"
    /\ code' = [code EXCEPT ![q] =
                    IF target[q] \in Opaque THEN {} ELSE {Decompiled(engine[q], target[q])}]
    /\ Move(q, IF kind[q] = "retype" THEN "publishing" ELSE "leaving")
    /\ UNCHANGED <<kind, target, engine, asked, hadSm, guard, reply>>
    /\ UNCHANGED sharedVars

\* Mutant: the variable is left as it was set.
LeaveGuardForced(q) ==
    /\ at[q] = "leaving"
    /\ kind[q] # "frame"
    /\ guard' = guard \ {q}
    /\ Move(q, "publishing")
    /\ UNCHANGED <<kind, target, engine, asked, hadSm, code, reply>>
    /\ UNCHANGED sharedVars

\* get_pseudocode puts DS_FORCE_SM back and lets the guard go before it
\* publishes.
LeaveGuard(q) ==
    /\ at[q] = "leaving"
    /\ kind[q] # "frame"
    /\ env' = [env EXCEPT !.sm = hadSm[q]]
    /\ guard' = guard \ {q}
    /\ Move(q, "publishing")
    /\ UNCHANGED <<kind, target, engine, asked, hadSm, code, reply>>
    /\ UNCHANGED <<token, cancelled, view, cache, types, events>>

\* Mutants: a retype's body is replied and not cached again; the guard of a
\* retype is never released.
PublishAllButRetype(q) ==
    /\ at[q] = "publishing"
    /\ cache' = IF code[q] # {} /\ kind[q] = "pseudocode"
                  THEN Insert(cache, target[q], CHOOSE b \in code[q] : TRUE)
                  ELSE cache
    /\ Reply(q, IF code[q] = {} THEN "err" ELSE "ok")
    /\ guard' = guard \ {q}
    /\ Move(q, "over")
    /\ UNCHANGED <<kind, target, engine, asked, hadSm, code>>
    /\ UNCHANGED <<token, cancelled, view, types, env, events>>

PublishKeepsGuard(q) ==
    /\ at[q] = "publishing"
    /\ cache' = IF code[q] # {} /\ ~Sm(q)
                  THEN Insert(cache, target[q], CHOOSE b \in code[q] : TRUE)
                  ELSE cache
    /\ Reply(q, IF code[q] = {} THEN "err" ELSE "ok")
    /\ Move(q, "over")
    /\ UNCHANGED <<kind, target, engine, asked, hadSm, code, guard>>
    /\ UNCHANGED <<token, cancelled, view, types, env, events>>

\* Into the cache under the session lock, unless it is the state-machine
\* form, and the reply.  No body is an error.  set_var_type still holds the
\* guard here and releases it with the thread.
PublishReply(q) ==
    /\ at[q] = "publishing"
    /\ cache' = IF code[q] # {} /\ ~Sm(q)
                  THEN Insert(cache, target[q], CHOOSE b \in code[q] : TRUE)
                  ELSE cache
    /\ Reply(q, IF code[q] = {} THEN "err" ELSE "ok")
    /\ guard' = guard \ {q}
    /\ Move(q, "over")
    /\ UNCHANGED <<kind, target, engine, asked, hadSm, code>>
    /\ UNCHANGED <<token, cancelled, view, types, env, events>>

\* get_stack_frame replies under the guard and touches no variable.
ReplyFrame(q) ==
    /\ at[q] = "leaving"
    /\ kind[q] = "frame"
    /\ Reply(q, "ok")
    /\ guard' = guard \ {q}
    /\ Move(q, "over")
    /\ UNCHANGED <<kind, target, engine, asked, hadSm, code>>
    /\ UNCHANGED sharedVars

ThreadStep(q) ==
    \/ TakeGuard(q) \/ RunEngine(q) \/ LeaveGuard(q) \/ PublishReply(q) \/ ReplyFrame(q)
=============================================================================
