-------------------------------- MODULE Cfg ---------------------------------
(***************************************************************************)
(* ds_engine_analyze after the sweep: ds_engine_build_cfg collects function *)
(* starts and walks each function to its end, ds_engine_build_xrefs counts *)
(* the calls again from the final edges.  (resolve_symbols, in between,    *)
(* only names functions.)                                                  *)
(***************************************************************************)
EXTENDS Sweep, FiniteSetsExt

CONSTANT RecoveredSets  \* the symbols the PDB, pclntab and RTTI readers add

VARIABLES
    pass,        \* "waiting", "cfg", "xrefs", "analyzed"
    starts,      \* the function starts
    fstart,      \* the function being walked
    at,          \* idx: the instruction the walk stands at
    fend, max_internal_target, block_leaders, call_count,  \* its locals
    funcs        \* e->funcs by rva

walkVars == <<fstart, at, fend, max_internal_target, block_leaders, call_count>>
cfgVars == <<pass, starts, walkVars, funcs>>
engineVars == <<sweepVars, cfgVars>>

\* The end of the listing: behind every instruction.
EndOfListing == ImageSize

Later(a) == {b \in visited : b > a}
NextInsn(a) == IF Later(a) = {} THEN EndOfListing ELSE Min(Later(a))
Contiguous(a, b) == a + insns[a].size = b

\* A prologue counts where the instruction before it cannot fall into it.
AtBoundary(a) ==
    LET before == {b \in visited : b < a}
    IN  \/ before = {}
        \/ insns[Max(before)].kind \in {"ret", "jmp", "table", "trap", "hlt"}
        \/ ~Contiguous(Max(before), a)

\* A plausible slip: seeds and callees have to pass the prologue's test.
ConsideredAtBoundary(S) == {a \in S : a \in visited /\ IsExec(a) /\ AtBoundary(a)}
\* A plausible slip: an address is taken unchecked.
ConsideredUnchecked(S) == S

\* consider: only the start of a decoded instruction can start a function.
Considered(S) == {a \in S : a \in visited /\ IsExec(a)}

\* The edges of kind DS_XREF_CALL, one per instruction.
CallEdges == {a \in visited : insns[a].kind = "call" /\ insns[a].target # 0}
CallTargets == {insns[a].target : a \in CallEdges}
Prologues == {a \in visited : insns[a].kind = "frame" /\ AtBoundary(a)}

\* With no other start, the first instruction from each executable segment's
\* beginning on.
Fallback ==
    {NextInsn(First(s) - 1) : s \in ExecSegments} \ {EndOfListing}

FunctionStarts(recovered) ==
    LET found == Considered(Range(seeds) \cup recovered \cup CallTargets) \cup Prologues
    IN  IF found = {} THEN Fallback ELSE found

SegEnd(f) == Behind(CHOOSE s \in DOMAIN Segments : InSegment(f, s))

\* A plausible slip: the next start does not stop the walk.
LimitSegment(f) == SegEnd(f)

\* Where a walk of f stops at the latest: the next start, or the segment's end.
Limit(f) == Min({SegEnd(f)} \cup {g \in starts : g > f})

BeginFunction(f) ==
    /\ fstart' = f /\ at' = f /\ fend' = f
    /\ max_internal_target' = f /\ block_leaders' = {f} /\ call_count' = 0

CfgInit ==
    /\ pass = "waiting" /\ starts = {} /\ funcs = <<>>
    /\ fstart = 0 /\ at = 0 /\ fend = 0
    /\ max_internal_target = 0 /\ block_leaders = {} /\ call_count = 0

BuildCfg ==
    /\ phase = "swept" /\ pass = "waiting"
    /\ \E recovered \in RecoveredSets :
          starts' = IF visited = {} THEN {} ELSE FunctionStarts(recovered)
    /\ IF starts' = {} THEN pass' = "xrefs" /\ UNCHANGED walkVars
                       ELSE pass' = "cfg" /\ BeginFunction(Min(starts'))
    /\ UNCHANGED <<sweepVars, funcs>>

InWalk == at \in visited /\ at < Limit(fstart)

\* The jump target, if it lies inside the function so far as that is known.
InternalTarget(i) ==
    {t \in {i.target} : i.kind \in {"branch", "jmp"} /\ fstart <= t /\ t < Limit(fstart)}

\* The highest case of a jump table: decoded, in the segment, maybe beyond
\* the next start.
TableTarget(i) ==
    {t \in {i.target} : i.kind = "table" /\ t \in visited /\ fstart <= t /\ t < SegEnd(fstart)}

\* The instruction after a jump starts a block, and so does its target.
Leaders(i) ==
    InternalTarget(i)
    \cup (IF i.kind \in {"branch", "jmp"}
          THEN {b \in {NextInsn(at)} \cap visited : \A g \in starts : g > fstart => b < g}
          ELSE {})

\* A plausible slip: a jump's own target is noted after the test.
EndsFunctionEarly(i) ==
    /\ EndsRun(i)
    /\ at + i.size > max_internal_target
    /\ ~(NextInsn(at) \in block_leaders' /\ NextInsn(at) <= max_internal_target)

\* A terminator ends the function unless a jump leads beyond it, or the next
\* instruction (overlapping this one) is a target.
EndsFunction(i) ==
    /\ EndsRun(i)
    /\ at + i.size > max_internal_target'
    /\ ~(NextInsn(at) \in block_leaders' /\ NextInsn(at) <= max_internal_target')

WalkInsn ==
    /\ pass = "cfg" /\ InWalk
    /\ LET i == insns[at] IN
       /\ fend' = at + i.size
       /\ call_count' = IF i.kind = "call" THEN call_count + 1 ELSE call_count
       /\ max_internal_target' =
             Max({max_internal_target} \cup InternalTarget(i) \cup TableTarget(i))
       /\ block_leaders' = block_leaders \cup Leaders(i)
       /\ at' = IF EndsFunction(i) THEN EndOfListing ELSE NextInsn(at)
    /\ UNCHANGED <<sweepVars, pass, starts, fstart, funcs>>

PushFunction ==
    /\ pass = "cfg" /\ ~InWalk
    /\ funcs' = [g \in DOMAIN funcs \cup {fstart} |->
                   IF g = fstart
                   THEN [size |-> fend - fstart, calls |-> call_count,
                         blocks |-> Cardinality(block_leaders)]
                   ELSE funcs[g]]
    /\ LET rest == {g \in starts : g > fstart}
       IN  IF rest = {} THEN pass' = "xrefs" /\ UNCHANGED walkVars
                        ELSE BeginFunction(Min(rest)) /\ UNCHANGED pass
    /\ UNCHANGED <<sweepVars, starts>>

Extent(f) == f..(f + funcs[f].size - 1)

\* A plausible slip: the binary search compares with < instead of <=.
FuncBefore(a) == {f \in DOMAIN funcs : a \in Extent(f) /\ f < a /\ \A g \in DOMAIN funcs : g < a => g <= f}

\* func_index_for_rva: the last function not behind a, if a is in its extent.
FuncOf(a) == {f \in DOMAIN funcs : a \in Extent(f) /\ \A g \in DOMAIN funcs : g <= a => g <= f}

BuildXrefs ==
    /\ pass = "xrefs"
    /\ pass' = "analyzed"
    /\ funcs' = [f \in DOMAIN funcs |->
                   [funcs[f] EXCEPT !.calls = Cardinality({a \in CallEdges : f \in FuncOf(a)})]]
    /\ UNCHANGED <<sweepVars, starts, walkVars>>

EngineInit == SweepInit /\ CfgInit

EngineNext ==
    \/ SweepNext /\ UNCHANGED cfgVars
    \/ BuildCfg \/ WalkInsn \/ PushFunction \/ BuildXrefs

EngineSpec == EngineInit /\ [][EngineNext]_engineVars

-----------------------------------------------------------------------------
CfgTypeOK ==
    /\ SweepTypeOK
    /\ pass \in {"waiting", "cfg", "xrefs", "analyzed"}
    /\ starts \subseteq Code /\ DOMAIN funcs \subseteq starts
    /\ fstart \in Nat /\ at \in Nat /\ fend \in Nat /\ call_count \in Nat
    /\ max_internal_target \in Nat /\ block_leaders \subseteq Nat
    /\ \A f \in DOMAIN funcs : funcs[f] \in [size : Nat, calls : Nat, blocks : Nat]

Built == pass \in {"xrefs", "analyzed"}

\* Every direct call whose target can be decoded leads to a function of the
\* result, although the target may have been out of step with the linear
\* sweep: the descent decoded it, so consider accepted it.
CalleesAreFunctions ==
    Built /\ ~Truncated => CallTargets \cap Code \subseteq DOMAIN funcs

\* The sweep met no two instructions that share a byte.
NoOverlap == \A a, b \in visited : a < b => a + insns[a].size <= b

\* Where execution goes on in the same function after the instruction at a.
GoesOnAt(a) ==
    (IF HasRef(insns[a]) /\ insns[a].kind # "call" THEN {insns[a].target} ELSE {})
    \cup (IF EndsRun(insns[a]) THEN {} ELSE {a + insns[a].size})

\* No function ends before code it runs into: from an instruction in its
\* extent, execution goes on in the extent, or leaves what the walk may
\* claim (a jump to another function, the code of the next start).
FlowStaysInside ==
    Built /\ ~Truncated /\ NoOverlap =>
        \A f \in DOMAIN funcs : \A a \in visited \cap Extent(f) :
            \A b \in GoesOnAt(a) \cap Code : f <= b /\ b < Limit(f) => b \in Extent(f)

\* No two functions claim an instruction, as long as no instructions overlap:
\* an extent ends before the next function starts.
FunctionsDisjoint ==
    Built /\ NoOverlap =>
        \A f, g \in DOMAIN funcs : f < g => Extent(f) \cap Extent(g) = {}

\* "re-derives each function's call_count from the final ref set so the CFG
\* pass and the xref view stay consistent" (xref.cpp): the two agree where no
\* instructions overlap and no call leads to address 0, which has no edge.
NoNullCall == \A a \in visited : insns[a].kind = "call" => a \in CallEdges

CallCountsAgree ==
    [][BuildXrefs /\ NoOverlap /\ NoNullCall => funcs' = funcs]_engineVars
=============================================================================
