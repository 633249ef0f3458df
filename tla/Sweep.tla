------------------------------- MODULE Sweep --------------------------------
(***************************************************************************)
(* ds_engine_disassemble: a linear sweep over the executable segments, then *)
(* a recursive descent from every known code address and every call, jump  *)
(* and branch target met on the way.  The two share one set of visited     *)
(* addresses, so an address is decoded at most once: what it decodes to is  *)
(* chosen when that happens.                                               *)
(***************************************************************************)
EXTENDS Integers, Sequences, Functions

CONSTANTS
    ImageSize,   \* bytes of the flat image; an rva below it is mapped
    Segments,    \* the segments in the order they were added
    Insns,       \* what bytes can decode to
    SeedLists,   \* the known code starts: entry, entries, exported symbols
    MaxInsns     \* DS_MAX_INSNS

First(s) == Segments[s].rva
Behind(s) == Segments[s].rva + Segments[s].size
InSegment(a, s) == First(s) <= a /\ a < Behind(s)
ExecSegments == {s \in DOMAIN Segments : Segments[s].exec}

\* Kinds by ref_type and mnemonic.  A "frame" instruction begins a prologue
\* the CFG pass recognises, a "trap" is int3 or ud2, a "table" is a jmp
\* through a register, whose target here is the highest address its table
\* names.
RefKinds == {"call", "jmp", "branch"}
Kinds == RefKinds \cup {"plain", "frame", "ret", "trap", "hlt", "table"}
Instruction == [size : Nat \ {0}, kind : Kinds, target : Nat]

ASSUME ImageAssumption ==
    /\ ImageSize \in Nat /\ MaxInsns \in Nat
    /\ Segments \in Seq([rva : Nat, size : Nat, exec : BOOLEAN])
    /\ Insns \subseteq Instruction
    /\ SeedLists \subseteq Seq(Nat)

\* Segments of a PE, ELF or Mach-O image do not overlap.
ASSUME DisjointSegments ==
    \A s, t \in DOMAIN Segments :
        s = t \/ Behind(s) <= First(t) \/ Behind(t) <= First(s)

VARIABLES
    phase,       \* "linear", "descent", "run" (inside sweep_run), "swept"
    segment,     \* the linear sweep's segment
    rva,         \* where the linear sweep or sweep_run stands
    seeds,       \* the code starts the loader gave
    insns,       \* the listing: e->insns by rva; its domain is `visited`
    insn_len,    \* e->insn_len
    wl,          \* the worklist, last in first out
    guard        \* addresses taken off it

sweepVars == <<phase, segment, rva, seeds, insns, insn_len, wl, guard>>

IsExec(a) == \E s \in ExecSegments : InSegment(a, s)

\* Executable and in the image: the addresses that can be decoded.
Code == {a \in 0..ImageSize - 1 : IsExec(a)}

visited == DOMAIN insns

Full == insn_len >= MaxInsns

\* A byte that decodes to nothing becomes a one-byte "db".
Db == [size |-> 1, kind |-> "plain", target |-> 0]

\* What the bytes from a up to limit (exclusive) may decode to.
DecodeOne(a, limit) == {i \in Insns : a + i.size <= limit} \cup {Db}

HasRef(i) == i.kind \in RefKinds /\ i.target # 0

\* ret, jmp and hlt end a straight-line run; calls and branches fall through.
EndsRun(i) == i.kind \in {"jmp", "ret", "hlt"}

PushInsn(a, i) ==
    /\ insns' = [b \in visited \cup {a} |-> IF b = a THEN i ELSE insns[b]]
    /\ insn_len' = insn_len + 1

\* A plausible slip: conditional branches are thought to stay in known code.
PushNoBranch(i, known) ==
    wl' = IF i.kind # "branch" /\ HasRef(i) /\ IsExec(i.target) /\ i.target \notin known
          THEN Append(wl, i.target) ELSE wl

\* sweep_run queues the targets not visited yet, the linear sweep all.
Push(i, known) ==
    wl' = IF HasRef(i) /\ IsExec(i.target) /\ i.target \notin known
          THEN Append(wl, i.target) ELSE wl

SweepInit ==
    /\ phase = "linear" /\ segment = 1
    /\ rva = IF Segments = <<>> THEN 0 ELSE First(1)
    /\ seeds \in SeedLists
    /\ wl = seeds
    /\ insns = <<>> /\ insn_len = 0 /\ guard = 0

\* The part of a segment the linear sweep decodes.
InSweep(s) == Segments[s].exec /\ rva < Behind(s) /\ rva < ImageSize

\* One instruction of the linear sweep, cut at the end of the segment.
LinearDecode ==
    /\ phase = "linear" /\ segment \in DOMAIN Segments /\ ~Full
    /\ InSweep(segment)
    /\ \E i \in DecodeOne(rva, IF Behind(segment) < ImageSize
                               THEN Behind(segment) ELSE ImageSize) :
          /\ PushInsn(rva, i)
          /\ Push(i, {})
          /\ rva' = rva + i.size
    /\ UNCHANGED <<phase, segment, seeds, guard>>

\* The sweep is through with a segment, or skips one that is not executable.
NextSegment ==
    /\ phase = "linear" /\ segment \in DOMAIN Segments /\ ~Full
    /\ ~InSweep(segment)
    /\ segment' = segment + 1
    /\ rva' = IF segment' \in DOMAIN Segments THEN First(segment') ELSE rva
    /\ UNCHANGED <<phase, seeds, insns, insn_len, wl, guard>>

StartDescent ==
    /\ phase = "linear" /\ (segment \notin DOMAIN Segments \/ Full)
    /\ phase' = "descent"
    /\ UNCHANGED <<segment, rva, seeds, insns, insn_len, wl, guard>>

\* Take the last address off the worklist; a known one is dropped.
PopTarget ==
    /\ phase = "descent" /\ wl # <<>> /\ ~Full /\ guard < MaxInsns
    /\ guard' = guard + 1
    /\ wl' = SubSeq(wl, 1, Len(wl) - 1)
    /\ IF wl[Len(wl)] \notin visited /\ IsExec(wl[Len(wl)])
       THEN phase' = "run" /\ rva' = wl[Len(wl)]
       ELSE UNCHANGED <<phase, rva>>
    /\ UNCHANGED <<segment, seeds, insns, insn_len>>

\* One instruction of sweep_run, not cut at the end of its segment.
RunDecode ==
    /\ phase = "run" /\ ~Full
    /\ rva \in Code \ visited
    /\ \E i \in DecodeOne(rva, ImageSize) :
          /\ PushInsn(rva, i)
          /\ Push(i, visited \cup {rva})
          /\ IF EndsRun(i) THEN phase' = "descent" /\ UNCHANGED rva
                           ELSE rva' = rva + i.size /\ UNCHANGED phase
    /\ UNCHANGED <<segment, seeds, guard>>

\* sweep_run leaves the code, meets known code, or hits the cap.
RunEnds ==
    /\ phase = "run" /\ (Full \/ rva \notin Code \/ rva \in visited)
    /\ phase' = "descent"
    /\ UNCHANGED <<segment, rva, seeds, insns, insn_len, wl, guard>>

\* Nothing is left, or a cap cuts the descent short.
SweepEnds ==
    /\ phase = "descent" /\ (wl = <<>> \/ Full \/ guard >= MaxInsns)
    /\ phase' = "swept"
    /\ UNCHANGED <<segment, rva, seeds, insns, insn_len, wl, guard>>

SweepNext ==
    \/ LinearDecode \/ NextSegment \/ StartDescent
    \/ PopTarget \/ RunDecode \/ RunEnds \/ SweepEnds

SweepSpec == SweepInit /\ [][SweepNext]_sweepVars

-----------------------------------------------------------------------------
SweepTypeOK ==
    /\ phase \in {"linear", "descent", "run", "swept"}
    /\ segment \in Nat \ {0} /\ rva \in Nat
    /\ seeds \in SeedLists /\ wl \in Seq(Nat)
    /\ visited \subseteq Code /\ insns \in [visited -> Instruction]
    /\ insn_len \in Nat /\ guard \in Nat

\* A cap ended the sweep before its work was done.
Truncated == Full \/ wl # <<>>

\* Where execution may go after the instruction at a.
FlowsTo(a) ==
    (IF HasRef(insns[a]) THEN {insns[a].target} ELSE {})
    \cup (IF EndsRun(insns[a]) THEN {} ELSE {a + insns[a].size})

\* "covered exhaustively" (sweep.c): unless a cap was hit, the listing is
\* closed under control flow, and the known code starts are in it, although
\* the linear sweep may have decoded an address out of step with the code.
ListingClosed ==
    phase = "swept" /\ ~Truncated
    => /\ \A a \in visited : FlowsTo(a) \cap Code \subseteq visited
       /\ Range(seeds) \cap Code \subseteq visited

=============================================================================
