---------------------------- MODULE EngineProofs ----------------------------
(***************************************************************************)
(* The listing is closed under control flow unless a cap was hit, for every *)
(* image, every layout of disjoint segments and every cap.  The inductive   *)
(* invariant says where each successor of a decoded instruction waits: in   *)
(* the listing, on the worklist, at the cursor, or at the beginning of a    *)
(* segment the linear sweep has yet to reach.                              *)
(*                                                                         *)
(* The function table: every callee that can be decoded heads a function,  *)
(* and functions do not share instructions.  Both rest on the closed       *)
(* listing.                                                                *)
(*                                                                         *)
(* Then the names of the functions, for every listing, every window and    *)
(* quorum: the passes after the first only replace placeholders, give no   *)
(* name twice, and let what a function reports outrank its shape.          *)
(***************************************************************************)
EXTENDS Cfg, Symbols, TLAPS, FiniteSetTheorems, WellFoundedInduction

-----------------------------------------------------------------------------
(* The sweep.                                                              *)


\* The addresses the linear sweep begins a segment at.
Beginnings == {First(s) : s \in {t \in ExecSegments : First(t) < Behind(t)}}

\* The address sweep_run is about to decode, and the linear sweep.
Running == IF phase = "run" THEN {rva} ELSE {}
Sweeping == IF phase = "linear" /\ segment \in DOMAIN Segments THEN {rva} ELSE {}

LinearInSegment ==
    phase = "linear" /\ segment \in DOMAIN Segments
    => First(segment) <= rva /\ rva <= Behind(segment)

BeginningsSwept ==
    \A s \in ExecSegments :
        First(s) < Behind(s) /\ First(s) < ImageSize =>
            \/ First(s) \in visited
            \/ phase = "linear" /\ (segment < s \/ (segment = s /\ rva = First(s)))

Known(a) == a \in visited \cup Range(wl) \cup Running

SeedsKept == \A a \in Range(seeds) \cap Code : Known(a)

TargetsKept ==
    \A a \in visited :
        HasRef(insns[a]) /\ insns[a].target \in Code => Known(insns[a].target)

FlowKept ==
    \A a \in visited :
        ~EndsRun(insns[a]) /\ a + insns[a].size \in Code
        => a + insns[a].size \in visited \cup Running \cup Sweeping \cup Beginnings

NothingLost == BeginningsSwept /\ SeedsKept /\ TargetsKept /\ FlowKept

SweepInv == SweepTypeOK /\ LinearInSegment /\ (~Full => NothingLost)

-----------------------------------------------------------------------------
\* Facts about worklists: pushing adds the target, popping removes the last.
LEMMA AppendRange ==
    ASSUME NEW w \in Seq(Nat), NEW e \in Nat
    PROVE  Append(w, e) \in Seq(Nat) /\ Range(Append(w, e)) = Range(w) \cup {e}
<1>1. /\ Append(w, e) \in Seq(Nat)
      /\ DOMAIN Append(w, e) = 1..Len(w) + 1
      /\ \A k \in 1..Len(w) : Append(w, e)[k] = w[k]
      /\ Append(w, e)[Len(w) + 1] = e
      /\ DOMAIN w = 1..Len(w) /\ Len(w) \in Nat
  OBVIOUS
<1>2. QED
  BY <1>1, SMTT(20) DEF Range

LEMMA PopRange ==
    ASSUME NEW w \in Seq(Nat), w # <<>>
    PROVE  /\ SubSeq(w, 1, Len(w) - 1) \in Seq(Nat)
           /\ w[Len(w)] \in Nat
           /\ Range(w) = Range(SubSeq(w, 1, Len(w) - 1)) \cup {w[Len(w)]}
<1> DEFINE u == SubSeq(w, 1, Len(w) - 1)
<1>1. Len(w) \in Nat \ {0} /\ DOMAIN w = 1..Len(w)
  OBVIOUS
<1>2. /\ u \in Seq(Nat) /\ DOMAIN u = 1..Len(w) - 1
      /\ \A k \in 1..Len(w) - 1 : u[k] = w[k]
  BY <1>1
<1>3. w[Len(w)] \in Nat
  BY <1>1
<1> HIDE DEF u
<1>4. Range(w) = Range(u) \cup {w[Len(w)]}
  BY <1>1, <1>2, SMTT(20) DEF Range
<1>5. QED
  BY <1>2, <1>3, <1>4 DEF u

\* The segments as functions of their index.
LEMMA SegmentFacts ==
    ASSUME NEW s \in DOMAIN Segments
    PROVE  /\ First(s) \in Nat /\ Behind(s) \in Nat /\ First(s) <= Behind(s)
           /\ Segments[s].exec \in BOOLEAN /\ s \in Nat \ {0}
<1> DEFINE S == [rva : Nat, size : Nat, exec : BOOLEAN]
<1>1. Segments \in Seq(S)
  BY ImageAssumption
<1> HIDE DEF S
<1>2. Segments[s] \in S /\ s \in Nat \ {0}
  BY <1>1
<1>3. QED
  BY <1>2 DEF S, First, Behind

\* The linear sweep leaves a segment at an address that is no code, or the
\* beginning of another segment.
LEMMA LeftAtBeginning ==
    ASSUME NEW s \in DOMAIN Segments, NEW b \in Code,
           First(s) <= b, b <= Behind(s), ~(Segments[s].exec /\ b < Behind(s))
    PROVE  b \in Beginnings
<1>1. PICK t \in ExecSegments : First(t) <= b /\ b < Behind(t)
  BY DEF Code, IsExec, InSegment
<1>2. t \in DOMAIN Segments /\ t # s /\ b \in Nat
  BY <1>1, ImageAssumption DEF ExecSegments, Code
<1>3. Behind(s) <= First(t) \/ Behind(t) <= First(s)
  BY <1>2, DisjointSegments
<1>4. b = First(t)
  BY <1>1, <1>2, <1>3, SegmentFacts
<1>5. QED
  BY <1>1, <1>4 DEF Beginnings

\* What the bytes at an address decode to is an instruction.
LEMMA DecodeType ==
    ASSUME NEW a \in Nat, NEW limit \in Nat, a < limit, NEW i \in DecodeOne(a, limit)
    PROVE  /\ i \in Instruction /\ i.size \in Nat \ {0} /\ i.target \in Nat
           /\ a + i.size <= limit
<1>1. i \in Instruction
  BY ImageAssumption DEF DecodeOne, Db, Instruction, Kinds, RefKinds
<1>2. QED
  BY <1>1 DEF DecodeOne, Db, Instruction

-----------------------------------------------------------------------------
\* Initially every code start is on the worklist and nothing is decoded.
LEMMA InitSweepInv == SweepInit => SweepInv
<1> SUFFICES ASSUME SweepInit PROVE SweepInv
  OBVIOUS
<1> USE DEF SweepInit
<1>1. visited = {} /\ insns \in [visited -> Instruction]
  BY DEF visited
<1>2. wl \in Seq(Nat)
  BY ImageAssumption
<1>3. Segments # <<>> => 1 \in DOMAIN Segments
  BY ImageAssumption
<1>4. rva \in Nat
  BY <1>3, SegmentFacts
<1>5. SweepTypeOK
  BY <1>1, <1>2, <1>4 DEF SweepTypeOK, Code
<1>6. LinearInSegment
  <2> SUFFICES ASSUME segment \in DOMAIN Segments
               PROVE  First(segment) <= rva /\ rva <= Behind(segment)
    BY DEF LinearInSegment
  <2>1. Segments # <<>>
    OBVIOUS
  <2>2. QED
    BY <2>1, SegmentFacts
<1>7. BeginningsSwept
  <2> SUFFICES ASSUME NEW s \in ExecSegments
               PROVE  segment < s \/ (segment = s /\ rva = First(s))
    BY DEF BeginningsSwept
  <2>1. s \in DOMAIN Segments /\ Segments # <<>>
    BY DEF ExecSegments
  <2>2. s \in Nat \ {0}
    BY <2>1, SegmentFacts
  <2>3. QED
    BY <2>1, <2>2
<1>8. SeedsKept
  BY DEF SeedsKept, Known
<1>9. TargetsKept /\ FlowKept
  BY <1>1 DEF TargetsKept, FlowKept
<1>10. QED
  BY <1>5, <1>6, <1>7, <1>8, <1>9 DEF SweepInv, NothingLost

\* One decoded instruction: it joins the listing and its target the worklist,
\* so nothing that was known is lost, and the cursor's address is decoded.
LEMMA DecodeKeeps ==
    ASSUME SweepTypeOK, NEW K, NEW i \in Instruction,
           rva \in Code, K \subseteq visited \cup {rva},
           PushInsn(rva, i), Push(i, K)
    PROVE  /\ visited' = visited \cup {rva} /\ visited' \subseteq Code
           /\ insns' \in [visited' -> Instruction] /\ insn_len' \in Nat
           /\ insns'[rva] = i
           /\ \A a \in visited \ {rva} : insns'[a] = insns[a]
           /\ wl' \in Seq(Nat)
           /\ Range(wl) \subseteq Range(wl')
           /\ HasRef(i) /\ i.target \in Code => i.target \in visited' \cup Range(wl')
           /\ ~Full' => ~Full
<1>1. /\ visited' = visited \cup {rva} /\ visited' \subseteq Code
      /\ insns' \in [visited' -> Instruction]
      /\ insns'[rva] = i
      /\ \A a \in visited \ {rva} : insns'[a] = insns[a]
  BY DEF PushInsn, visited, SweepTypeOK
<1>2. insn_len' \in Nat /\ (~Full' => ~Full)
  BY ImageAssumption DEF PushInsn, Full, SweepTypeOK
<1>3. i.target \in Nat /\ wl \in Seq(Nat)
  BY DEF Instruction, SweepTypeOK
<1>4. CASE HasRef(i) /\ IsExec(i.target) /\ i.target \notin K
  <2>1. wl' = Append(wl, i.target)
    BY <1>4 DEF Push
  <2>2. QED
    BY <1>1, <1>2, <1>3, <2>1, AppendRange
<1>5. CASE ~(HasRef(i) /\ IsExec(i.target) /\ i.target \notin K)
  <2>1. wl' = wl
    BY <1>5 DEF Push
  <2>2. i.target \in Code => IsExec(i.target)
    BY DEF Code
  <2>3. QED
    BY <1>1, <1>2, <1>3, <1>5, <2>1, <2>2
<1>6. QED
  BY <1>4, <1>5

\* After such a step every seed and every target is still known, and so is
\* what the older instructions fall through to.
LEMMA DecodeKeepsKnown ==
    ASSUME SweepTypeOK, NothingLost, NEW K, NEW i \in Instruction,
           rva \in Code, K \subseteq visited \cup {rva},
           PushInsn(rva, i), Push(i, K), seeds' = seeds
    PROVE  /\ SeedsKept' /\ TargetsKept'
           /\ \A a \in visited' \ {rva} :
                 ~EndsRun(insns'[a]) /\ a + insns'[a].size \in Code
                 => a + insns'[a].size \in visited' \cup Beginnings
<1>1. /\ visited' = visited \cup {rva}
      /\ insns'[rva] = i
      /\ \A a \in visited \ {rva} : insns'[a] = insns[a]
      /\ Range(wl) \subseteq Range(wl')
      /\ HasRef(i) /\ i.target \in Code => i.target \in visited' \cup Range(wl')
  BY DecodeKeeps
<1>2. Running \cup Sweeping \subseteq {rva}
  BY DEF Running, Sweeping
<1>3. \A a : Known(a) => a \in visited' \cup Range(wl')
  BY <1>1, <1>2 DEF Known
<1>4. Range(seeds') = Range(seeds)
  OBVIOUS
<1>5. SeedsKept'
  BY <1>3, <1>4 DEF NothingLost, SeedsKept, Known
<1>6. TargetsKept'
  <2> SUFFICES ASSUME NEW a \in visited', HasRef(insns'[a]), insns'[a].target \in Code
               PROVE  insns'[a].target \in visited' \cup Range(wl')
    BY DEF TargetsKept, Known, HasRef
  <2>1. CASE a = rva
    BY <1>1, <2>1
  <2>2. CASE a # rva
    BY <1>1, <1>3, <2>2 DEF NothingLost, TargetsKept
  <2>3. QED
    BY <2>1, <2>2
<1>7. ASSUME NEW a \in visited' \ {rva}, ~EndsRun(insns'[a]),
             a + insns'[a].size \in Code
      PROVE  a + insns'[a].size \in visited' \cup Beginnings
  <2>1. a \in visited /\ insns'[a] = insns[a]
    BY <1>1, <1>7
  <2>2. a + insns[a].size \in visited \cup Running \cup Sweeping \cup Beginnings
    BY <1>7, <2>1 DEF NothingLost, FlowKept
  <2>3. QED
    BY <1>1, <1>2, <2>1, <2>2
<1>8. QED
  BY <1>5, <1>6, <1>7

-----------------------------------------------------------------------------
\* The linear sweep's step.
LEMMA LinearDecodeKeeps == SweepInv /\ LinearDecode => SweepInv'
<1> SUFFICES ASSUME SweepInv, LinearDecode PROVE SweepInv'
  OBVIOUS
<1> DEFINE limit == IF Behind(segment) < ImageSize THEN Behind(segment) ELSE ImageSize
<1>1. /\ SweepTypeOK /\ LinearInSegment /\ (~Full => NothingLost)
      /\ phase = "linear" /\ phase' = phase /\ segment' = segment
      /\ seeds' = seeds /\ guard' = guard
      /\ segment \in DOMAIN Segments /\ InSweep(segment) /\ ~Full
  BY DEF SweepInv, LinearDecode
<1>2. /\ First(segment) \in Nat /\ Behind(segment) \in Nat /\ segment \in Nat \ {0}
      /\ ImageSize \in Nat /\ rva \in Nat
      /\ First(segment) <= rva /\ rva < Behind(segment) /\ rva < ImageSize
  BY <1>1, SegmentFacts, ImageAssumption DEF InSweep, LinearInSegment, SweepTypeOK
<1>3. rva \in Code
  BY <1>1, <1>2 DEF Code, IsExec, InSegment, ExecSegments, InSweep
<1>4. limit \in Nat /\ rva < limit /\ limit <= Behind(segment) /\ limit <= ImageSize
  BY <1>2
<1>5. PICK i \in DecodeOne(rva, limit) :
          PushInsn(rva, i) /\ Push(i, {}) /\ rva' = rva + i.size
  BY DEF LinearDecode
<1> HIDE DEF limit
<1>6. /\ i \in Instruction /\ i.size \in Nat \ {0} /\ rva + i.size <= limit
  BY <1>2, <1>4, <1>5, DecodeType
<1>7. /\ visited' = visited \cup {rva} /\ visited' \subseteq Code
      /\ insns' \in [visited' -> Instruction] /\ insn_len' \in Nat
      /\ insns'[rva] = i
      /\ wl' \in Seq(Nat)
  BY <1>1, <1>3, <1>5, <1>6, DecodeKeeps
<1>8. /\ SeedsKept' /\ TargetsKept'
      /\ \A a \in visited' \ {rva} :
            ~EndsRun(insns'[a]) /\ a + insns'[a].size \in Code
            => a + insns'[a].size \in visited' \cup Beginnings
  BY <1>1, <1>3, <1>5, <1>6, DecodeKeepsKnown
<1>9. SweepTypeOK'
  BY <1>1, <1>2, <1>5, <1>6, <1>7 DEF SweepTypeOK
<1>10. LinearInSegment'
  BY <1>1, <1>2, <1>4, <1>5, <1>6 DEF LinearInSegment
<1>11. BeginningsSwept'
  <2> SUFFICES ASSUME NEW s \in ExecSegments, First(s) < Behind(s), First(s) < ImageSize
               PROVE  First(s) \in visited' \/ segment < s
    BY <1>1 DEF BeginningsSwept
  <2>1. \/ First(s) \in visited
        \/ segment < s
        \/ segment = s /\ rva = First(s)
    BY <1>1 DEF NothingLost, BeginningsSwept
  <2>2. QED
    BY <1>7, <2>1
<1>12. FlowKept'
  <2>1. Sweeping' = {rva'}
    BY <1>1 DEF Sweeping
  <2>2. QED
    BY <1>5, <1>7, <1>8, <2>1 DEF FlowKept
<1>13. QED
  BY <1>8, <1>9, <1>10, <1>11, <1>12 DEF SweepInv, NothingLost

\* Leaving a segment: what the last instruction flows into is the beginning
\* of another segment, or no code.
LEMMA NextSegmentKeeps == SweepInv /\ NextSegment => SweepInv'
<1> SUFFICES ASSUME SweepInv, NextSegment PROVE SweepInv'
  OBVIOUS
<1>1. /\ SweepTypeOK /\ LinearInSegment /\ NothingLost
      /\ phase = "linear" /\ segment \in DOMAIN Segments /\ ~InSweep(segment)
      /\ segment' = segment + 1
      /\ rva' = IF segment' \in DOMAIN Segments THEN First(segment') ELSE rva
      /\ UNCHANGED <<phase, seeds, insns, insn_len, wl, guard>>
  BY DEF SweepInv, NextSegment
<1>2. /\ visited' = visited /\ (Full' <=> Full)
      /\ Running = {} /\ Running' = {} /\ Sweeping = {rva}
      /\ segment \in Nat \ {0} /\ rva \in Nat /\ ImageSize \in Nat
      /\ First(segment) \in Nat /\ Behind(segment) \in Nat
      /\ Segments[segment].exec \in BOOLEAN
      /\ First(segment) <= rva /\ rva <= Behind(segment)
  BY <1>1, SegmentFacts, ImageAssumption
     DEF visited, Full, Running, Sweeping, SweepTypeOK, LinearInSegment
<1>3. rva' \in Nat
  BY <1>1, <1>2, SegmentFacts
<1>4. SweepTypeOK'
  BY <1>1, <1>2, <1>3 DEF SweepTypeOK
<1>5. LinearInSegment'
  BY <1>1, SegmentFacts DEF LinearInSegment
<1>6. rva \in Code => rva \in Beginnings
  <2> SUFFICES ASSUME rva \in Code PROVE rva \in Beginnings
    OBVIOUS
  <2>1. rva < ImageSize
    BY <1>2 DEF Code
  <2>2. ~(Segments[segment].exec /\ rva < Behind(segment))
    BY <1>1, <2>1 DEF InSweep
  <2>3. QED
    BY <1>1, <1>2, <2>2, LeftAtBeginning
<1>7. BeginningsSwept'
  <2> SUFFICES ASSUME NEW s \in ExecSegments, First(s) < Behind(s), First(s) < ImageSize
               PROVE  \/ First(s) \in visited
                      \/ segment' < s
                      \/ segment' = s /\ rva' = First(s)
    BY <1>1, <1>2 DEF BeginningsSwept
  <2>1. /\ s \in DOMAIN Segments /\ Segments[s].exec
        /\ s \in Nat \ {0} /\ First(s) \in Nat /\ Behind(s) \in Nat
    BY SegmentFacts DEF ExecSegments
  <2>2. \/ First(s) \in visited
        \/ segment < s
        \/ segment = s /\ rva = First(s)
    BY <1>1 DEF NothingLost, BeginningsSwept
  <2>3. ~(segment = s /\ rva = First(s))
    BY <1>1, <2>1 DEF InSweep
  <2>4. CASE segment < s
    BY <1>1, <1>2, <2>1, <2>4
  <2>5. QED
    BY <2>2, <2>3, <2>4
<1>8. SeedsKept' /\ TargetsKept'
  BY <1>1, <1>2 DEF SeedsKept, TargetsKept, Known, NothingLost
<1>9. FlowKept'
  BY <1>1, <1>2, <1>6 DEF FlowKept, NothingLost
<1>10. QED
  BY <1>4, <1>5, <1>7, <1>8, <1>9 DEF SweepInv, NothingLost

\* The descent begins with every segment swept.
LEMMA StartDescentKeeps == SweepInv /\ StartDescent => SweepInv'
<1> SUFFICES ASSUME SweepInv, StartDescent PROVE SweepInv'
  OBVIOUS
<1>1. /\ SweepTypeOK /\ (~Full => NothingLost)
      /\ phase = "linear" /\ (segment \notin DOMAIN Segments \/ Full)
      /\ phase' = "descent"
      /\ UNCHANGED <<segment, rva, seeds, insns, insn_len, wl, guard>>
  BY DEF SweepInv, StartDescent
<1>2. visited' = visited /\ (Full' <=> Full) /\ Running = {} /\ Running' = {}
  BY <1>1 DEF visited, Full, Running
<1>3. SweepTypeOK' /\ LinearInSegment'
  BY <1>1, <1>2 DEF SweepTypeOK, LinearInSegment
<1>4. ASSUME ~Full PROVE NothingLost'
  <2>1. NothingLost /\ Sweeping = {} /\ segment \notin DOMAIN Segments
    BY <1>1, <1>4 DEF Sweeping
  <2>2. DOMAIN Segments = 1..Len(Segments) /\ Len(Segments) \in Nat
    BY ImageAssumption
  <2>3. \A s \in ExecSegments : ~(segment < s \/ (segment = s /\ rva = First(s)))
    <3> SUFFICES ASSUME NEW s \in ExecSegments PROVE ~(segment < s) /\ segment # s
      OBVIOUS
    <3>1. s \in DOMAIN Segments
      BY DEF ExecSegments
    <3>2. QED
      BY <1>1, <2>1, <2>2, <3>1 DEF SweepTypeOK
  <2>4. BeginningsSwept'
    BY <1>2, <2>1, <2>3 DEF NothingLost, BeginningsSwept
  <2>5. SeedsKept' /\ TargetsKept'
    BY <1>1, <1>2, <2>1 DEF SeedsKept, TargetsKept, Known, NothingLost
  <2>6. FlowKept'
    BY <1>1, <1>2, <2>1 DEF FlowKept, NothingLost
  <2>7. QED
    BY <2>4, <2>5, <2>6 DEF NothingLost
<1>5. QED
  BY <1>2, <1>3, <1>4 DEF SweepInv

\* What leaves the worklist is known already, no code, or decoded next.
LEMMA PopTargetKeeps == SweepInv /\ PopTarget => SweepInv'
<1> SUFFICES ASSUME SweepInv, PopTarget PROVE SweepInv'
  OBVIOUS
<1> DEFINE top == wl[Len(wl)]
<1>1. /\ SweepTypeOK /\ NothingLost
      /\ phase = "descent" /\ wl # <<>> /\ ~Full
      /\ guard' = guard + 1
      /\ wl' = SubSeq(wl, 1, Len(wl) - 1)
      /\ IF top \notin visited /\ IsExec(top)
         THEN phase' = "run" /\ rva' = top
         ELSE UNCHANGED <<phase, rva>>
      /\ UNCHANGED <<segment, seeds, insns, insn_len>>
  BY DEF SweepInv, PopTarget
<1>2. wl' \in Seq(Nat) /\ top \in Nat /\ Range(wl) = Range(wl') \cup {top}
  BY <1>1, PopRange DEF SweepTypeOK
<1> HIDE DEF top
<1>3. visited' = visited /\ (Full' <=> Full) /\ Running = {} /\ Sweeping = {}
  BY <1>1 DEF visited, Full, Running, Sweeping
<1>4. phase' \in {"descent", "run"} /\ rva' \in Nat
  BY <1>1, <1>2 DEF SweepTypeOK
<1>5. SweepTypeOK' /\ LinearInSegment'
  BY <1>1, <1>2, <1>3, <1>4 DEF SweepTypeOK, LinearInSegment
<1>6. ASSUME NEW a \in Code, Known(a) PROVE Known(a)'
  <2>1. CASE a \in visited \cup Range(wl')
    BY <1>3, <2>1 DEF Known
  <2>2. CASE a = top /\ top \notin visited
    <3>1. IsExec(top)
      BY <2>2 DEF Code
    <3>2. Running' = {top}
      BY <1>1, <2>2, <3>1 DEF Running
    <3>3. QED
      BY <2>2, <3>2 DEF Known
  <2>3. QED
    BY <1>2, <1>3, <1>6, <2>1, <2>2 DEF Known
<1>7. BeginningsSwept'
  BY <1>1, <1>3 DEF BeginningsSwept, NothingLost
<1>8. SeedsKept' /\ TargetsKept'
  BY <1>1, <1>3, <1>6 DEF SeedsKept, TargetsKept, NothingLost
<1>9. FlowKept'
  BY <1>1, <1>3 DEF FlowKept, NothingLost
<1>10. QED
  BY <1>5, <1>7, <1>8, <1>9 DEF SweepInv, NothingLost

\* One instruction of sweep_run: it ends the run, or the cursor is behind it.
LEMMA RunDecodeKeeps == SweepInv /\ RunDecode => SweepInv'
<1> SUFFICES ASSUME SweepInv, RunDecode PROVE SweepInv'
  OBVIOUS
<1>1. /\ SweepTypeOK /\ NothingLost
      /\ phase = "run" /\ ~Full /\ rva \in Code
      /\ segment' = segment /\ seeds' = seeds /\ guard' = guard
  BY DEF SweepInv, RunDecode
<1>2. PICK i \in DecodeOne(rva, ImageSize) :
          /\ PushInsn(rva, i)
          /\ Push(i, visited \cup {rva})
          /\ IF EndsRun(i) THEN phase' = "descent" /\ UNCHANGED rva
                           ELSE rva' = rva + i.size /\ UNCHANGED phase
  BY DEF RunDecode
<1>3. rva \in Nat /\ ImageSize \in Nat /\ rva < ImageSize
  BY <1>1, ImageAssumption DEF Code
<1>4. i \in Instruction /\ i.size \in Nat \ {0}
  BY <1>2, <1>3, DecodeType
<1>5. /\ visited' = visited \cup {rva} /\ visited' \subseteq Code
      /\ insns' \in [visited' -> Instruction] /\ insn_len' \in Nat
      /\ insns'[rva] = i
      /\ wl' \in Seq(Nat)
  BY <1>1, <1>2, <1>4, DecodeKeeps
<1>6. /\ SeedsKept' /\ TargetsKept'
      /\ \A a \in visited' \ {rva} :
            ~EndsRun(insns'[a]) /\ a + insns'[a].size \in Code
            => a + insns'[a].size \in visited' \cup Beginnings
  BY <1>1, <1>2, <1>4, DecodeKeepsKnown
<1>7. phase' \in {"descent", "run"} /\ rva' \in Nat
  BY <1>1, <1>2, <1>3, <1>4
<1>8. SweepTypeOK' /\ LinearInSegment'
  BY <1>1, <1>5, <1>7 DEF SweepTypeOK, LinearInSegment
<1>9. BeginningsSwept'
  BY <1>1, <1>5 DEF BeginningsSwept, NothingLost
<1>10. FlowKept'
  <2>1. ~EndsRun(i) => Running' = {rva + i.size}
    BY <1>1, <1>2 DEF Running
  <2>2. QED
    BY <1>5, <1>6, <2>1 DEF FlowKept
<1>11. QED
  BY <1>6, <1>8, <1>9, <1>10 DEF SweepInv, NothingLost

\* A run that ends without a terminator stands at known code, or at none.
LEMMA RunEndsKeeps == SweepInv /\ RunEnds => SweepInv'
<1> SUFFICES ASSUME SweepInv, RunEnds PROVE SweepInv'
  OBVIOUS
<1>1. /\ SweepTypeOK /\ (~Full => NothingLost)
      /\ phase = "run" /\ phase' = "descent"
      /\ Full \/ rva \notin Code \/ rva \in visited
      /\ UNCHANGED <<segment, rva, seeds, insns, insn_len, wl, guard>>
  BY DEF SweepInv, RunEnds
<1>2. visited' = visited /\ (Full' <=> Full) /\ Running = {rva} /\ Sweeping = {}
  BY <1>1 DEF visited, Full, Running, Sweeping
<1>3. SweepTypeOK' /\ LinearInSegment'
  BY <1>1, <1>2 DEF SweepTypeOK, LinearInSegment
<1>4. ASSUME ~Full PROVE NothingLost'
  <2>1. NothingLost /\ (rva \in Code => rva \in visited)
    BY <1>1, <1>4
  <2>2. BeginningsSwept'
    BY <1>1, <1>2, <2>1 DEF NothingLost, BeginningsSwept
  <2>3. SeedsKept' /\ TargetsKept'
    BY <1>1, <1>2, <2>1 DEF SeedsKept, TargetsKept, Known, NothingLost
  <2>4. FlowKept'
    BY <1>1, <1>2, <2>1 DEF FlowKept, NothingLost
  <2>5. QED
    BY <2>2, <2>3, <2>4 DEF NothingLost
<1>5. QED
  BY <1>2, <1>3, <1>4 DEF SweepInv

\* The end of the descent, and a step that is none.
LEMMA SweepEndsKeeps == SweepInv /\ (SweepEnds \/ UNCHANGED sweepVars) => SweepInv'
<1> SUFFICES ASSUME SweepInv, SweepEnds \/ UNCHANGED sweepVars PROVE SweepInv'
  OBVIOUS
<1>1. /\ UNCHANGED <<segment, rva, seeds, insns, insn_len, wl, guard>>
      /\ phase' = phase \/ (phase = "descent" /\ phase' = "swept")
  BY DEF SweepEnds, sweepVars
<1>2. /\ visited' = visited /\ (Full' <=> Full)
      /\ Running' = Running /\ Sweeping' = Sweeping
  BY <1>1 DEF visited, Full, Running, Sweeping
<1>3. SweepTypeOK' /\ LinearInSegment'
  BY <1>1, <1>2 DEF SweepInv, SweepTypeOK, LinearInSegment
<1>4. ASSUME NothingLost PROVE NothingLost'
  <2>1. BeginningsSwept'
    BY <1>1, <1>2, <1>4 DEF NothingLost, BeginningsSwept
  <2>2. SeedsKept' /\ TargetsKept'
    BY <1>1, <1>2, <1>4 DEF SeedsKept, TargetsKept, Known, NothingLost
  <2>3. FlowKept'
    BY <1>1, <1>2, <1>4 DEF FlowKept, NothingLost
  <2>4. QED
    BY <2>1, <2>2, <2>3 DEF NothingLost
<1>5. QED
  BY <1>2, <1>3, <1>4 DEF SweepInv

\* The invariant says at the end what the listing promises.
LEMMA InvGivesClosed == SweepInv => ListingClosed
<1> SUFFICES ASSUME SweepInv, phase = "swept", ~Truncated
             PROVE  /\ \A a \in visited : FlowsTo(a) \cap Code \subseteq visited
                    /\ Range(seeds) \cap Code \subseteq visited
  BY DEF ListingClosed
<1>1. NothingLost /\ wl = <<>> /\ Running = {} /\ Sweeping = {} /\ SweepTypeOK
  BY DEF SweepInv, Truncated, Running, Sweeping
<1>2. Range(wl) = {}
  BY <1>1 DEF Range
<1>3. \A a : Known(a) => a \in visited
  BY <1>1, <1>2 DEF Known
<1>4. Beginnings \cap Code \subseteq visited
  <2> SUFFICES ASSUME NEW s \in ExecSegments, First(s) < Behind(s), First(s) \in Code
               PROVE  First(s) \in visited
    BY DEF Beginnings
  <2>1. First(s) < ImageSize
    BY ImageAssumption DEF Code
  <2>2. QED
    BY <1>1, <2>1 DEF NothingLost, BeginningsSwept
<1>5. ASSUME NEW a \in visited, NEW b \in FlowsTo(a) \cap Code PROVE b \in visited
  <2>1. CASE HasRef(insns[a]) /\ b = insns[a].target
    BY <1>1, <1>3, <1>5, <2>1 DEF NothingLost, TargetsKept
  <2>2. CASE ~EndsRun(insns[a]) /\ b = a + insns[a].size
    BY <1>1, <1>4, <1>5, <2>2 DEF NothingLost, FlowKept
  <2>3. QED
    BY <1>5, <2>1, <2>2 DEF FlowsTo
<1>6. Range(seeds) \cap Code \subseteq visited
  BY <1>1, <1>3 DEF NothingLost, SeedsKept
<1>7. QED
  BY <1>5, <1>6

LEMMA StepKeepsSweepInv == SweepInv /\ [SweepNext]_sweepVars => SweepInv'
BY LinearDecodeKeeps, NextSegmentKeeps, StartDescentKeeps, PopTargetKeeps,
   RunDecodeKeeps, RunEndsKeeps, SweepEndsKeeps DEF SweepNext

\* The types of the sweep, and the inductive invariant, in every state.
THEOREM SweepInvariant == SweepSpec => []SweepInv
<1>1. QED
  BY InitSweepInv, StepKeepsSweepInv, PTL DEF SweepSpec

\* ds_engine_disassemble ends with a listing closed under control flow,
\* unless DS_MAX_INSNS cut it short.
THEOREM SweepClosesListing == SweepSpec => []ListingClosed
<1>1. QED
  BY SweepInvariant, InvGivesClosed, PTL

-----------------------------------------------------------------------------
(* The function table.                                                     *)

\* The walk takes the starts in ascending order.
TableFollowsStarts ==
    /\ pass = "waiting" => starts = {} /\ DOMAIN funcs = {}
    /\ pass = "cfg" => fstart \in starts /\ DOMAIN funcs = {g \in starts : g < fstart}
    /\ Built => DOMAIN funcs = starts

CalleesStart == pass # "waiting" => CallTargets \cap visited \subseteq starts

\* A walk stops in front of the next start, and so do the finished ones.
StopsAtStarts ==
    /\ pass = "cfg" => \A g \in starts : fstart < g => fend <= g
    /\ \A f \in DOMAIN funcs : "size" \in DOMAIN funcs[f] /\ funcs[f].size \in Int
    /\ \A f \in DOMAIN funcs : \A g \in starts : f < g => f + funcs[f].size <= g

EngineInv ==
    /\ SweepInv
    /\ pass \in {"waiting", "cfg", "xrefs", "analyzed"}
    /\ pass # "waiting" => phase = "swept"
    /\ starts \subseteq visited
    /\ fend \in Nat
    /\ TableFollowsStarts
    /\ CalleesStart
    /\ NoOverlap => StopsAtStarts

-----------------------------------------------------------------------------
\* A non-empty set of naturals has the minimum the code takes.
LEMMA MinProperty ==
    ASSUME NEW S \in SUBSET Nat, S # {}
    PROVE  Min(S) \in S /\ \A x \in S : Min(S) <= x
<1> DEFINE R == OpToRel(<, Nat)
<1>1. \A x, y \in Nat : x < y => <<x, y>> \in R
  BY DEF OpToRel
<1>2. IsWellFoundedOn(R, Nat)
  BY NatLessThanWellFounded
<1> HIDE DEF R
<1>3. PICK n \in S : \A m \in S : <<m, n>> \notin R
  BY <1>2, WFMin
<1>4. \A m \in S : n <= m
  <2> SUFFICES ASSUME NEW m \in S PROVE n <= m
    OBVIOUS
  <2>1. m \in Nat /\ n \in Nat /\ ~(m < n)
    BY <1>1, <1>3
  <2>2. QED
    BY <2>1
<1>5. QED
  BY <1>4 DEF Min

LEMMA VisitedNat == SweepInv => visited \subseteq Code /\ Code \subseteq Nat
BY ImageAssumption DEF SweepInv, SweepTypeOK, Code

\* Every start is the address of a decoded instruction.
LEMMA StartsDecoded ==
    ASSUME SweepInv, NEW recovered
    PROVE  /\ FunctionStarts(recovered) \subseteq visited
           /\ CallTargets \cap visited \subseteq FunctionStarts(recovered)
<1>1. visited \subseteq Nat /\ visited \subseteq Code
  BY VisitedNat
<1>2. ASSUME NEW a, Later(a) # {} PROVE NextInsn(a) \in visited
  <2>1. Later(a) \subseteq visited /\ NextInsn(a) = Min(Later(a))
    BY <1>2 DEF Later, NextInsn
  <2>2. QED
    BY <1>1, <1>2, <2>1, MinProperty
<1>3. \A a : NextInsn(a) # EndOfListing => NextInsn(a) \in visited
  BY <1>2 DEF NextInsn
<1>4. Fallback \subseteq visited
  BY <1>3 DEF Fallback
<1>5. \A S : Considered(S) \subseteq visited
  BY DEF Considered
<1>6. Prologues \subseteq visited
  BY DEF Prologues
<1>7. CallTargets \cap visited \subseteq Considered(Range(seeds) \cup recovered \cup CallTargets)
  BY <1>1 DEF Considered, Code
<1>8. QED
  BY <1>4, <1>5, <1>6, <1>7 DEF FunctionStarts

\* A step of the passes after the sweep leaves its result alone.
LEMMA SweepUnchanged ==
    ASSUME UNCHANGED sweepVars, SweepInv
    PROVE  /\ SweepInv' /\ visited' = visited /\ phase' = phase
           /\ CallTargets' = CallTargets /\ (NoOverlap' <=> NoOverlap)
<1>1. SweepInv'
  BY StepKeepsSweepInv
<1>2. visited' = visited /\ phase' = phase /\ insns' = insns
  BY DEF sweepVars, visited
<1>3. CallTargets' = CallTargets /\ (NoOverlap' <=> NoOverlap)
  BY <1>2 DEF CallTargets, CallEdges, NoOverlap
<1>4. QED
  BY <1>1, <1>2, <1>3

\* Whatever the sweep does, the passes have not begun.
LEMMA SweepStepKeeps == EngineInv /\ SweepNext /\ UNCHANGED cfgVars => EngineInv'
<1> SUFFICES ASSUME EngineInv, SweepNext, UNCHANGED cfgVars PROVE EngineInv'
  OBVIOUS
<1>1. phase # "swept"
  BY DEF SweepNext, LinearDecode, NextSegment, StartDescent, PopTarget,
         RunDecode, RunEnds, SweepEnds
<1>2. pass = "waiting" /\ pass' = pass /\ starts = {} /\ starts' = {}
      /\ fend' = fend /\ funcs' = funcs /\ DOMAIN funcs = {}
  BY <1>1 DEF EngineInv, TableFollowsStarts, cfgVars, walkVars
<1>3. SweepInv'
  BY StepKeepsSweepInv DEF EngineInv
<1>4. TableFollowsStarts' /\ CalleesStart'
  BY <1>2 DEF TableFollowsStarts, CalleesStart, Built
<1>5. StopsAtStarts'
  BY <1>2 DEF StopsAtStarts
<1>6. QED
  BY <1>2, <1>3, <1>4, <1>5 DEF EngineInv

\* The first function is the lowest start.
LEMMA BuildCfgKeeps == EngineInv /\ BuildCfg => EngineInv'
<1> SUFFICES ASSUME EngineInv, BuildCfg PROVE EngineInv'
  OBVIOUS
<1>1. SweepInv /\ phase = "swept" /\ pass = "waiting"
      /\ UNCHANGED sweepVars /\ funcs' = funcs /\ DOMAIN funcs = {}
  BY DEF BuildCfg, EngineInv, TableFollowsStarts
<1>2. /\ SweepInv' /\ visited' = visited /\ phase' = phase
      /\ CallTargets' = CallTargets /\ (NoOverlap' <=> NoOverlap)
  BY <1>1, SweepUnchanged
<1>3. starts' \subseteq visited /\ CallTargets \cap visited \subseteq starts'
  <2>1. PICK recovered \in RecoveredSets :
            starts' = IF visited = {} THEN {} ELSE FunctionStarts(recovered)
    BY DEF BuildCfg
  <2>2. QED
    BY <1>1, <2>1, StartsDecoded
<1>4. CASE starts' = {}
  <2>1. pass' = "xrefs" /\ fend' = fend
    BY <1>4 DEF BuildCfg, walkVars
  <2>2. TableFollowsStarts' /\ CalleesStart'
    BY <1>1, <1>2, <1>3, <1>4, <2>1 DEF TableFollowsStarts, CalleesStart, Built
  <2>3. StopsAtStarts'
    BY <1>1, <2>1 DEF StopsAtStarts
  <2>4. QED
    BY <1>1, <1>2, <1>3, <2>1, <2>2, <2>3 DEF EngineInv
<1>5. CASE starts' # {}
  <2> DEFINE f == Min(starts')
  <2>1. pass' = "cfg" /\ fstart' = f /\ fend' = f
    BY <1>5 DEF BuildCfg, BeginFunction
  <2>2. starts' \subseteq Nat
    BY <1>1, <1>3, VisitedNat
  <2>3. f \in starts' /\ f \in Nat /\ \A g \in starts' : f <= g
    BY <1>5, <2>2, MinProperty
  <2> HIDE DEF f
  <2>4. {g \in starts' : g < f} = {}
    <3>1. \A g \in starts' : g \in Nat /\ ~(g < f)
      BY <2>2, <2>3
    <3>2. QED
      BY <3>1
  <2>5. TableFollowsStarts' /\ CalleesStart'
    BY <1>1, <1>2, <1>3, <2>1, <2>3, <2>4 DEF TableFollowsStarts, CalleesStart, Built
  <2>6. StopsAtStarts'
    BY <1>1, <2>1, <2>3 DEF StopsAtStarts
  <2>7. QED
    BY <1>1, <1>2, <1>3, <2>1, <2>3, <2>5, <2>6 DEF EngineInv
<1>6. QED
  BY <1>4, <1>5

\* The limit of a walk is not beyond the next start.
LEMMA LimitProperty ==
    ASSUME SweepInv, starts \subseteq visited, NEW f \in visited
    PROVE  /\ Limit(f) \in Nat
           /\ \A g \in starts : f < g => Limit(f) <= g
<1>1. visited \subseteq Nat /\ visited \subseteq Code
  BY VisitedNat
<1>2. \E s \in DOMAIN Segments : InSegment(f, s)
  BY <1>1 DEF Code, IsExec, ExecSegments
<1>3. SegEnd(f) \in Nat
  BY <1>2, SegmentFacts DEF SegEnd
<1>4. {SegEnd(f)} \cup {g \in starts : g > f} \in SUBSET Nat
  BY <1>1, <1>3
<1>5. QED
  BY <1>1, <1>4, MinProperty DEF Limit

\* A walked instruction ends before the next start, if none overlap.
LEMMA WalkInsnKeeps == EngineInv /\ WalkInsn => EngineInv'
<1> SUFFICES ASSUME EngineInv, WalkInsn PROVE EngineInv'
  OBVIOUS
<1>1. /\ SweepInv /\ pass = "cfg" /\ InWalk /\ UNCHANGED sweepVars
      /\ pass' = pass /\ starts' = starts /\ fstart' = fstart /\ funcs' = funcs
      /\ fend' = at + insns[at].size
      /\ fstart \in starts /\ starts \subseteq visited
  BY DEF WalkInsn, EngineInv, TableFollowsStarts
<1>2. /\ SweepInv' /\ visited' = visited /\ phase' = phase
      /\ CallTargets' = CallTargets /\ (NoOverlap' <=> NoOverlap)
  BY <1>1, SweepUnchanged
<1>3. at \in visited /\ at < Limit(fstart)
  BY <1>1 DEF InWalk
<1>4. visited \subseteq Nat
  BY <1>1, VisitedNat
<1>5. insns[at].size \in Nat
  BY <1>1, <1>3 DEF SweepInv, SweepTypeOK, Instruction
<1>6. TableFollowsStarts' /\ CalleesStart'
  BY <1>1, <1>2 DEF EngineInv, TableFollowsStarts, CalleesStart, Built
<1>7. ASSUME NoOverlap PROVE StopsAtStarts'
  <2>1. ASSUME NEW g \in starts, fstart < g PROVE fend' <= g
    <3>1. Limit(fstart) <= g
      BY <1>1, <2>1, LimitProperty
    <3>2. at < g
      <4>1. Limit(fstart) \in Nat
        BY <1>1, LimitProperty
      <4>2. QED
        BY <1>1, <1>3, <1>4, <2>1, <3>1, <4>1
    <3>3. QED
      BY <1>1, <1>3, <1>7, <2>1, <3>2 DEF NoOverlap
  <2>2. QED
    BY <1>1, <1>7, <2>1 DEF EngineInv, StopsAtStarts
<1>8. QED
  BY <1>1, <1>2, <1>3, <1>4, <1>5, <1>6, <1>7 DEF EngineInv

\* A finished function enters the table, and the next start is taken.
LEMMA PushFunctionKeeps == EngineInv /\ PushFunction => EngineInv'
<1> SUFFICES ASSUME EngineInv, PushFunction PROVE EngineInv'
  OBVIOUS
<1> DEFINE rest == {g \in starts : g > fstart}
           new == [size |-> fend - fstart, calls |-> call_count,
                   blocks |-> Cardinality(block_leaders)]
<1>1. /\ SweepInv /\ pass = "cfg" /\ UNCHANGED sweepVars /\ starts' = starts
      /\ funcs' = [g \in DOMAIN funcs \cup {fstart} |->
                     IF g = fstart THEN new ELSE funcs[g]]
      /\ IF rest = {} THEN pass' = "xrefs" /\ UNCHANGED walkVars
                      ELSE BeginFunction(Min(rest)) /\ UNCHANGED pass
      /\ fstart \in starts /\ starts \subseteq visited /\ fend \in Nat
      /\ DOMAIN funcs = {g \in starts : g < fstart}
  BY DEF PushFunction, EngineInv, TableFollowsStarts
<1>2. /\ SweepInv' /\ visited' = visited /\ phase' = phase
      /\ CallTargets' = CallTargets /\ (NoOverlap' <=> NoOverlap)
  BY <1>1, SweepUnchanged
<1>3. starts \subseteq Nat /\ fstart \in Nat
  BY <1>1, VisitedNat
<1>4. /\ DOMAIN funcs' = {g \in starts : g <= fstart}
      /\ "size" \in DOMAIN funcs'[fstart] /\ funcs'[fstart].size = fend - fstart
      /\ \A g \in DOMAIN funcs : funcs'[g] = funcs[g]
  <2>1. "size" \in DOMAIN new /\ new.size = fend - fstart
    OBVIOUS
  <2> HIDE DEF new
  <2>2. DOMAIN funcs' = DOMAIN funcs \cup {fstart} /\ funcs'[fstart] = new
    BY <1>1
  <2>3. \A g \in DOMAIN funcs : g # fstart /\ funcs'[g] = funcs[g]
    BY <1>1, <1>3
  <2>4. \A g \in starts : g <= fstart <=> g < fstart \/ g = fstart
    BY <1>3
  <2>5. DOMAIN funcs' = {g \in starts : g <= fstart}
    BY <1>1, <2>2, <2>4
  <2>6. QED
    BY <2>1, <2>2, <2>3, <2>5
<1> HIDE DEF new
<1>5. ASSUME NoOverlap
      PROVE  /\ \A f \in DOMAIN funcs' :
                   "size" \in DOMAIN funcs'[f] /\ funcs'[f].size \in Int
             /\ \A f \in DOMAIN funcs' : \A g \in starts' :
                   f < g => f + funcs'[f].size <= g
  <2>1. StopsAtStarts
    BY <1>5 DEF EngineInv
  <2>2. SUFFICES ASSUME NEW f \in DOMAIN funcs'
                 PROVE  /\ "size" \in DOMAIN funcs'[f] /\ funcs'[f].size \in Int
                        /\ \A g \in starts : f < g => f + funcs'[f].size <= g
    BY <1>1
  <2>3. CASE f = fstart
    <3>1. \A g \in starts : fstart < g => fend <= g
      BY <1>1, <2>1 DEF StopsAtStarts
    <3>2. funcs'[f].size = fend - fstart /\ fend \in Nat /\ fstart \in Nat
      BY <1>1, <1>3, <1>4, <2>3
    <3>3. funcs'[f].size \in Int /\ fstart + funcs'[f].size = fend
      BY <3>2
    <3>4. QED
      BY <1>4, <2>3, <3>1, <3>3
  <2>4. CASE f # fstart
    <3>1. f \in DOMAIN funcs
      BY <1>1, <2>4
    <3>2. QED
      BY <1>4, <2>1, <3>1 DEF StopsAtStarts
  <2>5. QED
    BY <2>3, <2>4
<1>6. CASE rest = {}
  <2>1. pass' = "xrefs" /\ fend' = fend
    BY <1>1, <1>6 DEF walkVars
  <2>2. \A g \in starts : g <= fstart
    BY <1>3, <1>6
  <2>3. DOMAIN funcs' = starts
    BY <1>4, <2>2
  <2>4. TableFollowsStarts' /\ CalleesStart'
    BY <1>1, <1>2, <2>1, <2>3
       DEF EngineInv, TableFollowsStarts, CalleesStart, Built
  <2>5. NoOverlap => StopsAtStarts'
    BY <1>5, <2>1 DEF StopsAtStarts
  <2>6. QED
    BY <1>1, <1>2, <2>1, <2>4, <2>5 DEF EngineInv
<1>7. CASE rest # {}
  <2> DEFINE f == Min(rest)
  <2>1. pass' = "cfg" /\ fstart' = f /\ fend' = f
    BY <1>1, <1>7 DEF BeginFunction
  <2>2. rest \subseteq Nat
    BY <1>3
  <2>3. f \in rest /\ \A g \in rest : f <= g
    BY <1>7, <2>2, MinProperty
  <2> HIDE DEF f
  <2>4. f \in starts /\ f \in Nat /\ fstart < f /\ \A g \in starts : fstart < g => f <= g
    BY <1>3, <2>3
  <2>5. DOMAIN funcs' = {g \in starts : g < f}
    <3>1. \A g \in starts : g <= fstart <=> g < f
      BY <1>3, <2>4
    <3>2. QED
      BY <1>4, <3>1
  <2>6. TableFollowsStarts' /\ CalleesStart'
    BY <1>1, <1>2, <2>1, <2>4, <2>5
       DEF EngineInv, TableFollowsStarts, CalleesStart, Built
  <2>7. NoOverlap => StopsAtStarts'
    <3>1. \A g \in starts' : fstart' < g => fend' <= g
      <4>1. \A g \in starts : f < g => f <= g
        BY <1>3, <2>4
      <4>2. starts' = starts
        BY <1>1
      <4>3. QED
        BY <2>1, <4>1, <4>2
    <3>2. QED
      BY <1>5, <3>1 DEF StopsAtStarts
  <2>8. QED
    BY <1>1, <1>2, <2>1, <2>4, <2>6, <2>7 DEF EngineInv
<1>8. QED
  BY <1>6, <1>7

\* build_xrefs changes the call counts only.
LEMMA BuildXrefsKeeps == EngineInv /\ BuildXrefs => EngineInv'
<1> SUFFICES ASSUME EngineInv, BuildXrefs PROVE EngineInv'
  OBVIOUS
<1>1. /\ SweepInv /\ pass = "xrefs" /\ pass' = "analyzed"
      /\ UNCHANGED sweepVars /\ starts' = starts /\ fend' = fend
      /\ DOMAIN funcs' = DOMAIN funcs
  BY DEF BuildXrefs, EngineInv, walkVars
<1>2. /\ SweepInv' /\ visited' = visited /\ phase' = phase
      /\ CallTargets' = CallTargets /\ (NoOverlap' <=> NoOverlap)
  BY <1>1, SweepUnchanged
<1>3. TableFollowsStarts' /\ CalleesStart'
  BY <1>1, <1>2 DEF EngineInv, TableFollowsStarts, CalleesStart, Built
<1>4. ASSUME NoOverlap PROVE StopsAtStarts'
  <2>1. StopsAtStarts
    BY <1>4 DEF EngineInv
  <2>2. ASSUME NEW f \in DOMAIN funcs
        PROVE  "size" \in DOMAIN funcs'[f] /\ funcs'[f].size = funcs[f].size
    <3>1. "size" \in DOMAIN funcs[f]
      BY <2>1 DEF StopsAtStarts
    <3>2. QED
      BY <3>1 DEF BuildXrefs
  <2>3. QED
    BY <1>1, <2>1, <2>2 DEF StopsAtStarts
<1>5. QED
  BY <1>1, <1>2, <1>3, <1>4 DEF EngineInv

-----------------------------------------------------------------------------
LEMMA InitEngineInv == EngineInit => EngineInv
<1> SUFFICES ASSUME EngineInit PROVE EngineInv
  OBVIOUS
<1>1. /\ pass = "waiting" /\ starts = {} /\ DOMAIN funcs = {} /\ fend = 0
  BY DEF EngineInit, CfgInit
<1>2. SweepInv
  BY InitSweepInv DEF EngineInit
<1>3. TableFollowsStarts /\ CalleesStart /\ StopsAtStarts
  BY <1>1 DEF TableFollowsStarts, CalleesStart, StopsAtStarts, Built
<1>4. QED
  BY <1>1, <1>2, <1>3 DEF EngineInv

LEMMA StutterKeepsEngineInv == EngineInv /\ UNCHANGED engineVars => EngineInv'
<1> SUFFICES ASSUME EngineInv, UNCHANGED engineVars PROVE EngineInv'
  OBVIOUS
<1>1. UNCHANGED sweepVars /\ UNCHANGED <<pass, starts, fstart, fend, funcs>>
  BY DEF engineVars, cfgVars, walkVars
<1>2. /\ SweepInv' /\ visited' = visited /\ phase' = phase
      /\ CallTargets' = CallTargets /\ (NoOverlap' <=> NoOverlap)
  BY <1>1, SweepUnchanged DEF EngineInv
<1>3. TableFollowsStarts' /\ CalleesStart'
  BY <1>1, <1>2 DEF EngineInv, TableFollowsStarts, CalleesStart, Built
<1>4. StopsAtStarts => StopsAtStarts'
  BY <1>1 DEF StopsAtStarts
<1>5. QED
  BY <1>1, <1>2, <1>3, <1>4 DEF EngineInv

LEMMA StepKeepsEngineInv == EngineInv /\ [EngineNext]_engineVars => EngineInv'
BY SweepStepKeeps, BuildCfgKeeps, WalkInsnKeeps, PushFunctionKeeps,
   BuildXrefsKeeps, StutterKeepsEngineInv DEF EngineNext

\* The inductive invariant of the whole analysis.
THEOREM EngineInvariant == EngineSpec => []EngineInv
<1>1. QED
  BY InitEngineInv, StepKeepsEngineInv, PTL DEF EngineSpec

\* Every direct callee that can be decoded heads a function of the result,
\* unless DS_MAX_INSNS cut the sweep short.
THEOREM CalleesBecomeFunctions == EngineSpec => []CalleesAreFunctions
<1>1. EngineInv => CalleesAreFunctions
  <2> SUFFICES ASSUME EngineInv, Built, ~Truncated, NEW a \in CallEdges,
                      insns[a].target \in Code
               PROVE  insns[a].target \in DOMAIN funcs
    BY DEF CalleesAreFunctions, CallTargets
  <2>1. SweepInv /\ phase = "swept" /\ pass # "waiting" /\ DOMAIN funcs = starts
    BY DEF EngineInv, Built, TableFollowsStarts
  <2>2. ListingClosed
    BY <2>1, InvGivesClosed
  <2>3. a \in visited /\ insns[a].target \in FlowsTo(a) \cap Code
    BY DEF CallEdges, FlowsTo, HasRef, RefKinds
  <2>4. insns[a].target \in visited
    BY <2>1, <2>2, <2>3 DEF ListingClosed
  <2>5. insns[a].target \in CallTargets
    BY DEF CallTargets
  <2>6. QED
    BY <2>1, <2>4, <2>5 DEF EngineInv, CalleesStart
<1>2. QED
  BY <1>1, EngineInvariant, PTL

\* The extents of two functions do not meet, unless instructions overlap.
THEOREM ExtentsDisjoint == EngineSpec => []FunctionsDisjoint
<1>1. EngineInv => FunctionsDisjoint
  <2> SUFFICES ASSUME EngineInv, Built, NoOverlap,
                      NEW f \in DOMAIN funcs, NEW g \in DOMAIN funcs, f < g
               PROVE  Extent(f) \cap Extent(g) = {}
    BY DEF FunctionsDisjoint
  <2>1. StopsAtStarts /\ DOMAIN funcs = starts /\ starts \subseteq visited
    BY DEF EngineInv, TableFollowsStarts
  <2>2. f \in Nat /\ g \in Nat
    BY <2>1, VisitedNat DEF EngineInv
  <2>3. funcs[f].size \in Int /\ funcs[g].size \in Int /\ f + funcs[f].size <= g
    BY <2>1 DEF StopsAtStarts
  <2>4. QED
    BY <2>2, <2>3 DEF Extent
<1>2. QED
  BY <1>1, EngineInvariant, PTL

\* The whole analysis runs the sweep as specified, so its listing is closed.
THEOREM EngineClosesListing == EngineSpec => []ListingClosed
<1>1. EngineInv => ListingClosed
  BY InvGivesClosed DEF EngineInv
<1>2. QED
  BY <1>1, EngineInvariant, PTL

-----------------------------------------------------------------------------
(***************************************************************************)
(* The walk of one function, where no instructions overlap.  Behind at     *)
(* everything is walked; what a walked instruction leads to is walked, is  *)
(* where the walk stands, or is noted in max_internal_target, which keeps  *)
(* the walk going.                                                         *)
(***************************************************************************)
Walked(a) == a \in visited /\ fstart <= a /\ a < fend

JumpsNoted ==
    \A a \in visited : Walked(a) /\ insns[a].kind \in {"branch", "jmp"} =>
        (fstart <= insns[a].target /\ insns[a].target < Limit(fstart)
            => insns[a].target <= max_internal_target)

FallsOn ==
    \A a \in visited : Walked(a) /\ ~EndsRun(insns[a]) =>
        (a + insns[a].size \in visited /\ a + insns[a].size < Limit(fstart)
            => a + insns[a].size < fend \/ a + insns[a].size = at)

NextIsAt ==
    \A b \in visited : fend <= b => at <= b \/ (at = EndOfListing /\ max_internal_target < fend)

Stands ==
    /\ at \in visited \cup {EndOfListing}
    /\ at \in visited => fstart <= at /\ fend <= at
    /\ max_internal_target \in Nat

WalkInv == JumpsNoted /\ FallsOn /\ NextIsAt /\ Stands

\* What FlowStaysInside says of one function.
FlowOf(f) ==
    \A a \in visited \cap Extent(f) :
        \A b \in GoesOnAt(a) \cap Code : f <= b /\ b < Limit(f) => b \in Extent(f)

FlowInv ==
    pass # "waiting" /\ NoOverlap =>
        /\ pass = "cfg" => WalkInv
        /\ ~Truncated => \A f \in DOMAIN funcs : FlowOf(f)

LEMMA NextProperty ==
    ASSUME SweepInv, NEW a \in visited
    PROVE  /\ NextInsn(a) \in visited \cup {EndOfListing}
           /\ NextInsn(a) \in visited => a < NextInsn(a)
           /\ \A b \in visited : a < b => NextInsn(a) <= b /\ NextInsn(a) \in visited
<1>1. visited \subseteq Nat /\ EndOfListing \notin visited
  BY VisitedNat, ImageAssumption DEF Code, EndOfListing
<1>2. CASE Later(a) = {}
  BY <1>1, <1>2 DEF NextInsn, Later
<1>3. CASE Later(a) # {}
  <2>1. Later(a) \in SUBSET Nat /\ NextInsn(a) = Min(Later(a))
    BY <1>1, <1>3 DEF Later, NextInsn
  <2>2. NextInsn(a) \in Later(a) /\ \A x \in Later(a) : NextInsn(a) <= x
    BY <1>3, <2>1, MinProperty
  <2>3. QED
    BY <1>1, <2>2 DEF Later
<1>4. QED
  BY <1>2, <1>3

\* Three candidates at most: the maximum so far, the jump, the table.
LEMMA NotedTarget ==
    ASSUME NEW m \in Nat, NEW t \in Nat, NEW S \in SUBSET {t}, NEW T \in SUBSET {t}
    PROVE  /\ Max({m} \cup S \cup T) \in Nat
           /\ m <= Max({m} \cup S \cup T)
           /\ \A x \in S : x <= Max({m} \cup S \cup T)
<1> DEFINE U == {m} \cup S \cup T
<1>1. \E x \in U : \A y \in U : x >= y
  <2>1. CASE t \in U /\ t > m
    BY <2>1
  <2>2. CASE ~(t \in U /\ t > m)
    BY <2>2
  <2>3. QED
    BY <2>1, <2>2
<1>2. Max(U) \in U /\ \A y \in U : Max(U) >= y
  BY <1>1 DEF Max
<1>3. QED
  BY <1>2

\* A walk that begins has nothing behind it.
LEMMA BeginWalks ==
    ASSUME SweepInv', NEW f \in visited', f \in Nat, (fstart' = f /\ at' = f /\ fend' = f),
           max_internal_target' = f
    PROVE  WalkInv'
<1>1. visited' \subseteq Nat
  BY VisitedNat DEF SweepInv, SweepTypeOK, Code
<1>2. \A a \in visited' : ~Walked(a)'
  BY <1>1 DEF Walked
<1>3. QED
  BY <1>2 DEF WalkInv, JumpsNoted, FallsOn, NextIsAt, Stands

\* The walk takes in the instruction it stands at, and none is left behind.
LEMMA WalkedGrows ==
    ASSUME EngineInv, WalkInv, NoOverlap, WalkInsn
    PROVE  /\ at \in visited /\ ~Walked(at) /\ UNCHANGED <<insns, visited>>
           /\ \A a \in visited : Walked(a)' <=> Walked(a) \/ a = at
<1>1. /\ SweepInv /\ InWalk /\ UNCHANGED <<insns, starts, fstart>>
      /\ fend' = at + insns[at].size /\ fstart \in visited /\ fend \in Nat
  BY DEF WalkInsn, EngineInv, TableFollowsStarts, sweepVars
<1>2. visited' = visited /\ visited \subseteq Nat /\ EndOfListing \notin visited
  BY <1>1, VisitedNat, ImageAssumption DEF visited, Code, EndOfListing
<1>3. /\ at \in visited /\ at \in Nat /\ fstart <= at /\ fend <= at
      /\ insns[at].size \in Nat \ {0} /\ fstart \in Nat
  BY <1>1, <1>2 DEF InWalk, WalkInv, Stands, SweepInv, SweepTypeOK, Instruction
<1>4. \A a \in visited : Walked(a)' <=> Walked(a) \/ a = at
  <2> SUFFICES ASSUME NEW a \in visited PROVE Walked(a)' <=> Walked(a) \/ a = at
    OBVIOUS
  <2>1. a \in Nat
    BY <1>2
  <2>2. CASE a < at
    <3>1. a < fend
      BY <1>1, <1>2, <1>3, <2>1, <2>2 DEF WalkInv, NextIsAt
    <3>2. QED
      BY <1>1, <1>2, <1>3, <2>1, <2>2, <3>1 DEF Walked
  <2>3. CASE a = at
    BY <1>1, <1>2, <1>3, <2>3 DEF Walked
  <2>4. CASE at < a
    <3>1. fend' <= a
      BY <1>1, <1>3, <2>4 DEF NoOverlap
    <3>2. QED
      BY <1>1, <1>2, <1>3, <2>1, <2>4, <3>1 DEF Walked
  <2>5. QED
    BY <1>3, <2>1, <2>2, <2>3, <2>4
<1>5. QED
  BY <1>1, <1>2, <1>3, <1>4 DEF Walked

\* One instruction walked: the one at at, and none it overlaps.
LEMMA WalkInsnWalks ==
    ASSUME EngineInv, WalkInv, NoOverlap, WalkInsn
    PROVE  WalkInv'
<1>1. /\ SweepInv /\ InWalk /\ UNCHANGED <<insns, starts, fstart>> /\ EngineInv'
      /\ fend' = at + insns[at].size /\ fstart \in visited /\ fend \in Nat
  BY WalkInsnKeeps DEF WalkInsn, EngineInv, TableFollowsStarts, sweepVars
<1>2. /\ visited' = visited /\ visited \subseteq Nat /\ EndOfListing \notin visited
      /\ Limit(fstart)' = Limit(fstart)
  BY <1>1, VisitedNat, ImageAssumption
  DEF visited, Code, EndOfListing, Limit, SegEnd, InSegment, First, Behind
<1>3. /\ at \in visited /\ at \in Nat /\ at < Limit(fstart) /\ fstart <= at /\ fend <= at
      /\ insns[at].size \in Nat \ {0} /\ insns[at].target \in Nat /\ fstart \in Nat
  BY <1>1, <1>2 DEF InWalk, WalkInv, Stands, SweepInv, SweepTypeOK, Instruction
<1>4. /\ max_internal_target' \in Nat /\ max_internal_target <= max_internal_target'
      /\ \A x \in InternalTarget(insns[at]) : x <= max_internal_target'
  <2>1. InternalTarget(insns[at]) \in SUBSET {insns[at].target}
    BY DEF InternalTarget
  <2>2. TableTarget(insns[at]) \in SUBSET {insns[at].target}
    BY DEF TableTarget
  <2>3. max_internal_target \in Nat
    BY DEF WalkInv, Stands
  <2>4. QED
    BY <1>3, <2>1, <2>2, <2>3, NotedTarget DEF WalkInsn
<1>5. \/ at' = NextInsn(at)
      \/ at' = EndOfListing /\ max_internal_target' < fend'
  BY <1>1, <1>3, <1>4 DEF WalkInsn, EndsFunction
<1>6. ~EndsRun(insns[at]) => at' = NextInsn(at)
  BY DEF WalkInsn, EndsFunction
<1>7. \A a \in visited : Walked(a)' <=> Walked(a) \/ a = at
  BY WalkedGrows
<1>8. \A a \in visited : insns[a].size \in Nat \ {0} /\ insns[a].target \in Nat
  BY <1>1 DEF SweepInv, SweepTypeOK, Instruction
<1>9. JumpsNoted'
  <2> SUFFICES ASSUME NEW a \in visited, Walked(a) \/ a = at,
                      insns[a].kind \in {"branch", "jmp"},
                      fstart <= insns[a].target, insns[a].target < Limit(fstart)
               PROVE  insns[a].target <= max_internal_target'
    BY <1>1, <1>2, <1>7 DEF JumpsNoted
  <2>1. CASE Walked(a)
    <3>1. insns[a].target <= max_internal_target /\ max_internal_target \in Nat
      BY <2>1 DEF WalkInv, JumpsNoted, Stands
    <3>2. QED
      BY <1>4, <1>8, <3>1
  <2>2. CASE a = at
    <3>1. insns[at].target \in InternalTarget(insns[at])
      BY <2>2 DEF InternalTarget
    <3>2. QED
      BY <1>4, <2>2, <3>1
  <2>3. QED
    BY <2>1, <2>2
<1>10. FallsOn'
  <2> SUFFICES ASSUME NEW a \in visited, Walked(a) \/ a = at, ~EndsRun(insns[a]),
                      a + insns[a].size \in visited, a + insns[a].size < Limit(fstart)
               PROVE  a + insns[a].size < fend' \/ a + insns[a].size = at'
    BY <1>1, <1>2, <1>7 DEF FallsOn
  <2>1. CASE Walked(a)
    <3>1. a + insns[a].size < fend \/ a + insns[a].size = at
      BY <2>1 DEF WalkInv, FallsOn
    <3>2. a + insns[a].size \in Nat
      BY <1>2
    <3>3. QED
      BY <1>1, <1>3, <3>1, <3>2
  <2>2. CASE a = at
    <3> DEFINE b == at + insns[at].size
    <3>1. b \in visited /\ at < b /\ b \in Nat
      BY <1>3, <2>2
    <3>2. NextInsn(at) <= b /\ NextInsn(at) \in visited /\ at < NextInsn(at)
      BY <1>1, <1>3, <3>1, NextProperty
    <3>3. b <= NextInsn(at)
      BY <1>3, <3>2 DEF NoOverlap
    <3>4. NextInsn(at) \in Nat /\ at' = NextInsn(at)
      BY <1>2, <1>6, <2>2, <3>2
    <3>5. QED
      BY <2>2, <3>1, <3>2, <3>3, <3>4
  <2>3. QED
    BY <2>1, <2>2
<1>11. NextIsAt' /\ Stands'
  <2>1. \A b \in visited : fend' <= b => NextInsn(at) <= b
    <3> SUFFICES ASSUME NEW b \in visited, fend' <= b PROVE NextInsn(at) <= b
      OBVIOUS
    <3>1. at < b
      BY <1>1, <1>2, <1>3
    <3>2. QED
      BY <1>1, <1>3, <3>1, NextProperty
  <2>2. CASE at' = NextInsn(at)
    <3>1. NextIsAt'
      BY <1>2, <2>1, <2>2 DEF NextIsAt
    <3>2. at' \in visited \cup {EndOfListing}
      BY <1>1, <1>3, <2>2, NextProperty
    <3>3. ASSUME at' \in visited PROVE fstart <= at' /\ fend' <= at'
      <4>1. at < at' /\ at' \in Nat
        BY <1>1, <1>2, <1>3, <2>2, <3>3, NextProperty
      <4>2. fend' <= at'
        BY <1>1, <1>3, <3>3, <4>1 DEF NoOverlap
      <4>3. QED
        BY <1>3, <4>1, <4>2
    <3>4. QED
      BY <1>1, <1>2, <1>4, <3>1, <3>2, <3>3 DEF Stands, EndOfListing
  <2>3. CASE at' = EndOfListing /\ max_internal_target' < fend'
    BY <1>1, <1>2, <1>4, <2>3 DEF NextIsAt, Stands, EndOfListing
  <2>4. QED
    BY <1>5, <2>2, <2>3
<1>12. QED
  BY <1>9, <1>10, <1>11 DEF WalkInv

\* A walk that has ended has taken in everything its instructions run into.
LEMMA EndedWalkFlows ==
    ASSUME EngineInv, pass = "cfg", WalkInv, NoOverlap, ~Truncated, ~InWalk,
           NEW a \in visited, Walked(a),
           NEW b \in GoesOnAt(a) \cap Code, fstart <= b, b < Limit(fstart)
    PROVE  b < fend
<1>1. /\ SweepInv /\ phase = "swept" /\ fstart \in visited /\ fend \in Nat
      /\ visited \subseteq Nat
  BY VisitedNat DEF EngineInv, TableFollowsStarts
<1>2. b \in visited
  <2>1. b \in FlowsTo(a)
    BY DEF GoesOnAt, FlowsTo
  <2>2. QED
    BY <1>1, <2>1, InvGivesClosed DEF ListingClosed
<1>3. b \in Nat /\ b # EndOfListing /\ b < EndOfListing /\ Limit(fstart) \in Nat
  BY <1>1, <1>2, ImageAssumption, LimitProperty DEF Code, EndOfListing, EngineInv
<1>4. at \in Nat /\ (at \in visited => ~(at < Limit(fstart)))
  BY <1>1, ImageAssumption DEF InWalk, WalkInv, Stands, EndOfListing
<1>5. at # b /\ ~(at <= b)
  <2>1. CASE at \in visited
    BY <1>3, <1>4, <2>1
  <2>2. CASE at = EndOfListing
    BY <1>3, <1>4, <2>2
  <2>3. QED
    BY <2>1, <2>2 DEF WalkInv, Stands
<1>6. CASE HasRef(insns[a]) /\ insns[a].kind # "call" /\ b = insns[a].target
  <2>1. insns[a].kind \in {"branch", "jmp"}
    BY <1>6 DEF HasRef, RefKinds
  <2>2. b <= max_internal_target /\ max_internal_target \in Nat
    BY <1>6, <2>1 DEF WalkInv, JumpsNoted, Stands
  <2>3. fend <= b => max_internal_target < fend
    BY <1>2, <1>5 DEF WalkInv, NextIsAt
  <2>4. QED
    BY <1>1, <1>3, <2>2, <2>3
<1>7. CASE ~EndsRun(insns[a]) /\ b = a + insns[a].size
  BY <1>2, <1>5, <1>7 DEF WalkInv, FallsOn
<1>8. QED
  BY <1>6, <1>7 DEF GoesOnAt

\* What is known of the finished functions rests on variables the walk of
\* another function leaves alone.
LEMMA FlowOfKept ==
    ASSUME UNCHANGED <<insns, starts>>, NEW f, FlowOf(f), funcs'[f].size = funcs[f].size
    PROVE  FlowOf(f)'
<1>1. visited' = visited /\ Extent(f)' = Extent(f) /\ Limit(f)' = Limit(f)
  BY DEF visited, Extent, Limit, SegEnd, InSegment, First, Behind
<1>2. \A a : GoesOnAt(a)' = GoesOnAt(a)
  BY DEF GoesOnAt
<1>3. Code' = Code
  BY DEF Code
<1>4. QED
  BY <1>1, <1>2, <1>3 DEF FlowOf

LEMMA PushFunctionFlows ==
    ASSUME EngineInv, FlowInv, PushFunction
    PROVE  FlowInv'
<1>1. /\ pass = "cfg" /\ ~InWalk /\ UNCHANGED sweepVars /\ UNCHANGED <<insns, starts>>
      /\ SweepInv /\ SweepInv' /\ EngineInv' /\ visited' = visited
  BY SweepUnchanged, PushFunctionKeeps DEF PushFunction, sweepVars, visited, EngineInv
<1>2. (NoOverlap' <=> NoOverlap) /\ (Truncated' <=> Truncated)
  BY <1>1 DEF NoOverlap, Truncated, Full, sweepVars, visited
<1>3. SUFFICES ASSUME NoOverlap
               PROVE  /\ pass' = "cfg" => WalkInv'
                      /\ ~Truncated => \A f \in DOMAIN funcs' : FlowOf(f)'
  BY <1>2 DEF FlowInv
<1>4. WalkInv /\ (~Truncated => \A f \in DOMAIN funcs : FlowOf(f))
  BY <1>1, <1>3 DEF FlowInv
<1>5. fstart \in starts /\ starts \subseteq visited /\ visited \subseteq Nat /\ fend \in Nat
  BY <1>1, VisitedNat DEF EngineInv, TableFollowsStarts
<1>6. ASSUME pass' = "cfg" PROVE WalkInv'
  <2> DEFINE rest == {g \in starts : g > fstart}
  <2>1. rest # {} /\ BeginFunction(Min(rest))
    BY <1>6 DEF PushFunction
  <2>2. Min(rest) \in rest
    BY <1>5, <2>1, MinProperty
  <2>3. QED
    BY <1>1, <1>5, <2>1, <2>2, BeginWalks DEF BeginFunction
<1>7. ASSUME ~Truncated, NEW f \in DOMAIN funcs' PROVE FlowOf(f)'
  <2>1. CASE f = fstart
    <3>1. funcs'[f].size = fend - fstart
      BY <1>5, <2>1 DEF PushFunction
    <3>2. fstart \in Int /\ fend \in Int /\ fstart + (fend - fstart) - 1 = fend - 1
      BY <1>5
    <3>3. \A x : x \in Extent(f)' <=> x \in Int /\ fstart <= x /\ x < fend
      <4>1. Extent(f)' = fstart..(fend - 1)
        BY <2>1, <3>1, <3>2 DEF Extent
      <4>2. \A x \in Int : x <= fend - 1 <=> x < fend
        BY <3>2
      <4>3. \A x : x \in fstart..(fend - 1) <=> x \in Int /\ fstart <= x /\ x <= fend - 1
        BY <3>2
      <4>4. QED
        BY <4>1, <4>2, <4>3
    <3>4. Limit(f)' = Limit(fstart) /\ Code' = Code /\ \A a : GoesOnAt(a)' = GoesOnAt(a)
      BY <1>1, <2>1 DEF Limit, SegEnd, InSegment, First, Behind, Code, GoesOnAt
    <3>5. ASSUME NEW a \in visited, a \in Extent(f)', NEW b \in GoesOnAt(a) \cap Code,
                 f <= b, b < Limit(fstart)
          PROVE  b \in Extent(f)'
      <4>1. Walked(a)
        BY <3>3, <3>5 DEF Walked
      <4>2. b < fend
        BY <1>1, <1>3, <1>4, <1>7, <2>1, <3>5, <4>1, EndedWalkFlows
      <4>3. b \in Nat
        BY <3>5 DEF Code
      <4>4. QED
        BY <2>1, <3>3, <3>5, <4>2, <4>3
    <3>6. QED
      BY <1>1, <3>4, <3>5 DEF FlowOf
  <2>2. CASE f # fstart
    <3>1. f \in DOMAIN funcs /\ funcs'[f] = funcs[f]
      BY <1>7, <2>2 DEF PushFunction
    <3>2. QED
      BY <1>1, <1>4, <1>7, <3>1, FlowOfKept
  <2>3. QED
    BY <2>1, <2>2
<1>8. QED
  BY <1>6, <1>7

LEMMA BuildCfgFlows ==
    ASSUME EngineInv, BuildCfg
    PROVE  FlowInv'
<1>1. EngineInv' /\ SweepInv' /\ DOMAIN funcs' = {}
  BY BuildCfgKeeps DEF BuildCfg, EngineInv, TableFollowsStarts
<1>2. ASSUME pass' = "cfg" PROVE WalkInv'
  <2>1. starts' # {} /\ BeginFunction(Min(starts'))
    BY <1>2 DEF BuildCfg
  <2>2. starts' \subseteq visited' /\ visited' \subseteq Nat
    BY <1>1 DEF EngineInv, SweepInv, SweepTypeOK, Code
  <2>3. Min(starts') \in starts'
    BY <2>1, <2>2, MinProperty
  <2>4. QED
    BY <1>1, <2>1, <2>2, <2>3, BeginWalks DEF BeginFunction
<1>3. QED
  BY <1>1, <1>2 DEF FlowInv

LEMMA FlowStep == EngineInv /\ FlowInv /\ [EngineNext]_engineVars => FlowInv'
<1> SUFFICES ASSUME EngineInv, FlowInv, [EngineNext]_engineVars PROVE FlowInv'
  OBVIOUS
<1>1. CASE SweepNext /\ UNCHANGED cfgVars
  <2>1. phase # "swept"
    BY <1>1 DEF SweepNext, LinearDecode, NextSegment, StartDescent, PopTarget,
                RunDecode, RunEnds, SweepEnds
  <2>2. pass' = "waiting"
    BY <1>1, <2>1 DEF EngineInv, cfgVars
  <2>3. QED
    BY <2>2 DEF FlowInv
<1>2. CASE BuildCfg
  BY <1>2, BuildCfgFlows
<1>3. CASE PushFunction
  BY <1>3, PushFunctionFlows
<1>4. ASSUME UNCHANGED sweepVars, UNCHANGED starts, pass' = "waiting" => pass = "waiting",
             pass' = "cfg" => pass = "cfg",
             WalkInv /\ NoOverlap /\ pass' = "cfg" => WalkInv',
             pass = "waiting" => pass' = "waiting",
             NoOverlap => DOMAIN funcs' = DOMAIN funcs
                          /\ \A f \in DOMAIN funcs : funcs'[f].size = funcs[f].size
      PROVE  FlowInv'
  <2>1. (NoOverlap' <=> NoOverlap) /\ (Truncated' <=> Truncated) /\ UNCHANGED insns
    BY <1>4 DEF NoOverlap, Truncated, Full, sweepVars, visited
  <2>2. QED
    BY <1>4, <2>1, FlowOfKept DEF FlowInv
<1>5. CASE WalkInsn
  BY <1>4, <1>5, WalkInsnWalks DEF WalkInsn
<1>6. CASE BuildXrefs
  <2>1. ASSUME NoOverlap
        PROVE  DOMAIN funcs' = DOMAIN funcs
               /\ \A f \in DOMAIN funcs : funcs'[f].size = funcs[f].size
    <3>1. \A f \in DOMAIN funcs : "size" \in DOMAIN funcs[f]
      BY <2>1 DEF EngineInv, StopsAtStarts
    <3>2. QED
      BY <1>6, <3>1 DEF BuildXrefs
  <2>2. pass = "xrefs" /\ pass' = "analyzed" /\ UNCHANGED sweepVars /\ UNCHANGED starts
    BY <1>6 DEF BuildXrefs
  <2>3. QED
    BY <1>4, <2>1, <2>2
<1>7. CASE UNCHANGED engineVars
  <2>1. UNCHANGED sweepVars /\ UNCHANGED <<pass, starts, funcs, insns, fstart, at, fend,
                                           max_internal_target>>
    BY <1>7 DEF engineVars, cfgVars, walkVars, sweepVars
  <2>2. WalkInv => WalkInv'
    BY <2>1 DEF WalkInv, JumpsNoted, FallsOn, NextIsAt, Stands, Walked, visited, Limit, SegEnd,
                InSegment, First, Behind
  <2>3. QED
    BY <1>4, <2>1, <2>2
<1>8. QED
  BY <1>1, <1>2, <1>3, <1>5, <1>6, <1>7 DEF EngineNext

\* No function ends before code it runs into, whatever the order in which
\* branches and their targets stand: the highest target noted on the way is
\* enough to end the walk of build_cfg in the right place.
THEOREM FunctionsKeepTheirCode == EngineSpec => []FlowStaysInside
<1>1. EngineInit => FlowInv
  BY DEF EngineInit, CfgInit, FlowInv
<1>2. FlowInv => FlowStaysInside
  BY DEF FlowInv, FlowOf, FlowStaysInside, Built
<1>3. QED
  BY <1>1, <1>2, FlowStep, EngineInvariant, PTL DEF EngineSpec

-----------------------------------------------------------------------------
(***************************************************************************)
(* The calls.  build_cfg counts the call instructions it walks; the count  *)
(* of build_xrefs is over the edges whose function a binary search finds.  *)
(***************************************************************************)
CallInsns == {a \in visited : insns[a].kind = "call"}

CallsIn(f) == {a \in CallInsns : a \in Extent(f)}

CallsWalked == {a \in CallInsns : Walked(a)}

\* An entry of e->funcs whose count is that of its extent.
CountedEntry(f) ==
    funcs[f] = [size |-> funcs[f].size, calls |-> Cardinality(CallsIn(f)),
                blocks |-> funcs[f].blocks]

CountInv ==
    /\ funcs = [f \in DOMAIN funcs |-> funcs[f]]
    /\ NoOverlap /\ pass \in {"cfg", "xrefs"} => \A f \in DOMAIN funcs : CountedEntry(f)
    /\ NoOverlap /\ pass = "cfg" => call_count = Cardinality(CallsWalked)

LEMMA CallsAreFinite ==
    ASSUME SweepInv, NEW S \in SUBSET CallInsns
    PROVE  IsFiniteSet(S)
<1>1. S \subseteq 0..ImageSize - 1
  BY VisitedNat DEF CallInsns, Code
<1>2. IsFiniteSet(0..ImageSize - 1)
  BY ImageAssumption, FS_Interval
<1>3. QED
  BY <1>1, <1>2, FS_Subset

LEMMA WalkInsnCounts ==
    ASSUME EngineInv, FlowInv, CountInv, WalkInsn, NoOverlap
    PROVE  call_count' = Cardinality(CallsWalked)'
<1>1. pass = "cfg" /\ WalkInv /\ SweepInv /\ call_count = Cardinality(CallsWalked)
  BY DEF WalkInsn, FlowInv, CountInv, EngineInv
<1>2. /\ at \in visited /\ ~Walked(at) /\ insns' = insns /\ visited' = visited
      /\ \A a \in visited : Walked(a)' <=> Walked(a) \/ a = at
  BY <1>1, WalkedGrows
<1>3. CallInsns' = CallInsns /\ IsFiniteSet(CallsWalked)
  BY <1>1, <1>2, CallsAreFinite DEF CallInsns, CallsWalked
<1>4. CASE insns[at].kind = "call"
  <2>1. CallsWalked' = CallsWalked \cup {at} /\ at \notin CallsWalked
    BY <1>2, <1>3, <1>4 DEF CallsWalked, CallInsns
  <2>2. Cardinality(CallsWalked') = Cardinality(CallsWalked) + 1
    BY <1>3, <2>1, FS_AddElement
  <2>3. QED
    BY <1>1, <1>4, <2>2 DEF WalkInsn
<1>5. CASE insns[at].kind # "call"
  <2>1. CallsWalked' = CallsWalked
    BY <1>2, <1>3, <1>5 DEF CallsWalked, CallInsns
  <2>2. QED
    BY <1>1, <1>5, <2>1 DEF WalkInsn
<1>6. QED
  BY <1>4, <1>5

LEMMA BeginCounts ==
    ASSUME SweepInv', NEW f \in Nat, fstart' = f, fend' = f, call_count' = 0
    PROVE  call_count' = Cardinality(CallsWalked)'
<1>1. \A a \in visited' : ~Walked(a)'
  BY DEF SweepInv, SweepTypeOK, Code, Walked
<1>2. CallsWalked' = {}
  BY <1>1 DEF CallsWalked, CallInsns
<1>3. QED
  BY <1>2, FS_EmptySet

LEMMA PushFunctionCounts ==
    ASSUME EngineInv, CountInv, PushFunction
    PROVE  CountInv'
<1>1. /\ pass = "cfg" /\ UNCHANGED sweepVars /\ UNCHANGED <<insns, starts>>
      /\ SweepInv /\ SweepInv' /\ visited' = visited /\ (NoOverlap' <=> NoOverlap)
  BY SweepUnchanged DEF PushFunction, sweepVars, EngineInv
<1>2. fstart \in starts /\ starts \subseteq visited /\ visited \subseteq Nat /\ fend \in Nat
      /\ fstart \notin DOMAIN funcs
  BY <1>1, VisitedNat DEF EngineInv, TableFollowsStarts
<1>3. CallInsns' = CallInsns
  BY <1>1 DEF CallInsns
<1> DEFINE new == [size |-> fend - fstart, calls |-> call_count,
                   blocks |-> Cardinality(block_leaders)]
<1>4. funcs' = [g \in DOMAIN funcs \cup {fstart} |-> IF g = fstart THEN new ELSE funcs[g]]
  BY DEF PushFunction
<1>5. new.size = fend - fstart /\ new = [size |-> new.size, calls |-> call_count,
                                         blocks |-> new.blocks]
  OBVIOUS
<1> HIDE DEF new
<1>6. /\ funcs'[fstart] = new /\ DOMAIN funcs' = DOMAIN funcs \cup {fstart}
      /\ \A g \in DOMAIN funcs : funcs'[g] = funcs[g]
  BY <1>2, <1>4
<1>7. funcs' = [g \in DOMAIN funcs' |-> funcs'[g]]
  BY <1>4
<1>8. ASSUME NoOverlap, NEW f \in DOMAIN funcs' PROVE CountedEntry(f)'
  <2>1. CASE f = fstart
    <3>1. CallsIn(f)' = CallsWalked
      <4>1. fstart \in Int /\ fend \in Int /\ fstart + (fend - fstart) - 1 = fend - 1
        BY <1>2
      <4>2. Extent(f)' = fstart..(fend - 1)
        BY <1>5, <1>6, <2>1, <4>1 DEF Extent
      <4>3. \A x \in CallInsns : x \in fstart..(fend - 1) <=> Walked(x)
        BY <1>2, <4>1 DEF CallInsns, Walked
      <4>4. QED
        BY <1>3, <4>2, <4>3 DEF CallsIn, CallsWalked
    <3>2. call_count = Cardinality(CallsWalked)
      BY <1>1, <1>8 DEF CountInv
    <3>3. QED
      BY <1>5, <1>6, <2>1, <3>1, <3>2 DEF CountedEntry
  <2>2. CASE f # fstart
    <3>1. f \in DOMAIN funcs /\ funcs'[f] = funcs[f] /\ CountedEntry(f)
      BY <1>1, <1>6, <1>8, <2>2 DEF CountInv
    <3>2. CallsIn(f)' = CallsIn(f)
      BY <1>3, <3>1 DEF CallsIn, Extent
    <3>3. QED
      BY <3>1, <3>2 DEF CountedEntry
  <2>3. QED
    BY <2>1, <2>2
<1>9. ASSUME pass' = "cfg" PROVE call_count' = Cardinality(CallsWalked)'
  <2> DEFINE rest == {g \in starts : g > fstart}
  <2>1. rest # {} /\ BeginFunction(Min(rest))
    BY <1>9 DEF PushFunction
  <2>2. Min(rest) \in rest
    BY <1>2, <2>1, MinProperty
  <2>3. QED
    BY <1>1, <1>2, <2>1, <2>2, BeginCounts DEF BeginFunction
<1>10. QED
  BY <1>1, <1>7, <1>8, <1>9 DEF CountInv

LEMMA BuildCfgCounts ==
    ASSUME EngineInv, CountInv, BuildCfg
    PROVE  CountInv'
<1>1. EngineInv' /\ SweepInv' /\ DOMAIN funcs' = {} /\ funcs' = funcs
  BY BuildCfgKeeps DEF BuildCfg, EngineInv, TableFollowsStarts
<1>2. ASSUME pass' = "cfg" PROVE call_count' = Cardinality(CallsWalked)'
  <2>1. starts' # {} /\ BeginFunction(Min(starts'))
    BY <1>2 DEF BuildCfg
  <2>2. starts' \subseteq Nat
    BY <1>1 DEF EngineInv, SweepInv, SweepTypeOK, Code
  <2>3. Min(starts') \in starts'
    BY <2>1, <2>2, MinProperty
  <2>4. QED
    BY <1>1, <2>1, <2>2, <2>3, BeginCounts DEF BeginFunction
<1>3. funcs' = [f \in DOMAIN funcs' |-> funcs'[f]]
  BY <1>1 DEF CountInv
<1>4. QED
  BY <1>1, <1>2, <1>3 DEF CountInv

LEMMA CountStep == EngineInv /\ FlowInv /\ CountInv /\ [EngineNext]_engineVars => CountInv'
<1> SUFFICES ASSUME EngineInv, FlowInv, CountInv, [EngineNext]_engineVars PROVE CountInv'
  OBVIOUS
<1>1. SweepInv
  BY DEF EngineInv
<1>2. CASE SweepNext /\ UNCHANGED cfgVars
  <2>1. phase # "swept"
    BY <1>2 DEF SweepNext, LinearDecode, NextSegment, StartDescent, PopTarget,
           RunDecode, RunEnds, SweepEnds
  <2>2. pass = "waiting" /\ pass' = pass /\ funcs' = funcs
    BY <1>2, <2>1 DEF EngineInv, cfgVars
  <2>3. QED
    BY <2>2 DEF CountInv
<1>3. CASE BuildCfg
  BY <1>3, BuildCfgCounts
<1>4. CASE WalkInsn
  <2>1. /\ pass = "cfg" /\ UNCHANGED <<pass, starts, funcs, insns>> /\ visited' = visited
        /\ UNCHANGED sweepVars
    BY <1>4 DEF WalkInsn, sweepVars, visited
  <2>2. (NoOverlap' <=> NoOverlap) /\ \A f : CallsIn(f)' = CallsIn(f)
    BY <2>1 DEF NoOverlap, CallsIn, CallInsns, Extent
  <2>3. NoOverlap => call_count' = Cardinality(CallsWalked)'
    BY <1>4, WalkInsnCounts
  <2>4. QED
    BY <2>1, <2>2, <2>3 DEF CountInv, CountedEntry
<1>5. CASE PushFunction
  BY <1>5, PushFunctionCounts
<1>6. CASE BuildXrefs
  <2>1. pass' = "analyzed" /\ funcs' = [f \in DOMAIN funcs' |-> funcs'[f]]
    BY <1>6 DEF BuildXrefs
  <2>2. QED
    BY <2>1 DEF CountInv
<1>7. CASE UNCHANGED engineVars
  <2>1. UNCHANGED <<pass, funcs, insns, fstart, fend, call_count>>
    BY <1>7 DEF engineVars, cfgVars, walkVars, sweepVars
  <2>2. QED
    BY <2>1 DEF CountInv, NoOverlap, CountedEntry, CallsIn, CallsWalked, CallInsns, Extent,
                Walked, visited
<1>8. QED
  BY <1>2, <1>3, <1>4, <1>5, <1>6, <1>7 DEF EngineNext

\* Extents end before later starts, so the search finds the one extent an
\* address lies in.
LEMMA SearchFindsExtent ==
    ASSUME EngineInv, NoOverlap, Built, NEW f \in DOMAIN funcs, NEW a \in visited
    PROVE  f \in FuncOf(a) <=> a \in Extent(f)
<1>1. StopsAtStarts /\ DOMAIN funcs = starts /\ starts \subseteq Nat /\ a \in Nat
  BY VisitedNat DEF EngineInv, TableFollowsStarts
<1>2. ASSUME a \in Extent(f), NEW g \in DOMAIN funcs, g <= a PROVE g <= f
  <2>1. f \in Nat /\ g \in Nat /\ funcs[f].size \in Int
    BY <1>1, <1>2 DEF StopsAtStarts
  <2>2. a \in f..(f + funcs[f].size - 1)
    BY <1>2 DEF Extent
  <2>3. f < g => f + funcs[f].size <= g
    BY <1>1 DEF StopsAtStarts
  <2>4. QED
    BY <1>1, <1>2, <2>1, <2>2, <2>3
<1>3. QED
  BY <1>2 DEF FuncOf

\* build_xrefs counts what build_cfg counted.
LEMMA XrefsAgree ==
    ASSUME EngineInv, CountInv, BuildXrefs, NoOverlap, NoNullCall
    PROVE  funcs' = funcs
<1>1. pass = "xrefs" /\ Built
  BY DEF BuildXrefs, Built
<1>2. CallEdges = CallInsns /\ CallInsns \subseteq visited
  BY DEF CallEdges, CallInsns, NoNullCall
<1>3. ASSUME NEW f \in DOMAIN funcs
      PROVE  [funcs[f] EXCEPT !.calls = Cardinality({a \in CallEdges : f \in FuncOf(a)})] = funcs[f]
  <2>1. {a \in CallEdges : f \in FuncOf(a)} = CallsIn(f)
    BY <1>1, <1>2, SearchFindsExtent DEF CallsIn
  <2> DEFINE n == Cardinality(CallsIn(f))
  <2>2. funcs[f] = [size |-> funcs[f].size, calls |-> n, blocks |-> funcs[f].blocks]
    BY <1>1 DEF CountInv, CountedEntry
  <2> HIDE DEF n
  <2>3. \A s, b : [[size |-> s, calls |-> n, blocks |-> b] EXCEPT !.calls = n]
                    = [size |-> s, calls |-> n, blocks |-> b]
    OBVIOUS
  <2>4. [funcs[f] EXCEPT !.calls = n] = funcs[f]
    BY <2>2, <2>3
  <2>5. QED
    BY <2>1, <2>4 DEF n
<1>4. funcs' = [f \in DOMAIN funcs |-> funcs[f]]
  BY <1>3 DEF BuildXrefs
<1>5. QED
  BY <1>4 DEF CountInv

\* The walk's count of calls and that of the final edges are the same number
\* where no instructions overlap and no call leads to address 0: the comment
\* of ds_engine_build_xrefs.
THEOREM CallCountsHold == EngineSpec => CallCountsAgree
<1>1. EngineInit => FlowInv /\ CountInv
  BY DEF EngineInit, CfgInit, FlowInv, CountInv
<1>2. EngineInv /\ CountInv /\ [EngineNext]_engineVars
        => [BuildXrefs /\ NoOverlap /\ NoNullCall => funcs' = funcs]_engineVars
  BY XrefsAgree
<1>3. QED
  BY <1>1, <1>2, FlowStep, CountStep, EngineInvariant, PTL DEF EngineSpec, CallCountsAgree

-----------------------------------------------------------------------------
(* The names (Symbols).                                                     *)

\* The passes walk a listing whose functions are finitely many addresses.
ListingInv ==
    /\ listing \in Seq([op : STRING, to : Nat, text : STRING])
    /\ Funcs \subseteq Nat \ {0} /\ Funcs # {} /\ IsFiniteSet(Funcs)
    /\ cursor \in [pass : {"own", "reported", "accessors", "thunks", "done"}, at : Funcs]

\* The first pass has named the functions up to the cursor.
NamesDomain ==
    /\ cursor.pass = "own" =>
          /\ DOMAIN name = {f \in Funcs : f < cursor.at}
          /\ \A f \in DOMAIN name : name[f] = OwnName(f)
    /\ cursor.pass # "own" => DOMAIN name = Funcs
    /\ name = [f \in DOMAIN name |-> name[f]]

\* A name that was better than a placeholder is kept.
OwnKept == \A f \in DOMAIN name : ~is_placeholder(OwnName(f)) => name[f] = OwnName(f)

\* Two functions share a name only when both were recovered with it.
NoNameTwice ==
    \A f, g \in DOMAIN name :
        f # g /\ name[f] = name[g] => name[f] = OwnName(f) /\ name[g] = OwnName(g)

\* Until the shapes are looked at, a new name is a reported one.
ReportsFirst ==
    cursor.pass = "reported" => \A f \in DOMAIN name : name[f] = OwnName(f) \/ name[f][1] = "word"

\* The reporters of h have the names they reported, or may not have them.
Heard(h) ==
    \A f \in Reporters(h) : \A t \in Reported(h)[f] :
        \/ ~is_placeholder(OwnName(f))
        \/ name[f][1] = "word"
        \/ name_taken(<<"word", t>>, f, name)

ReportsHeard ==
    /\ cursor.pass = "reported" =>
          \A h \in Funcs : h < cursor.at /\ Accepted(h) => Heard(h)
    /\ cursor.pass \in {"accessors", "thunks", "done"} =>
          \A h \in Funcs : Accepted(h) => Heard(h)

NamesInv == ListingInv /\ NamesDomain /\ OwnKept /\ NoNameTwice /\ ReportsFirst /\ ReportsHeard

-----------------------------------------------------------------------------
\* A non-empty set of addresses has the least one the loops begin with.
LEMMA LeastAddress ==
    ASSUME NEW S \in SUBSET Nat, S # {}
    PROVE  Min(S) \in S /\ \A x \in S : Min(S) <= x
<1> DEFINE R == OpToRel(<, Nat)
<1>1. \A x, y \in Nat : x < y => <<x, y>> \in R
  BY DEF OpToRel
<1>2. IsWellFoundedOn(R, Nat)
  BY NatLessThanWellFounded
<1> HIDE DEF R
<1>3. PICK n \in S : \A m \in S : <<m, n>> \notin R
  BY <1>2, WFMin
<1>4. \A m \in S : n <= m
  <2> SUFFICES ASSUME NEW m \in S PROVE n <= m
    OBVIOUS
  <2>1. m \in Nat /\ n \in Nat /\ ~(m < n)
    BY <1>1, <1>3
  <2>2. QED
    BY <2>1
<1>5. QED
  BY <1>4 DEF Min

\* What a step of a pass leaves alone.
LEMMA SameListing ==
    ASSUME UNCHANGED <<listing, size, symbols, entry>>
    PROVE  /\ Funcs' = Funcs
           /\ \A f : OwnName(f)' = OwnName(f)
           /\ \A h : Reported(h)' = Reported(h) /\ Reporters(h)' = Reporters(h)
           /\ (\A h : Accepted(h)' <=> Accepted(h))
<1>1. Funcs' = Funcs
  BY DEF Funcs
<1>2. \A f : OwnName(f)' = OwnName(f)
  BY DEF OwnName, import_thunk_name, Is
<1>3. \A h : Reported(h)' = Reported(h)
  BY <1>1 DEF Reported, func_containing, ConsumerOf, Near, Decides
<1>4. \A h : Reporters(h)' = Reporters(h)
  BY <1>3 DEF Reporters
<1>5. QED
  BY <1>1, <1>2, <1>3, <1>4 DEF Accepted

\* The cursor goes to the next function, or to the first one of the next pass.
LEMMA AdvanceMoves ==
    ASSUME ListingInv, Advance, cursor.pass # "done"
    PROVE  \/ /\ cursor'.pass = cursor.pass /\ cursor'.at \in Funcs /\ cursor.at < cursor'.at
              /\ \A f \in Funcs : f < cursor'.at <=> f <= cursor.at
           \/ /\ \A f \in Funcs : f <= cursor.at
              /\ cursor'.at \in Funcs /\ \A f \in Funcs : ~(f < cursor'.at)
              /\ cursor.pass = "own" => cursor'.pass = "reported"
              /\ cursor.pass = "reported" => cursor'.pass = "accessors"
              /\ cursor.pass = "accessors" => cursor'.pass = "thunks"
              /\ cursor.pass = "thunks" => cursor'.pass = "done"
<1> DEFINE later == {f \in Funcs : f > cursor.at}
<1>1. Funcs \subseteq Nat /\ Funcs # {} /\ cursor.at \in Nat /\ cursor.at \in Funcs
  BY DEF ListingInv
<1>2. CASE later # {}
  <2>1. cursor' = [cursor EXCEPT !.at = Min(later)]
    BY <1>2 DEF Advance
  <2>2. PICK m \in later : m = Min(later) /\ \A f \in later : m <= f
    BY <1>1, <1>2, LeastAddress
  <2>3. cursor'.pass = cursor.pass /\ cursor'.at = m
    BY <2>1, <2>2 DEF ListingInv
  <2>4. m \in Funcs /\ m \in Nat /\ cursor.at < m
    BY <1>1
  <2>5. ASSUME NEW f \in Funcs PROVE f < m <=> f <= cursor.at
    <3>1. f \in Nat /\ (f > cursor.at => m <= f)
      BY <1>1, <2>2
    <3>2. QED
      BY <1>1, <2>4, <3>1
  <2>6. QED
    BY <2>3, <2>4, <2>5
<1>3. CASE later = {}
  <2>1. Min(Funcs) \in Funcs /\ \A f \in Funcs : Min(Funcs) <= f
    BY <1>1, LeastAddress
  <2>2. \A f \in Funcs : f <= cursor.at
    BY <1>1, <1>3
  <2>3. cursor'.at = Min(Funcs)
        /\ cursor'.pass = Passes[(CHOOSE i \in 1..Len(Passes) : Passes[i] = cursor.pass) + 1]
    BY <1>3 DEF Advance
  <2>4. \A f \in Funcs : ~(f < Min(Funcs))
    <3>1. PICK m \in Funcs : m = Min(Funcs) /\ \A f \in Funcs : m <= f
      BY <2>1
    <3>2. \A f \in Funcs : f \in Nat /\ m \in Nat /\ m <= f
      BY <1>1, <3>1
    <3>3. \A f \in Funcs : ~(f < m)
      BY <3>2
    <3>4. QED
      BY <3>1, <3>3
  <2>5. Len(Passes) = 5 /\ Passes[1] = "own" /\ Passes[2] = "reported" /\ Passes[3] = "accessors"
        /\ Passes[4] = "thunks" /\ Passes[5] = "done"
    BY DEF Passes
  <2>6. ASSUME NEW k \in 1..4, Passes[k] = cursor.pass
        PROVE  cursor'.pass = Passes[k + 1]
    <3>1. \A i \in 1..Len(Passes) : Passes[i] = cursor.pass => i = k
      BY <2>5, <2>6
    <3>2. (CHOOSE i \in 1..Len(Passes) : Passes[i] = cursor.pass) = k
      BY <2>5, <2>6, <3>1
    <3>3. QED
      BY <2>3, <3>2
  <2>7. /\ cursor.pass = "own" => cursor'.pass = "reported"
        /\ cursor.pass = "reported" => cursor'.pass = "accessors"
        /\ cursor.pass = "accessors" => cursor'.pass = "thunks"
        /\ cursor.pass = "thunks" => cursor'.pass = "done"
    BY <2>5, <2>6
  <2>8. QED
    BY <2>1, <2>2, <2>3, <2>4, <2>7
<1>4. QED
  BY <1>2, <1>3

\* Functions that may take the names w, all different, and do so.
LEMMA TakenNames ==
    ASSUME NamesInv, cursor.pass # "own", UNCHANGED <<listing, size, symbols, entry>>,
           NEW U \in SUBSET Funcs, NEW w,
           \A f \in U : may_take(f, w[f]),
           \A f, g \in U : w[f] = w[g] => f = g,
           name' = [f \in DOMAIN name |-> IF f \in U THEN w[f] ELSE name[f]]
    PROVE  OwnKept' /\ NoNameTwice' /\ \A h : Heard(h) => Heard(h)'
<1>1. /\ DOMAIN name' = DOMAIN name /\ DOMAIN name = Funcs
      /\ \A f \in Funcs : name'[f] = IF f \in U THEN w[f] ELSE name[f]
  BY DEF NamesInv, NamesDomain
<1>2. \A f : OwnName(f)' = OwnName(f)
  BY SameListing
<1>3. \A f \in U : is_placeholder(name[f]) /\ \A g \in Funcs \ {f} : name[g] # w[f]
  BY <1>1 DEF may_take, name_taken
<1>4. OwnKept'
  <2>1. \A f \in Funcs : f \in U => is_placeholder(OwnName(f))
    BY <1>1, <1>3 DEF NamesInv, OwnKept
  <2>2. QED
    BY <1>1, <1>2, <2>1 DEF NamesInv, OwnKept, is_placeholder
<1>5. NoNameTwice'
  <2> SUFFICES ASSUME NEW f \in Funcs, NEW g \in Funcs, f # g, name'[f] = name'[g]
               PROVE  name'[f] = OwnName(f) /\ name'[g] = OwnName(g)
    BY <1>1, <1>2 DEF NoNameTwice
  <2>1. f \notin U /\ g \notin U
    BY <1>1, <1>3
  <2>2. QED
    BY <1>1, <2>1 DEF NamesInv, NoNameTwice
<1>6. ASSUME NEW h, Heard(h) PROVE Heard(h)'
  <2>1. Reporters(h)' = Reporters(h) /\ Reported(h)' = Reported(h)
    BY SameListing
  <2>2. Reporters(h) \subseteq Funcs
    BY DEF Reporters, Reported
  <2> SUFFICES ASSUME NEW f \in Reporters(h), NEW t \in Reported(h)[f],
                      is_placeholder(OwnName(f))
               PROVE  name'[f][1] = "word" \/ name_taken(<<"word", t>>, f, name')
    BY <1>2, <2>1 DEF Heard, is_placeholder
  <2>3. CASE name[f][1] = "word"
    <3>1. f \notin U
      BY <1>3, <2>3 DEF is_placeholder
    <3>2. QED
      BY <1>1, <2>2, <2>3, <3>1
  <2>4. CASE name_taken(<<"word", t>>, f, name)
    <3>1. PICK g \in Funcs \ {f} : name[g] = <<"word", t>>
      BY <1>1, <2>4 DEF name_taken
    <3>2. name[g][1] = "word" /\ g \notin U
      BY <1>3, <3>1 DEF is_placeholder
    <3>3. QED
      BY <1>1, <3>1, <3>2 DEF name_taken
  <2>5. QED
    BY <1>6, <2>3, <2>4 DEF Heard
<1>7. QED
  BY <1>4, <1>5, <1>6

\* The functions a step renames keep the domain, and the cursor its type.
LEMMA StepMoves ==
    ASSUME NamesInv, Advance, cursor.pass # "done",
           UNCHANGED <<listing, size, symbols, entry>>
    PROVE  ListingInv'
<1>1. /\ cursor'.at \in Funcs
      /\ cursor'.pass \in {"own", "reported", "accessors", "thunks", "done"}
  BY AdvanceMoves DEF NamesInv, ListingInv
<1>2. cursor' \in [pass : {"own", "reported", "accessors", "thunks", "done"}, at : Funcs]
  <2>1. \A p \in {"own", "reported", "accessors", "thunks", "done"}, a \in Funcs :
            [cursor EXCEPT !.at = a] \in [pass : {"own", "reported", "accessors", "thunks", "done"}, at : Funcs]
            /\ [pass |-> p, at |-> a].pass = p
    BY DEF NamesInv, ListingInv
  <2>2. \/ cursor' = [cursor EXCEPT !.at = cursor'.at]
        \/ cursor' = [pass |-> cursor'.pass, at |-> cursor'.at]
    BY DEF Advance, NamesInv, ListingInv
  <2>3. QED
    BY <1>1, <2>1, <2>2
<1>3. QED
  BY <1>2, SameListing DEF NamesInv, ListingInv

\* The literals a reporter hands over are one literal.
LEMMA OneWord ==
    ASSUME ListingInv, NEW h, NEW f \in Reporters(h), NEW t \in Reported(h)[f]
    PROVE  Word(f, h) = <<"word", t>>
<1> DEFINE T == Reported(h)[f]
<1>1. Cardinality(T) = 1
  BY DEF Reporters
<1>2. IsFiniteSet(T)
  <2> DEFINE texts == {listing[a].text : a \in DOMAIN listing}
  <2>1. IsFiniteSet(texts)
    <3>1. DOMAIN listing = 1..Len(listing) /\ Len(listing) \in Nat
      BY DEF ListingInv
    <3>2. IsFiniteSet(DOMAIN listing)
      BY <3>1, FS_Interval
    <3> DEFINE text == [a \in DOMAIN listing |-> listing[a].text]
    <3>3. text \in Surjection(DOMAIN listing, texts)
      BY DEF Surjection
    <3> HIDE DEF text
    <3>4. QED
      BY <3>2, <3>3, FS_Surjection
  <2>2. T \subseteq texts
    BY DEF Reporters, Reported
  <2>3. QED
    BY <2>1, <2>2, FS_Subset
<1>3. \E x : T = {x}
  BY <1>1, <1>2, FS_Singleton
<1>4. (CHOOSE x \in T : TRUE) = t
  BY <1>3
<1>5. QED
  BY <1>4 DEF Word

-----------------------------------------------------------------------------
LEMMA OwnNameStep == NamesInv /\ GiveOwnName => NamesInv'
<1> SUFFICES ASSUME NamesInv, GiveOwnName PROVE NamesInv'
  OBVIOUS
<1>1. cursor.pass = "own" /\ UNCHANGED <<listing, size, symbols, entry>> /\ Advance
      /\ ListingInv /\ NamesDomain
  BY DEF GiveOwnName, InPass, NamesInv
<1>2. ListingInv' /\ Funcs' = Funcs /\ \A f : OwnName(f)' = OwnName(f)
  BY <1>1, StepMoves, SameListing
<1>3. /\ name' = [f \in DOMAIN name \cup {cursor.at} |-> IF f = cursor.at THEN OwnName(f) ELSE name[f]]
      /\ DOMAIN name' = {f \in Funcs : f <= cursor.at}
  <2>1. cursor.at \in Funcs /\ Funcs \subseteq Nat
    BY <1>1 DEF ListingInv
  <2>2. DOMAIN name \cup {cursor.at} = {f \in Funcs : f <= cursor.at}
    <3>1. cursor.at \in Nat /\ \A f \in Funcs : f \in Nat
      BY <2>1
    <3>2. \A f \in Funcs : f < cursor.at \/ f = cursor.at <=> f <= cursor.at
      BY <3>1
    <3>3. QED
      BY <1>1, <2>1, <3>2 DEF NamesDomain
  <2>3. QED
    BY <2>2 DEF GiveOwnName
<1>4. \A f \in DOMAIN name' : name'[f] = OwnName(f)
  BY <1>1, <1>3 DEF NamesDomain
<1>5. name' = [f \in DOMAIN name' |-> name'[f]]
  BY <1>3
<1>6. \/ cursor'.pass = "own" /\ DOMAIN name' = {f \in Funcs : f < cursor'.at}
      \/ /\ cursor'.pass = "reported" /\ DOMAIN name' = Funcs
         /\ \A f \in Funcs : ~(f < cursor'.at)
  BY <1>1, <1>3, AdvanceMoves
<1>7. NamesDomain'
  BY <1>2, <1>4, <1>5, <1>6 DEF NamesDomain
<1>8. OwnKept' /\ NoNameTwice' /\ ReportsFirst'
  BY <1>2, <1>4 DEF OwnKept, NoNameTwice, ReportsFirst
<1>9. ReportsHeard'
  BY <1>2, <1>6 DEF ReportsHeard
<1>10. QED
  BY <1>2, <1>7, <1>8, <1>9 DEF NamesInv

LEMMA ReportedNamesStep == NamesInv /\ GiveReportedNames => NamesInv'
<1> SUFFICES ASSUME NamesInv, GiveReportedNames PROVE NamesInv'
  OBVIOUS
<1>0. PICK h : h = cursor.at
  OBVIOUS
<1> DEFINE U == IF Accepted(h) THEN Named(h) ELSE {}
           w == [f \in Named(h) |-> Word(f, h)]
<1>1. cursor.pass = "reported" /\ UNCHANGED <<listing, size, symbols, entry>> /\ Advance
      /\ ListingInv /\ NamesDomain /\ ReportsFirst /\ ReportsHeard
  BY DEF GiveReportedNames, InPass, NamesInv
<1>2. ListingInv' /\ Funcs' = Funcs /\ \A f : OwnName(f)' = OwnName(f)
  BY <1>1, StepMoves, SameListing
<1>3. \A k : (Accepted(k)' <=> Accepted(k))
  BY <1>1, SameListing
<1>4. DOMAIN name = Funcs /\ name = [f \in DOMAIN name |-> name[f]] /\ h \in Funcs
      /\ Funcs \subseteq Nat
  BY <1>0, <1>1 DEF NamesDomain, ListingInv
<1>5. Reporters(h) \subseteq Funcs
  BY DEF Reporters, Reported
<1>6. /\ U \in SUBSET Funcs
      /\ \A f \in U : may_take(f, w[f]) /\ w[f] = Word(f, h) /\ f \in Reporters(h)
      /\ \A f, g \in U : w[f] = w[g] => f = g
  <2>1. \A f \in Named(h) : f \in Reporters(h) /\ may_take(f, Word(f, h)) /\ w[f] = Word(f, h)
    BY DEF Named
  <2>2. \A f, g \in Named(h) : Word(f, h) = Word(g, h) => ~(f < g) /\ ~(g < f)
    BY DEF Named
  <2>3. \A f, g \in Named(h) : f \in Nat /\ g \in Nat
    BY <1>4, <1>5, <2>1
  <2>4. \A f, g \in Named(h) : Word(f, h) = Word(g, h) => f = g
    BY <2>2, <2>3
  <2>5. QED
    BY <1>5, <2>1, <2>4
<1>7. name' = [f \in DOMAIN name |-> IF f \in U THEN w[f] ELSE name[f]]
  <2>1. CASE Accepted(h)
    BY <1>0, <1>6, <2>1 DEF GiveReportedNames
  <2>2. CASE ~Accepted(h)
    BY <1>0, <1>4, <2>2 DEF GiveReportedNames
  <2>3. QED
    BY <2>1, <2>2
<1> HIDE DEF U, w
<1>8. OwnKept' /\ NoNameTwice' /\ \A k : Heard(k) => Heard(k)'
  BY <1>1, <1>6, <1>7, TakenNames
<1>9. DOMAIN name' = Funcs /\ name' = [f \in DOMAIN name' |-> name'[f]]
      /\ \A f \in Funcs : name'[f] = IF f \in U THEN w[f] ELSE name[f]
  BY <1>4, <1>7
<1>10. \A f \in U : w[f][1] = "word"
  BY <1>6 DEF Word
<1>11. ReportsFirst'
  BY <1>1, <1>2, <1>4, <1>9, <1>10 DEF ReportsFirst
<1>12. cursor'.pass \in {"reported", "accessors"}
  BY <1>1, AdvanceMoves
<1>13. NamesDomain'
  BY <1>2, <1>9, <1>12 DEF NamesDomain
<1>14. ASSUME Accepted(h) PROVE Heard(h)'
  <2> SUFFICES ASSUME NEW f \in Reporters(h), NEW t \in Reported(h)[f],
                      is_placeholder(OwnName(f)), name'[f][1] # "word"
               PROVE  name_taken(<<"word", t>>, f, name')
    <3>1. Reporters(h)' = Reporters(h) /\ Reported(h)' = Reported(h)
      BY <1>1, SameListing
    <3>2. QED
      BY <1>2, <3>1 DEF Heard, is_placeholder
  <2>1. f \in Funcs /\ Word(f, h) = <<"word", t>> /\ U = Named(h)
    BY <1>1, <1>5, <1>14, OneWord DEF U
  <2>2. f \notin U /\ name[f][1] # "word"
    BY <1>9, <1>10, <2>1
  <2>3. is_placeholder(name[f])
    BY <1>1, <1>4, <2>1, <2>2 DEF ReportsFirst
  <2>4. CASE name_taken(<<"word", t>>, f, name)
    <3>1. PICK g \in Funcs \ {f} : name[g] = <<"word", t>>
      BY <1>4, <2>4 DEF name_taken
    <3>2. g \notin U
      BY <1>6, <3>1 DEF may_take, is_placeholder
    <3>3. QED
      BY <1>9, <3>1, <3>2 DEF name_taken
  <2>5. CASE ~name_taken(<<"word", t>>, f, name)
    <3> DEFINE rivals == {g \in Reporters(h) : may_take(g, Word(g, h)) /\ Word(g, h) = <<"word", t>>}
    <3>1. f \in rivals /\ rivals \subseteq Nat
      BY <1>4, <1>5, <2>1, <2>3, <2>5 DEF may_take
    <3>2. PICK g \in rivals : \A k \in rivals : g <= k
      BY <3>1, LeastAddress
    <3>3. g \in Named(h)
      <4>1. \A k \in Reporters(h) : may_take(k, Word(k, h)) /\ k < g => Word(k, h) # Word(g, h)
        <5>1. \A k \in rivals : k \in Nat /\ g \in Nat /\ g <= k
          BY <3>1, <3>2
        <5>2. \A k \in rivals : ~(k < g)
          BY <5>1
        <5>3. QED
          BY <5>2
      <4>2. QED
        BY <4>1 DEF Named
    <3>4. g # f /\ g \in Funcs /\ name'[g] = <<"word", t>>
      BY <1>5, <1>6, <1>9, <2>1, <2>2, <3>3
    <3>5. QED
      BY <1>9, <3>4 DEF name_taken
  <2>6. QED
    BY <2>4, <2>5
<1>15. \A k \in Funcs : k <= h /\ Accepted(k) => Heard(k)'
  <2> SUFFICES ASSUME NEW k \in Funcs, k <= h, Accepted(k) PROVE Heard(k)'
    OBVIOUS
  <2>1. CASE k < h
    BY <1>0, <1>1, <1>8, <2>1 DEF ReportsHeard
  <2>2. CASE k = h
    BY <1>14, <2>2
  <2>3. QED
    BY <1>4, <2>1, <2>2
<1>16. ReportsHeard'
  <2>1. \/ cursor'.pass = "reported" /\ \A f \in Funcs : f < cursor'.at <=> f <= h
        \/ cursor'.pass = "accessors" /\ \A f \in Funcs : f <= h
    BY <1>0, <1>1, AdvanceMoves
  <2>2. QED
    BY <1>2, <1>3, <1>15, <2>1 DEF ReportsHeard
<1>17. QED
  BY <1>2, <1>8, <1>11, <1>13, <1>16 DEF NamesInv

\* The passes over the shapes rename one function at most.
LEMMA ShapeNameStep ==
    ASSUME NamesInv, cursor.pass \in {"accessors", "thunks"},
           UNCHANGED <<listing, size, symbols, entry>>, Advance,
           NEW shape, GiveShapeName(shape)
    PROVE  NamesInv'
<1> DEFINE n == CHOOSE n \in shape : TRUE
<1>0. PICK h : h = cursor.at
  OBVIOUS
<1> DEFINE U == IF shape # {} /\ may_take(h, n) THEN {h} ELSE {}
           w == [f \in Funcs |-> n]
<1>1. /\ h \in Funcs /\ DOMAIN name = Funcs /\ name = [f \in DOMAIN name |-> name[f]]
      /\ ListingInv /\ ReportsHeard
  BY <1>0 DEF NamesInv, NamesDomain, ListingInv
<1>2. ListingInv' /\ Funcs' = Funcs /\ \A f : OwnName(f)' = OwnName(f)
  BY StepMoves, SameListing
<1>3. \A k : (Accepted(k)' <=> Accepted(k))
  BY SameListing
<1>4. /\ U \in SUBSET Funcs
      /\ \A f \in U : may_take(f, w[f])
      /\ \A f, g \in U : w[f] = w[g] => f = g
  BY <1>1
<1>5. name' = [f \in DOMAIN name |-> IF f \in U THEN w[f] ELSE name[f]]
  <2>1. CASE shape # {} /\ may_take(h, n)
    BY <1>0, <1>1, <2>1 DEF GiveShapeName
  <2>2. CASE ~(shape # {} /\ may_take(h, n))
    BY <1>0, <1>1, <2>2 DEF GiveShapeName
  <2>3. QED
    BY <2>1, <2>2
<1> HIDE DEF U, w
<1>6. OwnKept' /\ NoNameTwice' /\ \A k : Heard(k) => Heard(k)'
  BY <1>4, <1>5, TakenNames
<1>7. cursor'.pass \in {"accessors", "thunks", "done"}
  BY <1>1, AdvanceMoves
<1>8. NamesDomain' /\ ReportsFirst'
  <2>1. DOMAIN name' = Funcs /\ name' = [f \in DOMAIN name' |-> name'[f]]
    BY <1>1, <1>5
  <2>2. QED
    BY <1>2, <1>7, <2>1 DEF NamesDomain, ReportsFirst
<1>9. ReportsHeard'
  BY <1>1, <1>2, <1>3, <1>6, <1>7 DEF ReportsHeard
<1>10. QED
  BY <1>2, <1>6, <1>8, <1>9 DEF NamesInv

LEMMA StepKeepsNames == NamesInv /\ [SymbNext]_symbVars => NamesInv'
<1> SUFFICES ASSUME NamesInv, [SymbNext]_symbVars PROVE NamesInv'
  OBVIOUS
<1>1. CASE GiveOwnName
  BY <1>1, OwnNameStep
<1>2. CASE GiveReportedNames
  BY <1>2, ReportedNamesStep
<1>3. CASE GiveAccessorName
  BY <1>3, ShapeNameStep DEF GiveAccessorName, InPass
<1>4. CASE GiveThunkName
  BY <1>4, ShapeNameStep DEF GiveThunkName, InPass
<1>5. CASE UNCHANGED symbVars
  <2>1. UNCHANGED <<listing, size, symbols, entry>> /\ UNCHANGED <<name, cursor>>
    BY <1>5 DEF symbVars
  <2>2. /\ Funcs' = Funcs
        /\ \A f : OwnName(f)' = OwnName(f)
        /\ \A h : Reported(h)' = Reported(h) /\ Reporters(h)' = Reporters(h)
        /\ (\A h : Accepted(h)' <=> Accepted(h))
    BY <2>1, SameListing
  <2>3. \A h : Heard(h)' <=> Heard(h)
    BY <2>1, <2>2 DEF Heard, is_placeholder, name_taken
  <2>4. ReportsHeard'
    BY <2>1, <2>2, <2>3 DEF NamesInv, ReportsHeard
  <2>5. ListingInv' /\ NamesDomain' /\ OwnKept' /\ NoNameTwice' /\ ReportsFirst'
    BY <2>1, <2>2 DEF NamesInv, ListingInv, NamesDomain, OwnKept, NoNameTwice, ReportsFirst,
                      is_placeholder
  <2>6. QED
    BY <2>4, <2>5 DEF NamesInv
<1>6. QED
  BY <1>1, <1>2, <1>3, <1>4, <1>5 DEF SymbNext

LEMMA StartHasNoNames == Starts(Programs) => NamesInv
<1> SUFFICES ASSUME Starts(Programs) PROVE NamesInv
  OBVIOUS
<1>1. PICK p \in Programs : listing = p.insns /\ size = p.size
  BY DEF Starts
<1>2. /\ listing \in Seq([op : STRING, to : Nat, text : STRING])
      /\ Funcs \subseteq Nat \ {0} /\ Funcs # {} /\ IsFiniteSet(Funcs)
  BY <1>1, SymbolsAssumption DEF Listed, Funcs
<1>3. Min(Funcs) \in Funcs /\ \A f \in Funcs : Min(Funcs) <= f
  BY <1>2, LeastAddress
<1>4. cursor = [pass |-> "own", at |-> Min(Funcs)]
  BY DEF Starts, Funcs
<1>5. ListingInv
  BY <1>2, <1>3, <1>4 DEF ListingInv
<1>6. {f \in Funcs : f < Min(Funcs)} = {}
  <2>1. PICK m \in Funcs : m = Min(Funcs) /\ \A f \in Funcs : m <= f
    BY <1>3
  <2>2. \A f \in Funcs : f \in Nat /\ m \in Nat /\ m <= f
    BY <1>2, <2>1
  <2>3. \A f \in Funcs : ~(f < m)
    BY <2>2
  <2>4. QED
    BY <2>1, <2>3
<1>7. name = <<>> /\ DOMAIN name = {}
  BY DEF Starts
<1>8. NamesDomain
  BY <1>4, <1>6, <1>7 DEF NamesDomain
<1>9. OwnKept /\ NoNameTwice /\ ReportsFirst /\ ReportsHeard
  BY <1>4, <1>7 DEF OwnKept, NoNameTwice, ReportsFirst, ReportsHeard
<1>10. QED
  BY <1>5, <1>8, <1>9 DEF NamesInv

\* The invariant of ds_engine_resolve_symbols: what the passes have settled
\* so far, function by function and helper by helper.
THEOREM NamesInvariant == SymbSpec => []NamesInv
BY StartHasNoNames, StepKeepsNames, PTL DEF SymbSpec

\* The passes only upgrade placeholders, never make one name of two
\* functions, and who reports a name to an accepted helper has it, unless it
\* is taken or there was a better one (recover_string_names,
\* recover_heuristic_names).
THEOREM NamesHoldAlways == SymbSpec => []NamesHold
<1>1. NamesInv => NamesHold
  <2> SUFFICES ASSUME NamesInv, cursor.pass # "own" PROVE NamesHold
    BY DEF NamesHold
  <2>1. DOMAIN name = Funcs
    BY DEF NamesInv, NamesDomain
  <2>2. cursor.pass = "done" => \A h \in Funcs : Accepted(h) => Heard(h)
    BY DEF NamesInv, ReportsHeard
  <2>3. QED
    BY <2>1, <2>2 DEF NamesInv, OwnKept, NoNameTwice, Heard, NamesHold
<1>2. QED
  BY <1>1, NamesInvariant, PTL
=============================================================================
