--------------------------- MODULE SignaturesProofs ---------------------------
(***************************************************************************)
(* Theorems of Signatures: for every program, a thunk never says more than *)
(* its target, and when the chains of what the rounds follow are as short  *)
(* as the rounds are many, it says the same.                               *)
(***************************************************************************)
EXTENDS Signatures, WellFoundedInduction, TLAPS

\* The fields of a signature the rounds read or write.
Fields == {"param_count", "ret_kind", "lock_kind", "ret_api", "saw_prior_call",
           "ret_only_from_call", "saw_real_value_ret", "ret_call_target"}

\* What no round changes.
SameEvidence(x, y) ==
    /\ y.saw_prior_call = x.saw_prior_call
    /\ y.ret_only_from_call = x.ret_only_from_call
    /\ y.saw_real_value_ret = x.saw_real_value_ret
    /\ y.ret_call_target = x.ret_call_target

SameForward(x, y) ==
    y.param_count = x.param_count /\ y.ret_kind = x.ret_kind /\ y.lock_kind = x.lock_kind

Alike(x, y) == SameEvidence(x, y) /\ SameForward(x, y) /\ y.ret_api = x.ret_api

\* A signature says more and more.
Grown(x, y) ==
    /\ SameEvidence(x, y)
    /\ x.param_count <= y.param_count
    /\ x.ret_kind # "void" => y.ret_kind = x.ret_kind
    /\ x.lock_kind # "none" => y.lock_kind = x.lock_kind
    /\ x.ret_api # NoType => y.ret_api = x.ret_api

IsTable(t) ==
    /\ DOMAIN t = DOMAIN code
    /\ \A f \in DOMAIN t : Fields \subseteq DOMAIN t[f] /\ t[f].param_count \in Nat

Maps ==
    \A m \in {tail_of, lock_thunk_of, fwd_thunk_of} :
        DOMAIN m \subseteq DOMAIN code /\ \A f \in DOMAIN m : m[f] \in DOMAIN code

ForwardLoops == {"tails", "locks", "thunks"}
ApiLoops == {"wrappers", "handovers"}
Loops == ForwardLoops \cup ApiLoops

\* The signatures the turn of f reads beside its own.
Targets(m, f) == IF f \in DOMAIN m THEN {m[f]} ELSE {}

Read(loop, t, f) ==
    CASE loop \in {"tails", "handovers"} -> Targets(tail_of, f)
      [] loop = "locks" -> Targets(lock_thunk_of, f)
      [] loop = "thunks" -> Targets(fwd_thunk_of, f)
      [] OTHER -> IF OnlyHandsBack(t[f]) THEN {t[f].ret_call_target} \cap DOMAIN t ELSE {}

\* The turn of f finds nothing to do.
Still(loop, t, f) ==
    \A g \in Read(loop, t, f) :
        CASE loop = "tails" ->
                t[f].ret_kind = "void" /\ (~t[f].saw_prior_call \/ Floating(t[g].ret_kind))
                    => t[g].ret_kind = "void"
          [] loop = "locks" -> t[f].lock_kind = "none" => t[g].lock_kind = "none"
          [] loop = "thunks" ->
                /\ t[g].param_count <= t[f].param_count
                /\ t[f].ret_kind = "void" => t[g].ret_kind = "void"
          [] loop = "wrappers" ->
                t[f].ret_api = NoType /\ OnlyHandsBack(t[f]) => t[g].ret_api = NoType
          [] OTHER -> t[f].ret_api = NoType => t[g].ret_api = NoType

-----------------------------------------------------------------------------
\* A set of numbers has a least one.
LEMMA LeastOf ==
    ASSUME NEW S \in SUBSET Nat, S # {}
    PROVE  \E l \in S : \A m \in S : l <= m
<1> DEFINE R == OpToRel(<, Nat)
<1>1. \A x, y \in Nat : x < y => <<x, y>> \in R
  BY DEF OpToRel
<1>2. IsWellFoundedOn(R, Nat)
  BY NatLessThanWellFounded
<1> HIDE DEF R
<1>3. PICK n \in S : \A m \in S : <<m, n>> \notin R
  BY <1>2, WFMin
<1>4. \A m \in S : n <= m
  <2> SUFFICES ASSUME NEW m \in S PROVE n <= m
    OBVIOUS
  <2>1. m \in Nat /\ n \in Nat /\ ~(m < n)
    BY <1>1, <1>3
  <2>2. QED
    BY <2>1
<1>5. QED
  BY <1>4

\* Induction: a set of numbers with 0 and every successor.
LEMMA CountUp ==
    ASSUME NEW S, 0 \in S, \A n \in Nat : n \in S => n + 1 \in S
    PROVE  Nat \subseteq S
<1> SUFFICES ASSUME Nat \ S # {} PROVE FALSE
  OBVIOUS
<1>1. PICK n \in Nat \ S : \A m \in Nat \ S : n <= m
  BY LeastOf
<1>2. n # 0 /\ n - 1 \in Nat /\ ~(n <= n - 1)
  BY <1>1
<1>3. n - 1 \in S
  BY <1>1, <1>2
<1>4. n \in S
  BY <1>2, <1>3
<1>5. QED
  BY <1>1, <1>4

-----------------------------------------------------------------------------
(* Loops and their turns.                                                  *)

\* A loop is its turns, one after the other.
LEMMA Turns ==
    ASSUME NEW loop, NEW t, Len(code) \in Nat
    PROVE  \E turn : /\ turn[0] = t
                     /\ \A f \in 1..Len(code) : turn[f] = Turn(loop, turn[f - 1], f)
                     /\ InOrder(loop, t) = turn[Len(code)]
<1> DEFINE N == Len(code)
           Then(x, f) == Turn(loop, x, f)
           Is(p, n) == p = [i \in 0..n |-> IF i = 0 THEN t ELSE Then(p[i - 1], i)]
           Done == {n \in Nat : \E p : Is(p, n)}
<1>1. N \in Nat
  OBVIOUS
<1> HIDE DEF N, Then
<1>2. 0 \in Done
  <2>1. Is([i \in 0..0 |-> t], 0)
    OBVIOUS
  <2>2. QED
    BY <2>1
<1>3. ASSUME NEW n \in Nat, n \in Done PROVE n + 1 \in Done
  <2>1. PICK p : Is(p, n)
    BY <1>3
  <2> DEFINE q == [i \in 0..(n + 1) |-> IF i = n + 1 THEN Then(p[n], n + 1) ELSE p[i]]
  <2>2. /\ n + 1 \in 0..(n + 1) /\ (n + 1) - 1 = n /\ n + 1 # 0 /\ n \in 0..n
        /\ \A i \in 0..n : i \in 0..(n + 1) /\ i # n + 1 /\ (i # 0 => i - 1 \in 0..n)
    OBVIOUS
  <2>3. q[n + 1] = Then(p[n], n + 1) /\ \A i \in 0..n : q[i] = p[i]
    BY <2>2
  <2>4. \A i \in 0..n : p[i] = IF i = 0 THEN t ELSE Then(p[i - 1], i)
    BY <2>1
  <2>5. q = [i \in 0..(n + 1) |-> q[i]]
    OBVIOUS
  <2> HIDE DEF q
  <2>6. \A i \in 0..(n + 1) : q[i] = IF i = 0 THEN t ELSE Then(q[i - 1], i)
    <3> SUFFICES ASSUME NEW i \in 0..(n + 1) PROVE q[i] = IF i = 0 THEN t ELSE Then(q[i - 1], i)
      OBVIOUS
    <3>1. CASE i = n + 1
      BY <2>2, <2>3, <3>1
    <3>2. CASE i \in 0..n
      BY <2>2, <2>3, <2>4, <3>2
    <3>3. QED
      BY <3>1, <3>2
  <2>7. Is(q, n + 1)
    BY <2>5, <2>6
  <2>8. QED
    <3> HIDE DEF Is
    <3>1. QED
      BY <2>7
<1>4. PICK p : Is(p, N)
  <2>1. N \in Done
    <3> HIDE DEF Done
    <3>1. QED
      BY <1>1, <1>2, <1>3, CountUp
  <2>2. QED
    BY <2>1
<1> DEFINE turn == CHOOSE f : Is(f, N)
<1>5. InOrder(loop, t) = turn[N]
  BY DEF InOrder, N, Then
<1>6. Is(turn, N)
  <2> HIDE DEF Is
  <2>1. QED
    BY <1>4
<1> HIDE DEF turn
<1>7. \A i \in 0..N : turn[i] = IF i = 0 THEN t ELSE Then(turn[i - 1], i)
  BY <1>6
<1>8. turn[0] = t /\ \A f \in 1..N : turn[f] = Then(turn[f - 1], f)
  BY <1>1, <1>7
<1>9. QED
  BY <1>5, <1>8 DEF N, Then

\* A turn changes the function's own entry, which only says more, and takes
\* that from what it reads; when there was nothing to do it stays, and
\* afterwards there is nothing left to do.
Takes(loop, t, f, x) ==
    LET read == {f} \cup Read(loop, t, f) IN
    /\ x[f].param_count \in {t[g].param_count : g \in read}
    /\ x[f].ret_kind \in {t[g].ret_kind : g \in read}
    /\ x[f].lock_kind \in {t[g].lock_kind : g \in read}
    /\ x[f].ret_api \in {t[g].ret_api : g \in read}
    /\ loop = "wrappers" /\ ~OnlyHandsBack(t[f]) => x[f].ret_api = t[f].ret_api

TurnDoes(loop, t, f, x) ==
    /\ DOMAIN x = DOMAIN t
    /\ \A g \in DOMAIN t \ {f} : x[g] = t[g]
    /\ Fields \subseteq DOMAIN x[f] /\ x[f].param_count \in Nat
    /\ Grown(t[f], x[f]) /\ Takes(loop, t, f, x)
    /\ loop \in ForwardLoops => x[f].ret_api = t[f].ret_api
    /\ loop \in ApiLoops => SameForward(t[f], x[f])
    /\ Still(loop, t, f) => Alike(t[f], x[f])
    /\ Still(loop, x, f)

LEMMA NoTurn ==
    ASSUME NEW loop, NEW t, NEW f \in DOMAIN t, Fields \subseteq DOMAIN t[f],
           t[f].param_count \in Nat, Still(loop, t, f)
    PROVE  TurnDoes(loop, t, f, t)
BY DEF TurnDoes, Takes, Grown, Alike, SameEvidence, SameForward

LEMMA TailTurn ==
    ASSUME NEW t, IsTable(t), Maps, NEW f \in DOMAIN code, NEW x, x = Turn("tails", t, f)
    PROVE  TurnDoes("tails", t, f, x)
<1>1. /\ f \in DOMAIN t /\ Fields \subseteq DOMAIN t[f] /\ t[f].param_count \in Nat
      /\ "tails" \in ForwardLoops /\ "tails" \notin ApiLoops
  BY DEF IsTable, ForwardLoops, ApiLoops
<1>2. Read("tails", t, f) = Targets(tail_of, f) /\ Read("tails", x, f) = Targets(tail_of, f)
  BY DEF Read
<1>3. CASE f \notin DOMAIN tail_of
  <2>1. x = t /\ Targets(tail_of, f) = {}
    BY <1>3 DEF Turn, Targets
  <2>2. Still("tails", t, f)
    BY <1>2, <2>1 DEF Still
  <2> QED BY <1>1, <2>1, <2>2, NoTurn
<1>4. CASE f \in DOMAIN tail_of
  <2> DEFINE g == tail_of[f]
             kind == t[g].ret_kind
  <2>1. x = ResolveTail(t, f) /\ Targets(tail_of, f) = {g}
    BY <1>4 DEF Turn, Targets
  <2>2. g \in DOMAIN t
    BY <1>4 DEF Maps, IsTable
  <2> HIDE DEF g
  <2>3. CASE t[f].ret_kind = "void" /\ (~t[f].saw_prior_call \/ Floating(kind))
    <3> DEFINE r == [t[f] EXCEPT !.ret_kind = kind]
    <3>1. x = [t EXCEPT ![f] = r]
      BY <2>1, <2>3 DEF ResolveTail, g
    <3>2. /\ DOMAIN r = DOMAIN t[f] /\ r.ret_kind = kind /\ SameEvidence(t[f], r)
          /\ r.param_count = t[f].param_count /\ r.lock_kind = t[f].lock_kind /\ r.ret_api = t[f].ret_api
      BY <1>1 DEF Fields, SameEvidence
    <3> HIDE DEF r
    <3>3. DOMAIN x = DOMAIN t /\ x[f] = r /\ \A h \in DOMAIN t \ {f} : x[h] = t[h]
      BY <1>1, <3>1
    <3>4. x[g].ret_kind = kind
      BY <2>2, <3>2, <3>3
    <3>5. Grown(t[f], x[f])
      BY <1>1, <2>3, <3>2, <3>3 DEF Grown
    <3>6. Still("tails", x, f)
      BY <1>2, <2>1, <3>2, <3>3, <3>4 DEF Still
    <3>7. Still("tails", t, f) => kind = "void"
      BY <1>2, <2>1, <2>3 DEF Still
    <3>8. Still("tails", t, f) => Alike(t[f], x[f])
      BY <2>3, <3>2, <3>3, <3>7 DEF Alike, SameForward
    <3>9. Takes("tails", t, f, x)
      BY <1>2, <2>1, <3>2, <3>3 DEF Takes
    <3> QED BY <1>1, <3>2, <3>3, <3>5, <3>6, <3>8, <3>9 DEF TurnDoes
  <2>4. CASE ~(t[f].ret_kind = "void" /\ (~t[f].saw_prior_call \/ Floating(kind)))
    <3>1. x = t
      BY <2>1, <2>4 DEF ResolveTail, g
    <3>2. Still("tails", t, f)
      BY <1>2, <2>1, <2>4 DEF Still
    <3> QED BY <1>1, <3>1, <3>2, NoTurn
  <2> QED BY <2>3, <2>4
<1> QED BY <1>3, <1>4

LEMMA LockTurn ==
    ASSUME NEW t, IsTable(t), Maps, NEW f \in DOMAIN code, NEW x, x = Turn("locks", t, f)
    PROVE  TurnDoes("locks", t, f, x)
<1>1. /\ f \in DOMAIN t /\ Fields \subseteq DOMAIN t[f] /\ t[f].param_count \in Nat
      /\ "locks" \in ForwardLoops /\ "locks" \notin ApiLoops
  BY DEF IsTable, ForwardLoops, ApiLoops
<1>2. Read("locks", t, f) = Targets(lock_thunk_of, f) /\ Read("locks", x, f) = Targets(lock_thunk_of, f)
  BY DEF Read
<1>3. CASE f \notin DOMAIN lock_thunk_of
  <2>1. x = t /\ Targets(lock_thunk_of, f) = {}
    BY <1>3 DEF Turn, Targets
  <2>2. Still("locks", t, f)
    BY <1>2, <2>1 DEF Still
  <2> QED BY <1>1, <2>1, <2>2, NoTurn
<1>4. CASE f \in DOMAIN lock_thunk_of
  <2> DEFINE g == lock_thunk_of[f]
             kind == t[g].lock_kind
  <2>1. x = ResolveLock(t, f) /\ Targets(lock_thunk_of, f) = {g}
    BY <1>4 DEF Turn, Targets
  <2>2. g \in DOMAIN t
    BY <1>4 DEF Maps, IsTable
  <2> HIDE DEF g
  <2>3. CASE t[f].lock_kind = "none"
    <3> DEFINE r == [t[f] EXCEPT !.lock_kind = kind]
    <3>1. x = [t EXCEPT ![f] = r]
      BY <2>1, <2>3 DEF ResolveLock, g
    <3>2. /\ DOMAIN r = DOMAIN t[f] /\ r.lock_kind = kind /\ SameEvidence(t[f], r)
          /\ r.param_count = t[f].param_count /\ r.ret_kind = t[f].ret_kind /\ r.ret_api = t[f].ret_api
      BY <1>1 DEF Fields, SameEvidence
    <3> HIDE DEF r
    <3>3. DOMAIN x = DOMAIN t /\ x[f] = r /\ \A h \in DOMAIN t \ {f} : x[h] = t[h]
      BY <1>1, <3>1
    <3>4. x[g].lock_kind = kind
      BY <2>2, <3>2, <3>3
    <3>5. Grown(t[f], x[f])
      BY <1>1, <2>3, <3>2, <3>3 DEF Grown
    <3>6. Still("locks", x, f)
      BY <1>2, <2>1, <3>2, <3>3, <3>4 DEF Still
    <3>7. Still("locks", t, f) => kind = "none"
      BY <1>2, <2>1, <2>3 DEF Still
    <3>8. Still("locks", t, f) => Alike(t[f], x[f])
      BY <2>3, <3>2, <3>3, <3>7 DEF Alike, SameForward
    <3>9. Takes("locks", t, f, x)
      BY <1>2, <2>1, <3>2, <3>3 DEF Takes
    <3> QED BY <1>1, <3>2, <3>3, <3>5, <3>6, <3>8, <3>9 DEF TurnDoes
  <2>4. CASE t[f].lock_kind # "none"
    <3>1. x = t
      BY <2>1, <2>4 DEF ResolveLock, g
    <3>2. Still("locks", t, f)
      BY <1>2, <2>1, <2>4 DEF Still
    <3> QED BY <1>1, <3>1, <3>2, NoTurn
  <2> QED BY <2>3, <2>4
<1> QED BY <1>3, <1>4

LEMMA ThunkTurn ==
    ASSUME NEW t, IsTable(t), Maps, NEW f \in DOMAIN code, NEW x, x = Turn("thunks", t, f)
    PROVE  TurnDoes("thunks", t, f, x)
<1>1. /\ f \in DOMAIN t /\ Fields \subseteq DOMAIN t[f] /\ t[f].param_count \in Nat
      /\ "thunks" \in ForwardLoops /\ "thunks" \notin ApiLoops
  BY DEF IsTable, ForwardLoops, ApiLoops
<1>2. Read("thunks", t, f) = Targets(fwd_thunk_of, f) /\ Read("thunks", x, f) = Targets(fwd_thunk_of, f)
  BY DEF Read
<1>3. CASE f \notin DOMAIN fwd_thunk_of
  <2>1. x = t /\ Targets(fwd_thunk_of, f) = {}
    BY <1>3 DEF Turn, Targets
  <2>2. Still("thunks", t, f)
    BY <1>2, <2>1 DEF Still
  <2> QED BY <1>1, <2>1, <2>2, NoTurn
<1>4. CASE f \in DOMAIN fwd_thunk_of
  <2> DEFINE g == fwd_thunk_of[f]
             T == t[g]
             wider == IF T.param_count > t[f].param_count
                        THEN [t[f] EXCEPT !.param_count = T.param_count, !.float_mask = T.float_mask,
                                          !.double_mask = T.double_mask, !.ptr_param = T.ptr_param]
                        ELSE t[f]
             r == IF wider.ret_kind = "void" THEN [wider EXCEPT !.ret_kind = T.ret_kind] ELSE wider
  <2>1. x = ResolveThunk(t, f) /\ Targets(fwd_thunk_of, f) = {g}
    BY <1>4 DEF Turn, Targets
  <2>2. g \in DOMAIN t /\ T.param_count \in Nat
    BY <1>4 DEF Maps, IsTable
  <2>3. x = [t EXCEPT ![f] = r]
    BY <2>1 DEF ResolveThunk
  <2> HIDE DEF g
  <2>4. /\ Fields \subseteq DOMAIN wider /\ SameEvidence(t[f], wider)
        /\ wider.param_count = IF T.param_count > t[f].param_count THEN T.param_count ELSE t[f].param_count
        /\ wider.ret_kind = t[f].ret_kind /\ wider.lock_kind = t[f].lock_kind /\ wider.ret_api = t[f].ret_api
    BY <1>1 DEF Fields, SameEvidence
  <2> HIDE DEF wider
  <2>5. /\ Fields \subseteq DOMAIN r /\ SameEvidence(wider, r) /\ r.param_count = wider.param_count
        /\ r.ret_kind = (IF wider.ret_kind = "void" THEN T.ret_kind ELSE wider.ret_kind)
        /\ r.lock_kind = wider.lock_kind /\ r.ret_api = wider.ret_api
    BY <2>4 DEF Fields, SameEvidence
  <2> HIDE DEF r
  <2>6. DOMAIN x = DOMAIN t /\ x[f] = r /\ \A h \in DOMAIN t \ {f} : x[h] = t[h]
    BY <1>1, <2>3
  <2>7. SameEvidence(t[f], r)
    BY <2>4, <2>5 DEF SameEvidence
  <2>8. r.param_count \in Nat /\ t[f].param_count <= r.param_count /\ T.param_count <= r.param_count
    BY <1>1, <2>2, <2>4, <2>5
  <2>9. Grown(t[f], x[f])
    BY <2>4, <2>5, <2>6, <2>7, <2>8 DEF Grown
  <2>10. Still("thunks", x, f)
    <3>1. CASE g = f
      BY <1>2, <2>1, <2>6, <2>8, <3>1 DEF Still
    <3>2. CASE g # f
      <4>1. x[g] = T
        BY <2>2, <2>6, <3>2
      <4> QED BY <1>2, <2>1, <2>4, <2>5, <2>6, <2>8, <4>1 DEF Still
    <3> QED BY <3>1, <3>2
  <2>11. ASSUME Still("thunks", t, f) PROVE Alike(t[f], x[f])
    <3>1. T.param_count <= t[f].param_count /\ (t[f].ret_kind = "void" => T.ret_kind = "void")
      BY <1>2, <2>1, <2>11 DEF Still
    <3>2. wider.param_count = t[f].param_count
      BY <1>1, <2>2, <2>4, <3>1
    <3> QED BY <2>4, <2>5, <2>6, <2>7, <3>1, <3>2 DEF Alike, SameForward
  <2>12. Takes("thunks", t, f, x)
    BY <1>2, <2>1, <2>4, <2>5, <2>6 DEF Takes
  <2> QED BY <1>1, <2>4, <2>5, <2>6, <2>8, <2>9, <2>10, <2>11, <2>12 DEF TurnDoes
<1> QED BY <1>3, <1>4

LEMMA WrapperTurn ==
    ASSUME NEW t, IsTable(t), Maps, NEW f \in DOMAIN code, NEW x, x = Turn("wrappers", t, f)
    PROVE  TurnDoes("wrappers", t, f, x)
<1> DEFINE g == t[f].ret_call_target
<1>1. /\ f \in DOMAIN t /\ Fields \subseteq DOMAIN t[f] /\ t[f].param_count \in Nat
      /\ "wrappers" \in ApiLoops /\ "wrappers" \notin ForwardLoops
  BY DEF IsTable, ForwardLoops, ApiLoops
<1>2. /\ OnlyHandsBack(t[f]) => Read("wrappers", t, f) = {g} \cap DOMAIN t
      /\ OnlyHandsBack(x[f]) => Read("wrappers", x, f) = {x[f].ret_call_target} \cap DOMAIN x
      /\ ~OnlyHandsBack(t[f]) => Read("wrappers", t, f) = {}
  BY DEF Read
<1>3. x = InheritCall(t, f)
  BY DEF Turn
<1>4. CASE t[f].ret_api = NoType /\ OnlyHandsBack(t[f]) /\ g \in DOMAIN t \ {f}
  <2> DEFINE r == [t[f] EXCEPT !.ret_api = t[g].ret_api]
  <2>1. x = [t EXCEPT ![f] = r]
    BY <1>3, <1>4 DEF InheritCall
  <2>2. /\ DOMAIN r = DOMAIN t[f] /\ r.ret_api = t[g].ret_api /\ SameEvidence(t[f], r)
        /\ SameForward(t[f], r) /\ r.ret_call_target = g
    BY <1>1 DEF Fields, SameEvidence, SameForward
  <2> HIDE DEF r
  <2>3. DOMAIN x = DOMAIN t /\ x[f] = r /\ \A h \in DOMAIN t \ {f} : x[h] = t[h]
    BY <1>1, <2>1
  <2>4. x[g] = t[g] /\ Read("wrappers", x, f) = {g} /\ Read("wrappers", t, f) = {g}
    <3>1. OnlyHandsBack(x[f])
      BY <1>4, <2>2, <2>3 DEF SameEvidence, OnlyHandsBack
    <3> QED BY <1>2, <1>4, <2>2, <2>3, <3>1
  <2>5. Grown(t[f], x[f])
    BY <1>1, <1>4, <2>2, <2>3 DEF Grown, SameForward
  <2>6. Still("wrappers", x, f)
    BY <2>2, <2>3, <2>4 DEF Still
  <2>7. ASSUME Still("wrappers", t, f) PROVE Alike(t[f], x[f])
    <3>1. t[g].ret_api = NoType
      BY <1>4, <2>4, <2>7 DEF Still
    <3> QED BY <1>4, <2>2, <2>3, <3>1 DEF Alike
  <2>8. Takes("wrappers", t, f, x)
    BY <1>4, <2>2, <2>3, <2>4 DEF Takes, SameForward
  <2> QED BY <1>1, <2>2, <2>3, <2>5, <2>6, <2>7, <2>8 DEF TurnDoes, SameForward
<1>5. CASE ~(t[f].ret_api = NoType /\ OnlyHandsBack(t[f]) /\ g \in DOMAIN t \ {f})
  <2>1. x = t
    BY <1>3, <1>5 DEF InheritCall
  <2>2. Still("wrappers", t, f)
    BY <1>2, <1>5 DEF Still
  <2> QED BY <1>1, <2>1, <2>2, NoTurn
<1> QED BY <1>4, <1>5

LEMMA HandoverTurn ==
    ASSUME NEW t, IsTable(t), Maps, NEW f \in DOMAIN code, NEW x, x = Turn("handovers", t, f)
    PROVE  TurnDoes("handovers", t, f, x)
<1>1. /\ f \in DOMAIN t /\ Fields \subseteq DOMAIN t[f] /\ t[f].param_count \in Nat
      /\ "handovers" \in ApiLoops /\ "handovers" \notin ForwardLoops
  BY DEF IsTable, ForwardLoops, ApiLoops
<1>2. Read("handovers", t, f) = Targets(tail_of, f) /\ Read("handovers", x, f) = Targets(tail_of, f)
  BY DEF Read
<1>3. CASE f \notin DOMAIN tail_of
  <2>1. x = t /\ Targets(tail_of, f) = {}
    BY <1>3 DEF Turn, Targets
  <2>2. Still("handovers", t, f)
    BY <1>2, <2>1 DEF Still
  <2> QED BY <1>1, <2>1, <2>2, NoTurn
<1>4. CASE f \in DOMAIN tail_of
  <2> DEFINE g == tail_of[f]
             api == t[g].ret_api
  <2>1. x = InheritTail(t, f) /\ Targets(tail_of, f) = {g}
    BY <1>4 DEF Turn, Targets
  <2>2. g \in DOMAIN t
    BY <1>4 DEF Maps, IsTable
  <2>3. CASE t[f].ret_api = NoType
    <3> DEFINE r == [t[f] EXCEPT !.ret_api = api]
    <3>1. x = [t EXCEPT ![f] = r]
      BY <2>1, <2>3 DEF InheritTail
    <3> HIDE DEF g
    <3>2. DOMAIN r = DOMAIN t[f] /\ r.ret_api = api /\ SameEvidence(t[f], r) /\ SameForward(t[f], r)
      BY <1>1 DEF Fields, SameEvidence, SameForward
    <3> HIDE DEF r
    <3>3. DOMAIN x = DOMAIN t /\ x[f] = r /\ \A h \in DOMAIN t \ {f} : x[h] = t[h]
      BY <1>1, <3>1
    <3>4. x[g].ret_api = api
      BY <2>2, <3>2, <3>3
    <3>5. Grown(t[f], x[f])
      BY <1>1, <2>3, <3>2, <3>3 DEF Grown, SameForward
    <3>6. Still("handovers", x, f)
      BY <1>2, <2>1, <3>2, <3>3, <3>4 DEF Still
    <3>7. Still("handovers", t, f) => api = NoType
      BY <1>2, <2>1, <2>3 DEF Still
    <3>8. Still("handovers", t, f) => Alike(t[f], x[f])
      BY <2>3, <3>2, <3>3, <3>7 DEF Alike
    <3>9. Takes("handovers", t, f, x)
      BY <1>2, <2>1, <3>2, <3>3 DEF Takes, SameForward
    <3> QED BY <1>1, <3>2, <3>3, <3>5, <3>6, <3>8, <3>9 DEF TurnDoes, SameForward
  <2>4. CASE t[f].ret_api # NoType
    <3>1. x = t
      BY <2>1, <2>4 DEF InheritTail
    <3>2. Still("handovers", t, f)
      BY <1>2, <2>1, <2>4 DEF Still
    <3> QED BY <1>1, <3>1, <3>2, NoTurn
  <2> QED BY <2>3, <2>4
<1> QED BY <1>3, <1>4

LEMMA OneTurn ==
    ASSUME NEW t, IsTable(t), Maps, NEW loop \in Loops, NEW f \in DOMAIN code
    PROVE  TurnDoes(loop, t, f, Turn(loop, t, f))
<1>1. loop \in {"tails", "locks", "thunks", "wrappers", "handovers"}
  BY DEF Loops, ForwardLoops, ApiLoops
<1> QED BY <1>1, TailTurn, LockTurn, ThunkTurn, WrapperTurn, HandoverTurn

-----------------------------------------------------------------------------
(* What is settled stays settled.                                          *)

\* A function keeps having nothing to do while what it reads stays.
LEMMA StaysStill ==
    ASSUME NEW t, NEW u, NEW loop \in Loops, NEW f, DOMAIN u = DOMAIN t,
           Still(loop, t, f), Grown(t[f], u[f]),
           t[f].param_count \in Nat, u[f].param_count \in Nat,
           \A g \in Read(loop, t, f) : g = f \/ (Alike(t[g], u[g]) /\ t[g].param_count \in Nat)
    PROVE  Read(loop, u, f) = Read(loop, t, f) /\ Still(loop, u, f)
<1>1. loop \in {"tails", "locks", "thunks", "wrappers", "handovers"}
  BY DEF Loops, ForwardLoops, ApiLoops
<1>2. Read(loop, u, f) = Read(loop, t, f)
  BY <1>1 DEF Read, Grown, SameEvidence, OnlyHandsBack
<1>3. ASSUME NEW g \in Read(loop, t, f), g = f
      PROVE  u[g].param_count <= u[f].param_count
  BY <1>3
<1>4. ASSUME NEW g \in Read(loop, t, f), g # f
      PROVE  Alike(t[g], u[g]) /\ t[g].param_count \in Nat
  BY <1>4
<1>5. CASE loop = "tails"
  BY <1>2, <1>4, <1>5 DEF Still, Grown, Alike, SameForward, SameEvidence
<1>6. CASE loop = "locks"
  BY <1>2, <1>4, <1>6 DEF Still, Grown, Alike, SameForward
<1>7. CASE loop = "thunks"
  BY <1>2, <1>3, <1>4, <1>7 DEF Still, Grown, Alike, SameForward
<1>8. CASE loop = "wrappers"
  BY <1>2, <1>4, <1>8 DEF Still, Grown, Alike, SameEvidence, OnlyHandsBack
<1>9. CASE loop = "handovers"
  BY <1>2, <1>4, <1>9 DEF Still, Grown, Alike
<1> QED BY <1>1, <1>2, <1>5, <1>6, <1>7, <1>8, <1>9

LEMMA GrowsOn ==
    ASSUME NEW x, NEW y, NEW z, x.param_count \in Nat, y.param_count \in Nat, z.param_count \in Nat
    PROVE  /\ Grown(x, x) /\ Alike(x, x)
           /\ Grown(x, y) /\ Grown(y, z) => Grown(x, z)
           /\ Alike(x, y) /\ Alike(y, z) => Alike(x, z)
           /\ Alike(x, y) => Grown(x, y)
<1>1. Grown(x, x) /\ Alike(x, x)
  BY DEF Grown, Alike, SameEvidence, SameForward
<1>2. Grown(x, y) /\ Grown(y, z) => Grown(x, z)
  BY DEF Grown, SameEvidence
<1>3. Alike(x, y) /\ Alike(y, z) => Alike(x, z)
  BY DEF Alike, SameEvidence, SameForward
<1>4. Alike(x, y) => Grown(x, y)
  BY DEF Alike, Grown, SameEvidence, SameForward
<1> QED BY <1>1, <1>2, <1>3, <1>4

LEMMA SameRead ==
    ASSUME NEW t, NEW u, NEW loop, NEW f, DOMAIN u = DOMAIN t, Grown(t[f], u[f])
    PROVE  Read(loop, u, f) = Read(loop, t, f)
BY DEF Read, Grown, SameEvidence, OnlyHandsBack

\* A loop over table t, when it has come to u, behind the turn of n.  The
\* functions U had nothing to do in t and read only one another; the functions W
\* read only those.
Underway(loop, t, U, W, u, n) ==
    /\ IsTable(u)
    /\ \A f \in DOMAIN code :
          /\ Grown(t[f], u[f])
          /\ loop \in ForwardLoops => u[f].ret_api = t[f].ret_api
          /\ loop \in ApiLoops => SameForward(t[f], u[f])
    /\ \A f \in U : Alike(t[f], u[f])
    /\ \A f \in W : f <= n => Still(loop, u, f)

ReadsWithin(loop, t, U, W) ==
    /\ \A f \in U : Still(loop, t, f) /\ Read(loop, t, f) \subseteq U \cup {f}
    /\ \A f \in W : Read(loop, t, f) \subseteq U \cup {f}

LEMMA TurnOn ==
    ASSUME Maps, NEW t, IsTable(t), NEW loop \in Loops,
           NEW U \in SUBSET DOMAIN code, NEW W \in SUBSET DOMAIN code, ReadsWithin(loop, t, U, W),
           DOMAIN code \subseteq Nat, NEW n \in DOMAIN code, NEW u, Underway(loop, t, U, W, u, n - 1),
           NEW x, x = Turn(loop, u, n)
    PROVE  Underway(loop, t, U, W, x, n)
<1>1. IsTable(u) /\ DOMAIN t = DOMAIN code /\ DOMAIN u = DOMAIN code
  BY DEF Underway, IsTable
<1>2. \A f \in DOMAIN code : t[f].param_count \in Nat /\ u[f].param_count \in Nat
  BY <1>1 DEF IsTable
<1>3. TurnDoes(loop, u, n, x)
  BY <1>1, OneTurn
<1>4. /\ DOMAIN x = DOMAIN code /\ Fields \subseteq DOMAIN x[n] /\ x[n].param_count \in Nat
      /\ \A g \in DOMAIN code \ {n} : x[g] = u[g]
      /\ Grown(u[n], x[n])
      /\ (loop \in ForwardLoops => x[n].ret_api = u[n].ret_api)
      /\ (loop \in ApiLoops => SameForward(u[n], x[n]))
      /\ (Still(loop, u, n) => Alike(u[n], x[n]))
      /\ Still(loop, x, n)
  BY <1>1, <1>3 DEF TurnDoes
<1>5. IsTable(x)
  BY <1>1, <1>4 DEF IsTable
<1>6. \A f \in DOMAIN code : x[f].param_count \in Nat
  BY <1>5 DEF IsTable
<1>7. \A f \in DOMAIN code : Grown(t[f], u[f])
  BY DEF Underway
<1>8. \A f \in DOMAIN code : Read(loop, u, f) = Read(loop, t, f)
  BY <1>1, <1>7, SameRead
<1>9. n \in U => Still(loop, u, n)
  <2> SUFFICES ASSUME n \in U PROVE Still(loop, u, n)
    OBVIOUS
  <2>1. Still(loop, t, n) /\ Read(loop, t, n) \subseteq U \cup {n}
    BY DEF ReadsWithin
  <2>2. \A g \in Read(loop, t, n) : g = n \/ (Alike(t[g], u[g]) /\ t[g].param_count \in Nat)
    BY <1>2, <2>1 DEF Underway
  <2> QED BY <1>1, <1>2, <1>7, <2>1, <2>2, StaysStill
<1>10. \A f \in DOMAIN code : Grown(u[f], x[f])
  BY <1>2, <1>4, GrowsOn
<1>11. \A f \in U : Alike(u[f], x[f])
  BY <1>2, <1>4, <1>9, GrowsOn
<1>12. ASSUME NEW f \in DOMAIN code
       PROVE  /\ Grown(t[f], x[f])
              /\ (loop \in ForwardLoops => x[f].ret_api = t[f].ret_api)
              /\ (loop \in ApiLoops => SameForward(t[f], x[f]))
  <2>1. Grown(t[f], x[f])
    BY <1>2, <1>6, <1>7, <1>10, GrowsOn
  <2>2. /\ (loop \in ForwardLoops => u[f].ret_api = t[f].ret_api)
        /\ (loop \in ApiLoops => SameForward(t[f], u[f]))
    BY DEF Underway
  <2>3. /\ (loop \in ForwardLoops => x[f].ret_api = u[f].ret_api)
        /\ (loop \in ApiLoops => SameForward(u[f], x[f]))
    BY <1>4 DEF SameForward
  <2> QED BY <2>1, <2>2, <2>3 DEF SameForward
<1>13. \A f \in U : Alike(t[f], x[f])
  <2>1. \A f \in U : Alike(t[f], u[f])
    BY DEF Underway
  <2> QED BY <1>2, <1>6, <1>11, <2>1, GrowsOn
<1>14. ASSUME NEW f \in W, f <= n PROVE Still(loop, x, f)
  <2>1. CASE f = n
    BY <1>4, <2>1
  <2>2. CASE f # n
    <3>1. f <= n - 1
      BY <1>14, <2>2
    <3>2. Still(loop, u, f)
      BY <3>1 DEF Underway
    <3>3. Read(loop, u, f) \subseteq U \cup {f}
      BY <1>8 DEF ReadsWithin
    <3>4. \A g \in Read(loop, u, f) : g = f \/ (Alike(u[g], x[g]) /\ u[g].param_count \in Nat)
      BY <1>2, <1>11, <3>3
    <3> QED BY <1>1, <1>2, <1>4, <1>6, <1>10, <3>2, <3>4, StaysStill
  <2> QED BY <2>1, <2>2
<1> QED BY <1>5, <1>12, <1>13, <1>14 DEF Underway

\* A loop ends with every function of W having nothing left to do.
LEMMA LoopSettles ==
    ASSUME Maps, NEW t, IsTable(t), NEW loop \in Loops,
           NEW U \in SUBSET DOMAIN code, NEW W \in SUBSET DOMAIN code, ReadsWithin(loop, t, U, W),
           Len(code) \in Nat, DOMAIN code = 1..Len(code)
    PROVE  Underway(loop, t, U, W, InOrder(loop, t), Len(code))
<1> DEFINE N == Len(code)
<1>1. PICK turn : /\ turn[0] = t
                  /\ \A f \in 1..N : turn[f] = Turn(loop, turn[f - 1], f)
                  /\ InOrder(loop, t) = turn[N]
  BY Turns
<1> DEFINE Good == {n \in Nat : n <= N => Underway(loop, t, U, W, turn[n], n)}
<1>2. 0 \in Good
  <2>1. \A f \in DOMAIN code : t[f].param_count \in Nat
    BY DEF IsTable
  <2>2. \A f \in DOMAIN code : Grown(t[f], t[f]) /\ Alike(t[f], t[f]) /\ SameForward(t[f], t[f])
    BY <2>1, GrowsOn DEF SameForward
  <2>3. \A f \in W : ~(f <= 0)
    OBVIOUS
  <2> QED BY <1>1, <2>2, <2>3 DEF Underway
<1>3. ASSUME NEW n \in Nat, n \in Good PROVE n + 1 \in Good
  <2> SUFFICES ASSUME n + 1 <= N PROVE Underway(loop, t, U, W, turn[n + 1], n + 1)
    OBVIOUS
  <2>1. /\ n + 1 \in DOMAIN code /\ (n + 1) - 1 = n /\ DOMAIN code \subseteq Nat
        /\ turn[n + 1] = Turn(loop, turn[n], n + 1)
    BY <1>1
  <2>2. Underway(loop, t, U, W, turn[n], n)
    BY <1>3
  <2> QED BY <2>1, <2>2, TurnOn
<1>4. N \in Good
  <2> HIDE DEF Good
  <2> QED BY <1>2, <1>3, CountUp
<1> QED BY <1>1, <1>4

\* What a loop over t has settled, another loop finds as it was.
LEMMA Persists ==
    ASSUME NEW t, IsTable(t), NEW u, IsTable(u), NEW loop \in Loops,
           NEW U \in SUBSET DOMAIN code, NEW W \in SUBSET DOMAIN code, ReadsWithin(loop, t, U, W),
           \A f \in DOMAIN code : Grown(t[f], u[f]), \A f \in U : Alike(t[f], u[f])
    PROVE  /\ ReadsWithin(loop, u, U, W)
           /\ \A f \in W : Still(loop, t, f) => Still(loop, u, f)
<1>1. DOMAIN t = DOMAIN code /\ DOMAIN u = DOMAIN code
  BY DEF IsTable
<1>2. \A f \in DOMAIN code : t[f].param_count \in Nat /\ u[f].param_count \in Nat
  BY <1>1 DEF IsTable
<1>3. \A f \in DOMAIN code : Read(loop, u, f) = Read(loop, t, f)
  BY <1>1, SameRead
<1>4. ASSUME NEW f \in U \cup W, Still(loop, t, f) PROVE Still(loop, u, f)
  <2>1. \A g \in Read(loop, t, f) : g = f \/ (Alike(t[g], u[g]) /\ t[g].param_count \in Nat)
    BY <1>2 DEF ReadsWithin
  <2> QED BY <1>1, <1>2, <1>4, <2>1, StaysStill
<1> QED BY <1>3, <1>4 DEF ReadsWithin

LEMMA ForwardSettles ==
    ASSUME Maps, NEW t, IsTable(t), Len(code) \in Nat, DOMAIN code = 1..Len(code),
           NEW U \in SUBSET DOMAIN code, NEW W \in SUBSET DOMAIN code,
           \A loop \in ForwardLoops : ReadsWithin(loop, t, U, W),
           NEW x, x = InOrder("thunks", InOrder("locks", InOrder("tails", t)))
    PROVE  /\ IsTable(x)
           /\ \A f \in DOMAIN code : Grown(t[f], x[f]) /\ x[f].ret_api = t[f].ret_api
           /\ \A f \in U : Alike(t[f], x[f])
           /\ \A loop \in ForwardLoops : \A f \in U \cup W : Still(loop, x, f)
<1> DEFINE u == InOrder("tails", t)
           v == InOrder("locks", u)
           N == Len(code)
<1>0. /\ {"tails", "locks", "thunks"} = ForwardLoops /\ ForwardLoops \subseteq Loops
      /\ \A f \in DOMAIN code : f <= N
  BY DEF ForwardLoops, Loops
<1>1. Underway("tails", t, U, W, u, N)
  BY <1>0, LoopSettles
<1> HIDE DEF u
<1>2. /\ IsTable(u)
      /\ \A f \in DOMAIN code : Grown(t[f], u[f]) /\ u[f].ret_api = t[f].ret_api
      /\ \A f \in U : Alike(t[f], u[f])
      /\ \A f \in W : Still("tails", u, f)
  BY <1>0, <1>1 DEF Underway
<1>3. \A loop \in ForwardLoops : ReadsWithin(loop, u, U, W)
  BY <1>0, <1>2, Persists
<1>4. Underway("locks", u, U, W, v, N)
  BY <1>0, <1>2, <1>3, LoopSettles
<1> HIDE DEF v
<1>5. /\ IsTable(v)
      /\ \A f \in DOMAIN code : Grown(u[f], v[f]) /\ v[f].ret_api = u[f].ret_api
      /\ \A f \in U : Alike(u[f], v[f])
      /\ \A f \in W : Still("locks", v, f)
  BY <1>0, <1>4 DEF Underway
<1>6. /\ \A loop \in ForwardLoops : ReadsWithin(loop, v, U, W)
      /\ \A f \in W : Still("tails", v, f)
  BY <1>0, <1>2, <1>3, <1>5, Persists
<1>7. Underway("thunks", v, U, W, x, N)
  BY <1>0, <1>5, <1>6, LoopSettles DEF v, u
<1>8. /\ IsTable(x)
      /\ \A f \in DOMAIN code : Grown(v[f], x[f]) /\ x[f].ret_api = v[f].ret_api
      /\ \A f \in U : Alike(v[f], x[f])
      /\ \A f \in W : Still("thunks", x, f)
  BY <1>0, <1>7 DEF Underway
<1>9. /\ \A loop \in ForwardLoops : ReadsWithin(loop, x, U, W)
      /\ \A f \in W : Still("tails", x, f) /\ Still("locks", x, f)
  BY <1>0, <1>5, <1>6, <1>8, Persists
<1>10. \A f \in DOMAIN code : t[f].param_count \in Nat /\ u[f].param_count \in Nat
                              /\ v[f].param_count \in Nat /\ x[f].param_count \in Nat
  BY <1>2, <1>5, <1>8 DEF IsTable
<1>11. \A f \in DOMAIN code : Grown(t[f], x[f]) /\ x[f].ret_api = t[f].ret_api
  <2> SUFFICES ASSUME NEW f \in DOMAIN code PROVE Grown(t[f], x[f]) /\ x[f].ret_api = t[f].ret_api
    OBVIOUS
  <2>1. Grown(t[f], v[f])
    BY <1>2, <1>5, <1>10, GrowsOn
  <2>2. Grown(t[f], x[f])
    BY <1>8, <1>10, <2>1, GrowsOn
  <2> QED BY <1>2, <1>5, <1>8, <2>2
<1>12. \A f \in U : Alike(t[f], x[f])
  <2> SUFFICES ASSUME NEW f \in U PROVE Alike(t[f], x[f])
    OBVIOUS
  <2>1. Alike(t[f], v[f])
    BY <1>2, <1>5, <1>10, GrowsOn
  <2> QED BY <1>8, <1>10, <2>1, GrowsOn
<1>13. \A loop \in ForwardLoops : \A f \in U \cup W : Still(loop, x, f)
  <2>1. \A loop \in ForwardLoops : \A f \in U : Still(loop, x, f)
    BY <1>9 DEF ReadsWithin
  <2>2. \A loop \in ForwardLoops : \A f \in W : Still(loop, x, f)
    BY <1>0, <1>8, <1>9
  <2> QED BY <2>1, <2>2
<1> QED BY <1>8, <1>11, <1>12, <1>13

LEMMA ApiSettles ==
    ASSUME Maps, NEW t, IsTable(t), Len(code) \in Nat, DOMAIN code = 1..Len(code),
           NEW U \in SUBSET DOMAIN code, NEW W \in SUBSET DOMAIN code,
           \A loop \in ApiLoops : ReadsWithin(loop, t, U, W),
           NEW x, x = InOrder("handovers", InOrder("wrappers", t))
    PROVE  /\ IsTable(x)
           /\ \A f \in DOMAIN code : Grown(t[f], x[f]) /\ SameForward(t[f], x[f])
           /\ \A loop \in ApiLoops : \A f \in U \cup W : Still(loop, x, f)
<1> DEFINE u == InOrder("wrappers", t)
           N == Len(code)
<1>0. /\ {"wrappers", "handovers"} = ApiLoops /\ ApiLoops \subseteq Loops
      /\ \A f \in DOMAIN code : f <= N
  BY DEF ApiLoops, Loops
<1>1. Underway("wrappers", t, U, W, u, N)
  BY <1>0, LoopSettles
<1> HIDE DEF u
<1>2. /\ IsTable(u)
      /\ \A f \in DOMAIN code : Grown(t[f], u[f]) /\ SameForward(t[f], u[f])
      /\ \A f \in U : Alike(t[f], u[f])
      /\ \A f \in W : Still("wrappers", u, f)
  BY <1>0, <1>1 DEF Underway
<1>3. \A loop \in ApiLoops : ReadsWithin(loop, u, U, W)
  BY <1>0, <1>2, Persists
<1>4. Underway("handovers", u, U, W, x, N)
  BY <1>0, <1>2, <1>3, LoopSettles DEF u
<1>5. /\ IsTable(x)
      /\ \A f \in DOMAIN code : Grown(u[f], x[f]) /\ SameForward(u[f], x[f])
      /\ \A f \in U : Alike(u[f], x[f])
      /\ \A f \in W : Still("handovers", x, f)
  BY <1>0, <1>4 DEF Underway
<1>6. /\ \A loop \in ApiLoops : ReadsWithin(loop, x, U, W)
      /\ \A f \in W : Still("wrappers", x, f)
  BY <1>0, <1>2, <1>3, <1>5, Persists
<1>7. \A f \in DOMAIN code : t[f].param_count \in Nat /\ u[f].param_count \in Nat /\ x[f].param_count \in Nat
  BY <1>2, <1>5 DEF IsTable
<1>8. \A f \in DOMAIN code : Grown(t[f], x[f]) /\ SameForward(t[f], x[f])
  <2> SUFFICES ASSUME NEW f \in DOMAIN code PROVE Grown(t[f], x[f]) /\ SameForward(t[f], x[f])
    OBVIOUS
  <2>1. Grown(t[f], x[f])
    BY <1>2, <1>5, <1>7, GrowsOn
  <2> QED BY <1>2, <1>5, <2>1 DEF SameForward
<1>9. \A loop \in ApiLoops : \A f \in U \cup W : Still(loop, x, f)
  <2>1. \A loop \in ApiLoops : \A f \in U : Still(loop, x, f)
    BY <1>6 DEF ReadsWithin
  <2>2. \A loop \in ApiLoops : \A f \in W : Still(loop, x, f)
    BY <1>0, <1>5, <1>6
  <2> QED BY <2>1, <2>2
<1> QED BY <1>5, <1>8, <1>9

-----------------------------------------------------------------------------
(* Thunks and their targets.                                               *)

Target(f) == code[f][1].to

Linked(f) ==
    \A m \in {tail_of, lock_thunk_of, fwd_thunk_of} : f \in DOMAIN m /\ m[f] = Target(f)

\* x says no more than y.
ForwardBelow(x, y) ==
    /\ x.param_count <= y.param_count
    /\ x.ret_kind \in {"void", y.ret_kind}
    /\ x.lock_kind \in {"none", y.lock_kind}

ApiBelow(x, y) == x.ret_api \in {NoType, y.ret_api}

\* Whosever turn it is, a thunk says no more than its target.
LEMMA TurnBelow ==
    ASSUME Maps, NEW t, IsTable(t), NEW loop \in Loops, NEW n \in DOMAIN code,
           NEW x, x = Turn(loop, t, n),
           NEW f \in DOMAIN code, Linked(f), ~t[f].ret_only_from_call
    PROVE  /\ ForwardBelow(t[f], t[Target(f)]) => ForwardBelow(x[f], x[Target(f)])
           /\ ApiBelow(t[f], t[Target(f)]) => ApiBelow(x[f], x[Target(f)])
<1> DEFINE T == Target(f)
<1>1. T \in DOMAIN code /\ DOMAIN t = DOMAIN code
  BY DEF Maps, Linked, IsTable
<1>2. TurnDoes(loop, t, n, x)
  BY OneTurn
<1>3. t[f].param_count \in Nat /\ t[T].param_count \in Nat
  BY <1>1 DEF IsTable
<1>4. /\ \A g \in DOMAIN code \ {n} : x[g] = t[g]
      /\ Grown(t[n], x[n]) /\ Takes(loop, t, n, x) /\ x[n].param_count \in Nat
      /\ (loop \in ForwardLoops => x[n].ret_api = t[n].ret_api)
      /\ (loop \in ApiLoops => SameForward(t[n], x[n]))
  BY <1>1, <1>2 DEF TurnDoes
<1>5. loop # "wrappers" => Read(loop, t, f) = {T}
  <2>1. Targets(tail_of, f) = {T} /\ Targets(lock_thunk_of, f) = {T} /\ Targets(fwd_thunk_of, f) = {T}
    BY DEF Targets, Linked
  <2> QED BY <2>1 DEF Read, Loops, ForwardLoops, ApiLoops
<1> HIDE DEF T
<1>6. ASSUME n # f, n # T
      PROVE  x[f] = t[f] /\ x[T] = t[T]
  BY <1>1, <1>4, <1>6
<1>7. CASE T = f
  <2>1. x[f].param_count \in Nat
    BY <1>3, <1>4, <1>1
  <2> QED BY <1>7, <2>1 DEF ForwardBelow, ApiBelow, T
<1>8. CASE T # f /\ n = T
  <2>1. x[f] = t[f] /\ Grown(t[T], x[T]) /\ x[T].param_count \in Nat
    BY <1>4, <1>8
  <2>2. ForwardBelow(t[f], t[T]) => ForwardBelow(x[f], x[T])
    BY <1>3, <2>1 DEF ForwardBelow, Grown
  <2>3. ApiBelow(t[f], t[T]) => ApiBelow(x[f], x[T])
    BY <2>1 DEF ApiBelow, Grown
  <2> QED BY <2>2, <2>3 DEF T
<1>9. CASE T # f /\ n = f
  <2>1. x[T] = t[T]
    BY <1>1, <1>4, <1>9
  <2>2. CASE loop # "wrappers"
    <3>1. /\ x[f].param_count \in {t[f].param_count, t[T].param_count}
          /\ x[f].ret_kind \in {t[f].ret_kind, t[T].ret_kind}
          /\ x[f].lock_kind \in {t[f].lock_kind, t[T].lock_kind}
          /\ x[f].ret_api \in {t[f].ret_api, t[T].ret_api}
      BY <1>4, <1>5, <1>9, <2>2 DEF Takes
    <3>2. ForwardBelow(t[f], t[T]) => ForwardBelow(x[f], x[T])
      BY <1>3, <2>1, <3>1 DEF ForwardBelow
    <3>3. ApiBelow(t[f], t[T]) => ApiBelow(x[f], x[T])
      BY <2>1, <3>1 DEF ApiBelow
    <3> QED BY <3>2, <3>3 DEF T
  <2>3. CASE loop = "wrappers"
    <3>1. x[f].ret_api = t[f].ret_api /\ SameForward(t[f], x[f])
      BY <1>4, <1>9, <2>3 DEF Takes, OnlyHandsBack, ApiLoops
    <3> QED BY <1>3, <2>1, <3>1 DEF ForwardBelow, ApiBelow, SameForward, T
  <2> QED BY <2>2, <2>3
<1>10. CASE n # f /\ n # T
  BY <1>6, <1>10 DEF T
<1> QED BY <1>7, <1>8, <1>9, <1>10

LEMMA LoopBelow ==
    ASSUME Maps, NEW t, IsTable(t), NEW loop \in Loops, Len(code) \in Nat, DOMAIN code = 1..Len(code),
           NEW f \in DOMAIN code, Linked(f), ~t[f].ret_only_from_call,
           NEW x, x = InOrder(loop, t)
    PROVE  /\ IsTable(x) /\ ~x[f].ret_only_from_call
           /\ ForwardBelow(t[f], t[Target(f)]) => ForwardBelow(x[f], x[Target(f)])
           /\ ApiBelow(t[f], t[Target(f)]) => ApiBelow(x[f], x[Target(f)])
<1> DEFINE N == Len(code)
           T == Target(f)
<1>1. PICK turn : /\ turn[0] = t
                  /\ \A g \in 1..N : turn[g] = Turn(loop, turn[g - 1], g)
                  /\ InOrder(loop, t) = turn[N]
  BY Turns
<1> DEFINE Stays(u) == /\ IsTable(u) /\ ~u[f].ret_only_from_call
                       /\ ForwardBelow(t[f], t[T]) => ForwardBelow(u[f], u[T])
                       /\ ApiBelow(t[f], t[T]) => ApiBelow(u[f], u[T])
           Good == {n \in Nat : n <= N => Stays(turn[n])}
<1>2. 0 \in Good
  BY <1>1
<1>3. ASSUME NEW n \in Nat, n \in Good PROVE n + 1 \in Good
  <2> SUFFICES ASSUME n + 1 <= N PROVE Stays(turn[n + 1])
    OBVIOUS
  <2>1. n + 1 \in DOMAIN code /\ turn[n + 1] = Turn(loop, turn[n], n + 1)
    BY <1>1
  <2>2. Stays(turn[n])
    BY <1>3
  <2> DEFINE u == turn[n]
             v == turn[n + 1]
  <2> HIDE DEF u, v, T
  <2>3. /\ IsTable(u) /\ ~u[f].ret_only_from_call /\ v = Turn(loop, u, n + 1)
        /\ ForwardBelow(t[f], t[T]) => ForwardBelow(u[f], u[T])
        /\ ApiBelow(t[f], t[T]) => ApiBelow(u[f], u[T])
    BY <2>1, <2>2 DEF u, v
  <2>4. TurnDoes(loop, u, n + 1, v)
    BY <2>1, <2>3, OneTurn
  <2>5. IsTable(v) /\ ~v[f].ret_only_from_call
    BY <2>3, <2>4 DEF TurnDoes, IsTable, Grown, SameEvidence
  <2>6. /\ ForwardBelow(u[f], u[T]) => ForwardBelow(v[f], v[T])
        /\ ApiBelow(u[f], u[T]) => ApiBelow(v[f], v[T])
    BY <2>1, <2>3, TurnBelow DEF T
  <2> QED BY <2>3, <2>5, <2>6 DEF v
<1>4. N \in Good
  <2> HIDE DEF Good
  <2> QED BY <1>2, <1>3, CountUp
<1> QED BY <1>1, <1>4

-----------------------------------------------------------------------------
(* The scan.                                                               *)

\* A scan is its instructions, one after the other.
LEMMA Scans ==
    ASSUME NEW f, Len(code[f]) \in Nat
    PROVE  \E seen : /\ seen[0] = NotScanned
                     /\ \A i \in 1..Len(code[f]) : seen[i] = Passed(seen[i - 1], code[f][i])
                     /\ Scanned(f) = seen[Len(code[f])]
<1> DEFINE N == Len(code[f])
           Then(s, i) == Passed(s, code[f][i])
           Is(p, n) == p = [i \in 0..n |-> IF i = 0 THEN NotScanned ELSE Then(p[i - 1], i)]
           Done == {n \in Nat : \E p : Is(p, n)}
<1>1. N \in Nat
  OBVIOUS
<1> HIDE DEF N, Then
<1>2. 0 \in Done
  <2>1. Is([i \in 0..0 |-> NotScanned], 0)
    OBVIOUS
  <2>2. QED
    BY <2>1
<1>3. ASSUME NEW n \in Nat, n \in Done PROVE n + 1 \in Done
  <2>1. PICK p : Is(p, n)
    BY <1>3
  <2> DEFINE q == [i \in 0..(n + 1) |-> IF i = n + 1 THEN Then(p[n], n + 1) ELSE p[i]]
  <2>2. /\ n + 1 \in 0..(n + 1) /\ (n + 1) - 1 = n /\ n + 1 # 0 /\ n \in 0..n
        /\ \A i \in 0..n : i \in 0..(n + 1) /\ i # n + 1 /\ (i # 0 => i - 1 \in 0..n)
    OBVIOUS
  <2>3. q[n + 1] = Then(p[n], n + 1) /\ \A i \in 0..n : q[i] = p[i]
    BY <2>2
  <2>4. \A i \in 0..n : p[i] = IF i = 0 THEN NotScanned ELSE Then(p[i - 1], i)
    BY <2>1
  <2>5. q = [i \in 0..(n + 1) |-> q[i]]
    OBVIOUS
  <2> HIDE DEF q
  <2>6. \A i \in 0..(n + 1) : q[i] = IF i = 0 THEN NotScanned ELSE Then(q[i - 1], i)
    <3> SUFFICES ASSUME NEW i \in 0..(n + 1)
                 PROVE  q[i] = IF i = 0 THEN NotScanned ELSE Then(q[i - 1], i)
      OBVIOUS
    <3>1. CASE i = n + 1
      BY <2>2, <2>3, <3>1
    <3>2. CASE i \in 0..n
      BY <2>2, <2>3, <2>4, <3>2
    <3>3. QED
      BY <3>1, <3>2
  <2>7. Is(q, n + 1)
    BY <2>5, <2>6
  <2>8. QED
    <3> HIDE DEF Is
    <3>1. QED
      BY <2>7
<1>4. PICK p : Is(p, N)
  <2>1. N \in Done
    <3> HIDE DEF Done
    <3>1. QED
      BY <1>1, <1>2, <1>3, CountUp
  <2>2. QED
    BY <2>1
<1> DEFINE seen == CHOOSE g : Is(g, N)
<1>5. Scanned(f) = seen[N]
  BY DEF Scanned, N, Then
<1>6. Is(seen, N)
  <2> HIDE DEF Is
  <2>1. QED
    BY <1>4
<1> HIDE DEF seen
<1>7. \A i \in 0..N : seen[i] = IF i = 0 THEN NotScanned ELSE Then(seen[i - 1], i)
  BY <1>6
<1>8. seen[0] = NotScanned /\ \A i \in 1..N : seen[i] = Then(seen[i - 1], i)
  BY <1>1, <1>7
<1>9. QED
  BY <1>5, <1>8 DEF N, Then

\* The parts of a scan the signature's arity and the maps are made of.
ScanParts == {"written", "used", "xused", "homed", "stack", "tail", "local",
              "presub", "ptr", "xwritten", "xw", "rax", "xmm0"}

ScanOK(s) ==
    /\ ScanParts \subseteq DOMAIN s
    /\ s.used \subseteq Regs /\ s.xused \subseteq Regs /\ s.homed \subseteq Regs
    /\ s.stack \in Nat
    /\ s.tail \in DOMAIN code \cup {0} /\ s.local \in DOMAIN code \cup {0}

\* An instruction of a program.
IsInstruction(c) ==
    /\ c \in Instructions
    /\ c.op \in {"use", "deref", "home", "fuse", "copy"} => c.reg \in Regs
    /\ c.op \in {"call", "jump"} => c.to \in DOMAIN code
    /\ c.op \in {"api", "import_jump"} => c.to \in DOMAIN ApiType

\* One scan like another in what ScanOK says of it.
SameScan(s, r) ==
    /\ DOMAIN r = DOMAIN s /\ r.used = s.used /\ r.xused = s.xused /\ r.homed = s.homed
    /\ r.stack = s.stack /\ r.tail = s.tail /\ r.local = s.local

LEMMA SameScanOK ==
    ASSUME NEW s, ScanOK(s), NEW r, SameScan(s, r)
    PROVE  ScanOK(r)
BY DEF ScanOK, SameScan

LEMMA RetScan ==
    ASSUME NEW s, ScanOK(s)
    PROVE  ScanOK(AfterRet(s))
<1>1. SameScan(s, AfterRet(s))
  BY DEF AfterRet, SameScan, ScanOK, ScanParts
<1> QED BY <1>1, SameScanOK

LEMMA CallScan ==
    ASSUME NEW s, ScanOK(s), NEW c, IsInstruction(c), c.op \in {"call", "api", "indirect"}
    PROVE  ScanOK(AfterCall(s, c))
<1> DEFINE r == ResultOf(s, c)
<1>1. SameScan(s, r)
  BY DEF ResultOf, SameScan, ScanOK, ScanParts
<1>2. ScanOK(r)
  BY <1>1, SameScanOK
<1>3. Forwarded(s, KnownArity(c)) \subseteq Regs
  BY DEF Forwarded
<1> HIDE DEF r
<1> DEFINE u == AfterCall(s, c)
<1>4. /\ DOMAIN u = DOMAIN r /\ u.used = r.used \cup Forwarded(s, KnownArity(c))
      /\ u.xused = r.xused /\ u.homed = r.homed /\ u.stack = r.stack /\ u.tail = r.tail
      /\ u.local = IF c.op = "call" THEN c.to ELSE r.local
  BY <1>2 DEF AfterCall, ScanOK, ScanParts, r
<1> HIDE DEF u
<1>5. ScanOK(u)
  BY <1>2, <1>3, <1>4 DEF ScanOK, IsInstruction
<1> QED BY <1>5 DEF u

LEMMA JumpScan ==
    ASSUME NEW s, ScanOK(s), NEW c, IsInstruction(c), c.op = "jump"
    PROVE  ScanOK(AfterJump(s, c))
<1>1. Forwarded(s, KnownArity(c)) \subseteq Regs
  BY DEF Forwarded
<1> DEFINE u == AfterJump(s, c)
<1>2. /\ DOMAIN u = DOMAIN s /\ u.used = s.used \cup Forwarded(s, KnownArity(c))
      /\ u.xused = s.xused /\ u.homed = s.homed /\ u.stack = s.stack /\ u.tail = c.to
      /\ u.local = s.local
  BY DEF AfterJump, ScanOK, ScanParts
<1> HIDE DEF u
<1>3. ScanOK(u)
  BY <1>1, <1>2 DEF ScanOK, IsInstruction
<1> QED BY <1>3 DEF u

LEMMA ImportJumpScan ==
    ASSUME NEW s, ScanOK(s), NEW c
    PROVE  ScanOK(AfterImportJump(s, c))
<1>1. SameScan(s, AfterImportJump(s, c))
  BY DEF AfterImportJump, SameScan, ScanOK, ScanParts
<1> QED BY <1>1, SameScanOK

LEMMA ReadScan ==
    ASSUME NEW s, ScanOK(s), NEW p \in Regs
    PROVE  ScanOK(Reads(s, p))
<1>1. CASE p \in s.written
  BY <1>1 DEF Reads
<1>2. CASE p \notin s.written
  <2> DEFINE u == Reads(s, p)
  <2>1. /\ DOMAIN u = DOMAIN s /\ u.used = s.used \cup {p} /\ u.xused = s.xused
        /\ u.homed = s.homed /\ u.stack = s.stack /\ u.tail = s.tail /\ u.local = s.local
    BY <1>2 DEF Reads, ScanOK, ScanParts
  <2> HIDE DEF u
  <2>2. ScanOK(u)
    BY <2>1 DEF ScanOK
  <2> QED BY <2>2 DEF u
<1> QED BY <1>1, <1>2

LEMMA WriteScan ==
    ASSUME NEW s, ScanOK(s), NEW w
    PROVE  ScanOK(WritesRax(s, w))
<1>1. SameScan(s, WritesRax(s, w))
  BY DEF WritesRax, SameScan, ScanOK, ScanParts
<1> QED BY <1>1, SameScanOK

LEMMA HomeScan ==
    ASSUME NEW s, ScanOK(s), NEW p \in Regs
    PROVE  ScanOK(Homes(s, p))
<1> DEFINE u == Homes(s, p)
<1>1. /\ DOMAIN u = DOMAIN s /\ u.used = s.used \cup {p} /\ u.xused = s.xused
      /\ u.homed = s.homed \cup {p} /\ u.stack = s.stack /\ u.tail = s.tail /\ u.local = s.local
  BY DEF Homes, ScanOK, ScanParts
<1> HIDE DEF u
<1>2. ScanOK(u)
  BY <1>1 DEF ScanOK
<1> QED BY <1>2 DEF u

LEMMA OperandScan ==
    ASSUME NEW s, ScanOK(s), NEW c, IsInstruction(c)
    PROVE  ScanOK(AfterOperands(s, c))
<1> DEFINE u == AfterOperands(s, c)
<1>1. CASE c.op = "use"
  BY <1>1, ReadScan DEF AfterOperands, IsInstruction
<1>2. CASE c.op \in {"set", "lea"}
  <2>1. SameScan(s, u)
    BY <1>2 DEF AfterOperands, SameScan, ScanOK, ScanParts
  <2> QED BY <2>1, SameScanOK
<1>3. CASE c.op = "deref"
  <2> DEFINE r == Reads(s, c.reg)
  <2>1. ScanOK(r)
    BY <1>3, ReadScan DEF IsInstruction
  <2>2. u = (IF c.reg \in s.written THEN s ELSE [r EXCEPT !.ptr[c.reg] = IF @ = 0 THEN c.w ELSE @])
    BY <1>3 DEF AfterOperands
  <2> HIDE DEF r, u
  <2>3. u = s \/ SameScan(r, u)
    BY <2>1, <2>2 DEF SameScan, ScanOK, ScanParts
  <2>4. ScanOK(u)
    BY <2>1, <2>3, SameScanOK
  <2> QED BY <2>4 DEF u
<1>4. CASE c.op = "home"
  BY <1>4, HomeScan DEF AfterOperands, IsInstruction
<1>5. CASE c.op = "frame"
  <2>1. SameScan(s, u)
    BY <1>5 DEF AfterOperands, SameScan, ScanOK, ScanParts
  <2> QED BY <2>1, SameScanOK
<1>6. CASE c.op = "stack"
  <2>1. /\ DOMAIN u = DOMAIN s /\ u.used = s.used /\ u.xused = s.xused
        /\ u.homed = s.homed /\ u.stack = Larger(s.stack, c.w) /\ u.tail = s.tail /\ u.local = s.local
    BY <1>6 DEF AfterOperands, ScanOK, ScanParts
  <2>2. c.w \in Nat
    BY DEF IsInstruction, Instructions
  <2> HIDE DEF u
  <2>3. ScanOK(u)
    BY <2>1, <2>2 DEF ScanOK, Larger
  <2> QED BY <2>3 DEF u
<1>7. CASE c.op = "fuse"
  <2>1. CASE c.reg \in s.xwritten
    BY <1>7, <2>1 DEF AfterOperands
  <2>2. CASE c.reg \notin s.xwritten
    <3>1. /\ DOMAIN u = DOMAIN s /\ u.used = s.used /\ u.xused = s.xused \cup {c.reg}
          /\ u.homed = s.homed /\ u.stack = s.stack /\ u.tail = s.tail /\ u.local = s.local
      BY <1>7, <2>2 DEF AfterOperands, ScanOK, ScanParts
    <3>2. c.reg \in Regs
      BY <1>7 DEF IsInstruction
    <3> HIDE DEF u
    <3>3. ScanOK(u)
      BY <3>1, <3>2 DEF ScanOK
    <3> QED BY <3>3 DEF u
  <2> QED BY <2>1, <2>2
<1>8. CASE c.op = "fset"
  <2>1. SameScan(s, u)
    BY <1>8 DEF AfterOperands, SameScan, ScanOK, ScanParts
  <2> QED BY <2>1, SameScanOK
<1>9. CASE c.op = "value"
  BY <1>9, WriteScan DEF AfterOperands
<1>10. CASE c.op = "copy"
  <2> DEFINE r == WritesRax(Reads(s, c.reg), 8)
  <2>1. ScanOK(r)
    BY <1>10, ReadScan, WriteScan DEF IsInstruction
  <2>2. u = [r EXCEPT !.param_copy = s.rax_writes = 0]
    BY <1>10 DEF AfterOperands
  <2> HIDE DEF r, u
  <2>3. SameScan(r, u)
    BY <2>1, <2>2 DEF SameScan, ScanOK, ScanParts
  <2>4. ScanOK(u)
    BY <2>1, <2>3, SameScanOK
  <2> QED BY <2>4 DEF u
<1>11. CASE c.op = "divide"
  <2>1. SameScan(s, u)
    BY <1>11 DEF AfterOperands, Divides, SameScan, ScanOK, ScanParts
  <2> QED BY <2>1, SameScanOK
<1>12. CASE c.op \in {"test", "store", "fstore"}
  <2>1. SameScan(s, u)
    BY <1>12 DEF AfterOperands, SameScan, ScanOK, ScanParts
  <2> QED BY <2>1, SameScanOK
<1>13. CASE c.op \notin {"use", "set", "lea", "deref", "home", "frame", "stack", "fuse", "fset", "value",
                         "copy", "divide", "test", "store", "fstore"}
  BY <1>13 DEF AfterOperands
<1> QED
  BY <1>1, <1>2, <1>3, <1>4, <1>5, <1>6, <1>7, <1>8, <1>9, <1>10, <1>11, <1>12, <1>13

LEMMA PassScan ==
    ASSUME NEW s, ScanOK(s), NEW c, IsInstruction(c)
    PROVE  ScanOK(Passed(s, c))
<1> DEFINE r == After(s, c)
<1>1. ScanOK(r)
  BY RetScan, CallScan, JumpScan, ImportJumpScan, OperandScan DEF After
<1> HIDE DEF r
<1> DEFINE u == Passed(s, c)
<1>2. SameScan(r, u)
  BY <1>1 DEF Passed, SameScan, ScanOK, ScanParts, r
<1> HIDE DEF u
<1>3. ScanOK(u)
  BY <1>1, <1>2, SameScanOK
<1> QED BY <1>3 DEF u

LEMMA ScannedOK ==
    ASSUME NEW f, Len(code[f]) \in Nat, \A i \in 1..Len(code[f]) : IsInstruction(code[f][i])
    PROVE  ScanOK(Scanned(f))
<1> DEFINE N == Len(code[f])
<1>1. PICK seen : /\ seen[0] = NotScanned
                  /\ \A i \in 1..N : seen[i] = Passed(seen[i - 1], code[f][i])
                  /\ Scanned(f) = seen[N]
  BY Scans
<1> DEFINE Good == {n \in Nat : n <= N => ScanOK(seen[n])}
<1>2. 0 \in Good
  <2>1. ScanOK(NotScanned)
    BY DEF ScanOK, NotScanned, ScanParts
  <2> QED BY <1>1, <2>1
<1>3. ASSUME NEW n \in Nat, n \in Good PROVE n + 1 \in Good
  <2> SUFFICES ASSUME n + 1 <= N PROVE ScanOK(seen[n + 1])
    OBVIOUS
  <2>1. n + 1 \in 1..N /\ seen[n + 1] = Passed(seen[n], code[f][n + 1])
    BY <1>1
  <2>2. ScanOK(seen[n])
    BY <1>3
  <2> QED BY <2>1, <2>2, PassScan
<1>4. N \in Good
  <2> HIDE DEF Good
  <2> QED BY <1>2, <1>3, CountUp
<1> QED BY <1>1, <1>4

-----------------------------------------------------------------------------
(* The signature.                                                          *)

LEMMA HighestIs ==
    ASSUME NEW S \in SUBSET Regs
    PROVE  /\ Highest(S) \in Nat
           /\ S = {} => Highest(S) = 0
           /\ S # {} => \E p \in S : Highest(S) = p + 1
<1>1. CASE S = {}
  BY <1>1 DEF Highest
<1>2. CASE S # {}
  <2>1. S \in SUBSET {0, 1, 2, 3}
    BY DEF Regs
  <2>2. \E p \in S : \A q \in S : q <= p
    <3>1. CASE 3 \in S
      BY <2>1, <3>1
    <3>2. CASE 3 \notin S /\ 2 \in S
      BY <2>1, <3>2
    <3>3. CASE 3 \notin S /\ 2 \notin S /\ 1 \in S
      BY <2>1, <3>3
    <3>4. CASE 1 \notin S /\ 2 \notin S /\ 3 \notin S
      <4>1. \A q \in S : q = 0
        BY <2>1, <3>4
      <4>2. PICK p \in S : TRUE
        BY <1>2
      <4> QED BY <4>1, <4>2
    <3> QED BY <3>1, <3>2, <3>3, <3>4
  <2> DEFINE m == CHOOSE p \in S : \A q \in S : q <= p
  <2>3. m \in S
    BY <2>2
  <2>4. Highest(S) = 1 + m
    BY <1>2 DEF Highest
  <2> HIDE DEF m
  <2> QED BY <1>2, <2>1, <2>3, <2>4
<1> QED BY <1>1, <1>2

LEMMA SignatureOK ==
    ASSUME NEW s, ScanOK(s)
    PROVE  /\ Fields \subseteq DOMAIN Signature(s)
           /\ Signature(s).param_count \in Nat
           /\ LockThunk(s) \in DOMAIN code \cup {0}
<1>1. Fields \subseteq DOMAIN Signature(s) /\ Signature(s).param_count = ParamCount(s)
  BY DEF Signature, Fields
<1>2. /\ s.homed \in SUBSET Regs /\ s.used \cup s.xused \in SUBSET Regs /\ FloatArgs(s) \in SUBSET Regs
      /\ s.stack \in Nat
  BY DEF ScanOK, FloatArgs
<1>3. Highest(s.homed) \in Nat /\ Highest(s.used \cup s.xused) \in Nat /\ Highest(FloatArgs(s)) \in Nat
  BY <1>2, HighestIs
<1>4. ParamCount(s) \in Nat
  BY <1>2, <1>3 DEF ParamCount, Larger
<1>5. LockThunk(s) \in DOMAIN code \cup {0}
  BY DEF LockThunk, ScanOK
<1> QED BY <1>1, <1>4, <1>5

\* What the scan of a thunk yields.
LEMMA ThunkScan ==
    ASSUME NEW f \in DOMAIN code, Thunk(f), IsInstruction(code[f][1]),
           \A g \in DOMAIN tab : tab[g].param_count \in Nat,
           NEW s, s = Scanned(f), NEW sig, sig = Signature(s)
    PROVE  /\ s.tail = Target(f) /\ s.written = {} /\ LockThunk(s) = Target(f)
           /\ sig.ret_kind = "void" /\ sig.lock_kind = "none" /\ sig.ret_api = NoType
           /\ ~sig.ret_only_from_call
           /\ Target(f) \in DOMAIN tab => sig.param_count <= tab[Target(f)].param_count
           /\ Target(f) \notin DOMAIN tab => sig.param_count = 0
<1> DEFINE c == code[f][1]
           T == Target(f)
           arity == KnownArity(c)
<1>1. Len(code[f]) = 1 /\ c.op = "jump" /\ c.to = T
  BY DEF Thunk, Target
<1>2. s = Passed(NotScanned, c)
  <2>1. PICK seen : /\ seen[0] = NotScanned
                    /\ \A i \in 1..Len(code[f]) : seen[i] = Passed(seen[i - 1], code[f][i])
                    /\ Scanned(f) = seen[Len(code[f])]
    <3>1. Len(code[f]) \in Nat
      BY <1>1
    <3> QED BY <3>1, Scans
  <2>2. 1 \in 1..Len(code[f]) /\ Scanned(f) = seen[1] /\ seen[1] = Passed(seen[0], c)
    BY <1>1, <2>1
  <2> QED BY <2>1, <2>2
<1>3. arity = IF T \in DOMAIN tab THEN tab[T].param_count ELSE 0
  BY <1>1 DEF KnownArity
<1>4. arity \in Nat
  BY <1>3
<1>5. After(NotScanned, c) = AfterJump(NotScanned, c)
  BY <1>1 DEF After
<1> HIDE DEF c, T, arity
<1>6. /\ NotScanned.written = {} /\ NotScanned.used = {} /\ NotScanned.xused = {} /\ NotScanned.homed = {}
      /\ NotScanned.stack = 0 /\ NotScanned.calls = 0 /\ NotScanned.tail_lock = "none"
      /\ NotScanned.has_ret = FALSE /\ NotScanned.only_from_call = FALSE /\ NotScanned.tail = 0
      /\ {"written", "used", "xused", "homed", "stack", "calls", "tail_lock", "has_ret", "only_from_call",
          "tail", "inherit", "at", "last"} \subseteq DOMAIN NotScanned
  BY DEF NotScanned
<1> DEFINE r == AfterJump(NotScanned, c)
<1>7. /\ r.written = {} /\ r.used = Forwarded(NotScanned, arity) /\ r.xused = {} /\ r.homed = {}
      /\ r.stack = 0 /\ r.calls = 0 /\ r.tail_lock = "none" /\ r.has_ret = FALSE
      /\ r.only_from_call = FALSE /\ r.tail = T /\ DOMAIN r = DOMAIN NotScanned
  <2> HIDE DEF NotScanned
  <2> QED BY <1>1, <1>6 DEF AfterJump, arity
<1> HIDE DEF r
<1>8. /\ s.written = {} /\ s.used = Forwarded(NotScanned, arity) /\ s.xused = {} /\ s.homed = {}
      /\ s.stack = 0 /\ s.calls = 0 /\ s.tail_lock = "none" /\ s.has_ret = FALSE
      /\ s.only_from_call = FALSE /\ s.tail = T
  <2>1. s = [r EXCEPT !.at = NotScanned.at + 1, !.last = c.op]
    BY <1>2, <1>5 DEF Passed, r
  <2> HIDE DEF NotScanned
  <2> QED BY <1>6, <1>7, <2>1
<1>9. s.used = {p \in Regs : p < arity}
  BY <1>6, <1>8 DEF Forwarded
<1>10. Highest(s.used) \in Nat /\ Highest(s.used) <= arity
  <2>1. s.used \in SUBSET Regs
    BY <1>9
  <2>2. /\ Highest(s.used) \in Nat
        /\ s.used = {} => Highest(s.used) = 0
        /\ s.used # {} => \E p \in s.used : Highest(s.used) = p + 1
    BY <2>1, HighestIs
  <2>3. \A p \in s.used : p \in Nat /\ p < arity
    BY <1>9 DEF Regs
  <2> QED BY <1>4, <2>2, <2>3
<1>11. ParamCount(s) = Highest(s.used)
  <2>1. FloatArgs(s) = {} /\ s.used \cup s.xused = s.used /\ Highest({}) = 0
    BY <1>8 DEF FloatArgs, Highest
  <2> HIDE DEF Highest
  <2> QED BY <1>8, <1>10, <2>1 DEF ParamCount, Larger
<1>12. LockKind(s) = "none" /\ RetKind(s) = "void"
  BY <1>8 DEF LockKind, RetKind
<1>13. LockThunk(s) = T
  BY <1>8, <1>12 DEF LockThunk
<1>14. /\ sig.param_count = ParamCount(s) /\ sig.ret_kind = RetKind(s) /\ sig.lock_kind = LockKind(s)
       /\ sig.ret_api = NoType /\ sig.ret_only_from_call = s.only_from_call
  BY DEF Signature
<1>15. sig.param_count <= arity /\ sig.param_count \in Nat
  BY <1>10, <1>11, <1>14
<1> QED BY <1>3, <1>4, <1>8, <1>12, <1>13, <1>14, <1>15 DEF T

-----------------------------------------------------------------------------
(* The invariant.                                                          *)

Stages == {"scan", "sret", "forward", "void", "seed", "api", "done"}

SigTypeOK ==
    /\ code \in SigPrograms
    /\ stage \in Stages /\ round \in Nat
    /\ stage = "scan" => (\E L : tab \in Seq(L)) /\ Len(tab) < Len(code)
    /\ stage # "scan" => DOMAIN tab = DOMAIN code
    /\ stage \in {"scan", "sret", "void", "seed"} => round = 0
    /\ stage = "forward" => round < ForwardRounds
    /\ stage = "api" => round < ApiRounds
    /\ \A f \in DOMAIN tab : Fields \subseteq DOMAIN tab[f] /\ tab[f].param_count \in Nat
    /\ Maps

\* A thunk follows its target in every map, and says no more than it.
ThunkInv ==
    \A f \in DOMAIN tab : Thunk(f) =>
        LET T == Target(f) IN
        /\ Linked(f)
        /\ ~tab[f].ret_only_from_call
        /\ stage \notin {"api", "done"} => tab[f].ret_api = NoType
        /\ stage = "scan" => tab[f].ret_kind = "void" /\ tab[f].lock_kind = "none"
        /\ T \notin DOMAIN tab => tab[f].param_count = 0
        /\ T \in DOMAIN tab =>
              /\ ApiBelow(tab[f], tab[T])
              /\ stage \in {"scan", "sret", "forward", "void"} \/ tab[T].ret_call_target # T
                    => ForwardBelow(tab[f], tab[T])

\* Ranks of functions: what the loops read for one has a lower rank.
Ranks(t, loops, rank) ==
    \A f \in DOMAIN rank : \A loop \in loops : \A g \in Read(loop, t, f) \ {f} :
        g \in DOMAIN rank /\ rank[g] < rank[f]

\* The rounds so far have settled the functions up to rank n.
SettledTo(t, loops, highest, n) ==
    \A C \in SUBSET DOMAIN code : \A rank \in [C -> 0..highest] :
        Ranks(t, loops, rank) =>
            \A f \in C : rank[f] <= n => \A loop \in loops : Still(loop, t, f)

\* f is at the end of chains that the rounds can follow.
Short(t, loops, highest, f) ==
    \E C \in SUBSET DOMAIN code : \E rank \in [C -> 0..highest] : Ranks(t, loops, rank) /\ f \in C

\* A thunk at the end of such chains takes, returns and locks what its target does.
ForwardAgrees(f) ==
    Thunk(f) /\ Short(tab, ForwardLoops, ForwardRounds, f) /\ tab[Target(f)].ret_call_target # Target(f)
        => SameForward(tab[Target(f)], tab[f])

ForwardInv ==
    /\ stage = "forward" => SettledTo(tab, ForwardLoops, ForwardRounds, round)
    /\ stage = "void" => SettledTo(tab, ForwardLoops, ForwardRounds, ForwardRounds)
    /\ stage \in {"seed", "api", "done"} => \A f \in DOMAIN code : ForwardAgrees(f)

ApiInv ==
    /\ stage = "api" => SettledTo(tab, ApiLoops, ApiRounds, round)
    /\ stage = "done" => SettledTo(tab, ApiLoops, ApiRounds, ApiRounds)

SigInv == SigTypeOK /\ ThunkInv /\ ForwardInv /\ ApiInv

\* A function that reads no other has nothing to do.
LEMMA SelfStill ==
    ASSUME NEW t, NEW loop \in Loops, NEW f, t[f].param_count \in Nat, Read(loop, t, f) \subseteq {f}
    PROVE  Still(loop, t, f)
<1>1. t[f].param_count <= t[f].param_count
  OBVIOUS
<1> QED BY <1>1 DEF Still

LEMMA SameRanks ==
    ASSUME NEW t, NEW u, DOMAIN t = DOMAIN code, DOMAIN u = DOMAIN t,
           \A f \in DOMAIN code : SameEvidence(t[f], u[f]),
           NEW loops, NEW C \in SUBSET DOMAIN code, NEW highest, NEW rank \in [C -> 0..highest]
    PROVE  Ranks(t, loops, rank) <=> Ranks(u, loops, rank)
<1>1. \A f \in DOMAIN code : /\ t[f].ret_call_target = u[f].ret_call_target
                             /\ OnlyHandsBack(t[f]) <=> OnlyHandsBack(u[f])
  BY DEF SameEvidence, OnlyHandsBack
<1>2. \A f \in DOMAIN rank : \A loop \in loops : Read(loop, t, f) = Read(loop, u, f)
  BY <1>1 DEF Read
<1> QED BY <1>2 DEF Ranks

UpTo(C, rank, n) == {f \in C : rank[f] <= n}

\* The functions up to rank n read only one another, and those of the next rank
\* only these.
LEMMA RanksRead ==
    ASSUME NEW t, IsTable(t), NEW loops, NEW highest \in Nat, NEW n \in Nat,
           SettledTo(t, loops, highest, n),
           NEW C \in SUBSET DOMAIN code, NEW rank \in [C -> 0..highest], Ranks(t, loops, rank)
    PROVE  \A loop \in loops : ReadsWithin(loop, t, UpTo(C, rank, n), UpTo(C, rank, n + 1))
<1> DEFINE U == UpTo(C, rank, n)
           W == UpTo(C, rank, n + 1)
<1> SUFFICES ASSUME NEW loop \in loops PROVE ReadsWithin(loop, t, U, W)
  OBVIOUS
<1>1. \A f \in C : rank[f] \in Nat /\ (\A g \in Read(loop, t, f) \ {f} : g \in C /\ rank[g] < rank[f])
  BY DEF Ranks
<1>2. \A f \in U : Still(loop, t, f)
  BY DEF SettledTo, UpTo
<1>3. \A f \in U : Read(loop, t, f) \subseteq U \cup {f}
  <2> SUFFICES ASSUME NEW f \in U, NEW g \in Read(loop, t, f), g # f PROVE g \in U
    OBVIOUS
  <2>1. f \in C /\ rank[f] <= n /\ rank[f] \in Nat /\ g \in C /\ rank[g] < rank[f] /\ rank[g] \in Nat
    BY <1>1 DEF UpTo
  <2> QED BY <2>1 DEF UpTo
<1>4. \A f \in W : Read(loop, t, f) \subseteq U \cup {f}
  <2> SUFFICES ASSUME NEW f \in W, NEW g \in Read(loop, t, f), g # f PROVE g \in U
    OBVIOUS
  <2>1. f \in C /\ rank[f] <= n + 1 /\ rank[f] \in Nat /\ g \in C /\ rank[g] < rank[f] /\ rank[g] \in Nat
    BY <1>1 DEF UpTo
  <2> QED BY <2>1 DEF UpTo
<1> QED BY <1>2, <1>3, <1>4 DEF ReadsWithin

\* Before any round the functions of rank 0 are settled.
LEMMA NoneSettled ==
    ASSUME NEW t, IsTable(t), NEW loops \in SUBSET Loops, NEW highest \in Nat
    PROVE  SettledTo(t, loops, highest, 0)
<1> SUFFICES ASSUME NEW C \in SUBSET DOMAIN code, NEW rank \in [C -> 0..highest], Ranks(t, loops, rank),
                    NEW f \in C, rank[f] <= 0, NEW loop \in loops
             PROVE  Still(loop, t, f)
  BY DEF SettledTo
<1>1. \A g \in Read(loop, t, f) \ {f} : g \in C /\ rank[g] < rank[f]
  BY DEF Ranks
<1>2. Read(loop, t, f) \subseteq {f}
  BY <1>1
<1>3. t[f].param_count \in Nat
  BY DEF IsTable
<1> QED BY <1>2, <1>3, SelfStill

\* A round settles one rank more.
LEMMA ForwardRoundUp ==
    ASSUME Maps, NEW t, IsTable(t), Len(code) \in Nat, DOMAIN code = 1..Len(code),
           NEW highest \in Nat, NEW n \in Nat, SettledTo(t, ForwardLoops, highest, n),
           NEW x, x = InOrder("thunks", InOrder("locks", InOrder("tails", t)))
    PROVE  /\ SettledTo(x, ForwardLoops, highest, n + 1)
           /\ IsTable(x)
           /\ \A f \in DOMAIN code : Grown(t[f], x[f]) /\ x[f].ret_api = t[f].ret_api
<1>1. /\ IsTable(x)
      /\ \A f \in DOMAIN code : Grown(t[f], x[f]) /\ x[f].ret_api = t[f].ret_api
  <2>1. \A loop \in ForwardLoops : ReadsWithin(loop, t, {}, {})
    BY DEF ReadsWithin
  <2> QED BY <2>1, ForwardSettles
<1>2. DOMAIN t = DOMAIN code /\ DOMAIN x = DOMAIN code /\ \A f \in DOMAIN code : SameEvidence(t[f], x[f])
  BY <1>1 DEF IsTable, Grown
<1>3. ASSUME NEW C \in SUBSET DOMAIN code, NEW rank \in [C -> 0..highest], Ranks(x, ForwardLoops, rank),
             NEW f \in C, rank[f] <= n + 1, NEW loop \in ForwardLoops
      PROVE  Still(loop, x, f)
  <2>1. Ranks(t, ForwardLoops, rank)
    BY <1>2, <1>3, SameRanks
  <2> DEFINE U == UpTo(C, rank, n)
             W == UpTo(C, rank, n + 1)
  <2>2. \A l \in ForwardLoops : ReadsWithin(l, t, U, W)
    BY <2>1, RanksRead
  <2>3. U \in SUBSET DOMAIN code /\ W \in SUBSET DOMAIN code /\ f \in W
    BY <1>3 DEF UpTo
  <2> HIDE DEF U, W
  <2>4. \A l \in ForwardLoops : \A g \in U \cup W : Still(l, x, g)
    BY <2>2, <2>3, ForwardSettles
  <2> QED BY <2>3, <2>4
<1>4. SettledTo(x, ForwardLoops, highest, n + 1)
  BY <1>3 DEF SettledTo
<1> QED BY <1>1, <1>4

LEMMA ApiRoundUp ==
    ASSUME Maps, NEW t, IsTable(t), Len(code) \in Nat, DOMAIN code = 1..Len(code),
           NEW highest \in Nat, NEW n \in Nat, SettledTo(t, ApiLoops, highest, n),
           NEW x, x = InOrder("handovers", InOrder("wrappers", t))
    PROVE  /\ SettledTo(x, ApiLoops, highest, n + 1)
           /\ IsTable(x)
           /\ \A f \in DOMAIN code : Grown(t[f], x[f]) /\ SameForward(t[f], x[f])
<1>1. /\ IsTable(x)
      /\ \A f \in DOMAIN code : Grown(t[f], x[f]) /\ SameForward(t[f], x[f])
  <2>1. \A loop \in ApiLoops : ReadsWithin(loop, t, {}, {})
    BY DEF ReadsWithin
  <2> QED BY <2>1, ApiSettles
<1>2. DOMAIN t = DOMAIN code /\ DOMAIN x = DOMAIN code /\ \A f \in DOMAIN code : SameEvidence(t[f], x[f])
  BY <1>1 DEF IsTable, Grown
<1>3. ASSUME NEW C \in SUBSET DOMAIN code, NEW rank \in [C -> 0..highest], Ranks(x, ApiLoops, rank),
             NEW f \in C, rank[f] <= n + 1, NEW loop \in ApiLoops
      PROVE  Still(loop, x, f)
  <2>1. Ranks(t, ApiLoops, rank)
    BY <1>2, <1>3, SameRanks
  <2> DEFINE U == UpTo(C, rank, n)
             W == UpTo(C, rank, n + 1)
  <2>2. \A l \in ApiLoops : ReadsWithin(l, t, U, W)
    BY <2>1, RanksRead
  <2>3. U \in SUBSET DOMAIN code /\ W \in SUBSET DOMAIN code /\ f \in W
    BY <1>3 DEF UpTo
  <2> HIDE DEF U, W
  <2>4. \A l \in ApiLoops : \A g \in U \cup W : Still(l, x, g)
    BY <2>2, <2>3, ApiSettles
  <2> QED BY <2>3, <2>4
<1>4. SettledTo(x, ApiLoops, highest, n + 1)
  BY <1>3 DEF SettledTo
<1> QED BY <1>1, <1>4

\* When a round changes nothing, every rank is settled.
LEMMA QuietSettles ==
    ASSUME Maps, NEW t, IsTable(t), Len(code) \in Nat, DOMAIN code = 1..Len(code),
           NEW highest \in Nat, t = InOrder("handovers", InOrder("wrappers", t)), NEW n \in Nat
    PROVE  SettledTo(t, ApiLoops, highest, n)
<1> DEFINE Good == {m \in Nat : SettledTo(t, ApiLoops, highest, m)}
<1>1. 0 \in Good
  BY NoneSettled DEF Loops
<1>2. ASSUME NEW m \in Nat, m \in Good PROVE m + 1 \in Good
  BY <1>2, ApiRoundUp
<1>3. n \in Good
  <2> HIDE DEF Good
  <2> QED BY <1>1, <1>2, CountUp
<1> QED BY <1>3

-----------------------------------------------------------------------------
(* The steps.                                                              *)

LEMMA Typed ==
    ASSUME SigTypeOK
    PROVE  /\ Len(code) \in Nat /\ Len(code) # 0 /\ DOMAIN code = 1..Len(code)
           /\ \A f \in DOMAIN code : /\ Len(code[f]) \in Nat
                                     /\ \A i \in 1..Len(code[f]) : IsInstruction(code[f][i])
           /\ stage # "scan" => IsTable(tab)
           /\ Maps
<1>1. code \in Seq(Seq(Instructions)) /\ code # <<>> /\ IsProgram(code)
  BY DEF SigTypeOK, SigPrograms, IsProgram
<1>2. Len(code) \in Nat /\ Len(code) # 0 /\ DOMAIN code = 1..Len(code)
  BY <1>1
<1>3. ASSUME NEW f \in DOMAIN code
      PROVE  Len(code[f]) \in Nat /\ \A i \in 1..Len(code[f]) : IsInstruction(code[f][i])
  <2>1. code[f] \in Seq(Instructions)
    BY <1>1, <1>2
  <2>2. Len(code[f]) \in Nat /\ DOMAIN code[f] = 1..Len(code[f])
    BY <2>1
  <2>3. ASSUME NEW i \in DOMAIN code[f] PROVE IsInstruction(code[f][i])
    <3>1. code[f][i] \in Instructions
      BY <2>1, <2>2
    <3> QED BY <1>1, <3>1 DEF IsProgram, IsInstruction
  <2> QED BY <2>2, <2>3
<1>4. stage # "scan" => IsTable(tab)
  BY DEF SigTypeOK, IsTable
<1>5. Maps
  BY DEF SigTypeOK
<1> QED BY <1>2, <1>3, <1>4, <1>5

\* What a step that leaves the program and the maps alone leaves alone.
LEMMA SameMaps ==
    ASSUME UNCHANGED <<code, tail_of, lock_thunk_of, fwd_thunk_of>>
    PROVE  /\ Maps' <=> Maps
           /\ \A f : (Thunk(f)' <=> Thunk(f)) /\ Target(f)' = Target(f) /\ (Linked(f)' <=> Linked(f))
           /\ \A loop, f : Read(loop, tab, f)' = Read(loop, tab', f)
<1>1. Maps' <=> Maps
  BY DEF Maps
<1>2. \A f : (Thunk(f)' <=> Thunk(f)) /\ Target(f)' = Target(f) /\ (Linked(f)' <=> Linked(f))
  BY DEF Thunk, Target, Linked
<1>3. \A loop, f : Read(loop, tab, f)' = Read(loop, tab', f)
  BY DEF Read, Targets
<1> QED BY <1>1, <1>2, <1>3

LEMMA SameRounds ==
    ASSUME UNCHANGED <<code, tail_of, lock_thunk_of, fwd_thunk_of>>,
           NEW loops, NEW highest
    PROVE  /\ \A n : SettledTo(tab', loops, highest, n) => SettledTo(tab, loops, highest, n)'
           /\ \A f : Short(tab, loops, highest, f)' => Short(tab', loops, highest, f)
<1>1. \A loop, f : Read(loop, tab, f)' = Read(loop, tab', f)
  BY SameMaps
<1>2. \A loop, f : Still(loop, tab', f) => Still(loop, tab, f)'
  BY <1>1 DEF Still
<1>3. \A rank : Ranks(tab, loops, rank)' <=> Ranks(tab', loops, rank)
  BY <1>1 DEF Ranks
<1>4. \A n : SettledTo(tab', loops, highest, n) => SettledTo(tab, loops, highest, n)'
  BY <1>2, <1>3 DEF SettledTo
<1>5. \A f : Short(tab, loops, highest, f)' => Short(tab', loops, highest, f)
  BY <1>3 DEF Short
<1> QED BY <1>4, <1>5

LEMMA SigInit ==
    ASSUME SigStarts(SigPrograms)
    PROVE  SigInv
<1>1. code \in Seq(Seq(Instructions)) /\ code # <<>>
  BY DEF SigStarts, SigPrograms, IsProgram
<1>2. Len(code) \in Nat /\ Len(code) > 0
  BY <1>1
<1>3. DOMAIN tab = {} /\ tab \in Seq({}) /\ Len(tab) = 0
  BY DEF SigStarts
<1>4. Maps
  BY DEF SigStarts, Maps
<1>5. SigTypeOK
  BY <1>2, <1>3, <1>4 DEF SigTypeOK, SigStarts, Stages
<1>6. ThunkInv
  BY <1>3 DEF ThunkInv
<1>7. ForwardInv /\ ApiInv
  BY DEF ForwardInv, ApiInv, SigStarts
<1> QED BY <1>5, <1>6, <1>7 DEF SigInv

LEMMA WithMap ==
    ASSUME 0 \notin DOMAIN code, NEW f \in DOMAIN code, NEW target \in DOMAIN code \cup {0}, NEW map,
           DOMAIN map \subseteq DOMAIN code, \A g \in DOMAIN map : map[g] \in DOMAIN code,
           NEW m, m = With(map, f, target)
    PROVE  /\ DOMAIN m \subseteq DOMAIN code /\ \A g \in DOMAIN m : m[g] \in DOMAIN code
           /\ \A g \in DOMAIN map \ {f} : g \in DOMAIN m /\ m[g] = map[g]
           /\ target # 0 => f \in DOMAIN m /\ m[f] = target
BY DEF With

LEMMA ScanKeeps ==
    ASSUME SigInv, ScanFunction
    PROVE  SigInv'
<1>0. PICK f, s, sig : f = Len(tab) + 1 /\ s = Scanned(f) /\ sig = Signature(s)
  OBVIOUS
<1>1. SigTypeOK /\ ThunkInv /\ stage = "scan" /\ code' = code /\ round' = round /\ round = 0
  BY DEF SigInv, ScanFunction, SigTypeOK
<1>2. PICK L : tab \in Seq(L)
  BY <1>1 DEF SigTypeOK
<1>3. Len(tab) \in Nat /\ DOMAIN tab = 1..Len(tab) /\ Len(tab) < Len(code)
  BY <1>1, <1>2 DEF SigTypeOK
<1>4. /\ Len(code) \in Nat /\ DOMAIN code = 1..Len(code) /\ 0 \notin DOMAIN code /\ Maps
      /\ \A g \in DOMAIN code : /\ Len(code[g]) \in Nat
                                /\ \A i \in 1..Len(code[g]) : IsInstruction(code[g][i])
  BY <1>1, Typed
<1>5. f \in DOMAIN code /\ f \notin DOMAIN tab /\ f \in Nat /\ DOMAIN tab \subseteq DOMAIN code
  BY <1>0, <1>3, <1>4
<1>6. /\ tab' = Append(tab, sig)
      /\ tail_of' = With(tail_of, f, s.tail)
      /\ lock_thunk_of' = With(lock_thunk_of, f, LockThunk(s))
      /\ fwd_thunk_of' = With(fwd_thunk_of, f, IF s.written = {} THEN s.tail ELSE 0)
      /\ stage' = IF f = Len(code) THEN "sret" ELSE "scan"
  BY <1>0 DEF ScanFunction
<1>7. ScanOK(s)
  BY <1>0, <1>4, <1>5, ScannedOK
<1>8. /\ Fields \subseteq DOMAIN sig /\ sig.param_count \in Nat /\ LockThunk(s) \in DOMAIN code \cup {0}
      /\ s.tail \in DOMAIN code \cup {0}
  BY <1>0, <1>7, SignatureOK DEF ScanOK
<1>9. Thunk(f) =>
         /\ s.tail = Target(f) /\ s.written = {} /\ LockThunk(s) = Target(f)
         /\ sig.ret_kind = "void" /\ sig.lock_kind = "none" /\ sig.ret_api = NoType
         /\ ~sig.ret_only_from_call
         /\ Target(f) \in DOMAIN tab => sig.param_count <= tab[Target(f)].param_count
         /\ Target(f) \notin DOMAIN tab => sig.param_count = 0
  <2> SUFFICES ASSUME Thunk(f)
               PROVE  /\ s.tail = Target(f) /\ s.written = {} /\ LockThunk(s) = Target(f)
                      /\ sig.ret_kind = "void" /\ sig.lock_kind = "none" /\ sig.ret_api = NoType
                      /\ ~sig.ret_only_from_call
                      /\ Target(f) \in DOMAIN tab => sig.param_count <= tab[Target(f)].param_count
                      /\ Target(f) \notin DOMAIN tab => sig.param_count = 0
    OBVIOUS
  <2>1. IsInstruction(code[f][1])
    BY <1>4, <1>5 DEF Thunk
  <2>2. \A g \in DOMAIN tab : tab[g].param_count \in Nat
    BY <1>1 DEF SigTypeOK
  <2> QED BY <1>0, <1>5, <2>1, <2>2, ThunkScan
<1>10. Thunk(f) => Target(f) \in DOMAIN code
  BY <1>4, <1>5 DEF Thunk, Target, IsInstruction
<1>11. /\ tab' \in Seq(L \cup {sig}) /\ Len(tab') = f /\ DOMAIN tab' = DOMAIN tab \cup {f}
       /\ tab'[f] = sig /\ \A g \in DOMAIN tab : tab'[g] = tab[g]
       /\ DOMAIN tab' = 1..f
  BY <1>0, <1>2, <1>3, <1>6
<1>12. /\ 0 \notin DOMAIN code /\ f \in DOMAIN code
       /\ \A m \in {tail_of, lock_thunk_of, fwd_thunk_of} :
             DOMAIN m \subseteq DOMAIN code /\ \A g \in DOMAIN m : m[g] \in DOMAIN code
  BY <1>4, <1>5 DEF Maps
<1>13. /\ DOMAIN tail_of' \subseteq DOMAIN code /\ \A g \in DOMAIN tail_of' : tail_of'[g] \in DOMAIN code
       /\ \A g \in DOMAIN tail_of \ {f} : g \in DOMAIN tail_of' /\ tail_of'[g] = tail_of[g]
       /\ s.tail # 0 => f \in DOMAIN tail_of' /\ tail_of'[f] = s.tail
  <2> DEFINE to == s.tail
  <2>1. to \in DOMAIN code \cup {0} /\ tail_of' = With(tail_of, f, to)
    BY <1>6, <1>8
  <2> HIDE DEF to
  <2>2. /\ DOMAIN tail_of' \subseteq DOMAIN code /\ \A g \in DOMAIN tail_of' : tail_of'[g] \in DOMAIN code
        /\ \A g \in DOMAIN tail_of \ {f} : g \in DOMAIN tail_of' /\ tail_of'[g] = tail_of[g]
        /\ to # 0 => f \in DOMAIN tail_of' /\ tail_of'[f] = to
    BY <1>12, <2>1, WithMap
  <2> QED BY <2>2 DEF to
<1>14. /\ DOMAIN lock_thunk_of' \subseteq DOMAIN code
       /\ \A g \in DOMAIN lock_thunk_of' : lock_thunk_of'[g] \in DOMAIN code
       /\ \A g \in DOMAIN lock_thunk_of \ {f} : g \in DOMAIN lock_thunk_of' /\ lock_thunk_of'[g] = lock_thunk_of[g]
       /\ LockThunk(s) # 0 => f \in DOMAIN lock_thunk_of' /\ lock_thunk_of'[f] = LockThunk(s)
  <2> DEFINE to == LockThunk(s)
  <2>1. to \in DOMAIN code \cup {0} /\ lock_thunk_of' = With(lock_thunk_of, f, to)
    BY <1>6, <1>8
  <2> HIDE DEF to
  <2>2. /\ DOMAIN lock_thunk_of' \subseteq DOMAIN code
        /\ \A g \in DOMAIN lock_thunk_of' : lock_thunk_of'[g] \in DOMAIN code
        /\ \A g \in DOMAIN lock_thunk_of \ {f} : g \in DOMAIN lock_thunk_of' /\ lock_thunk_of'[g] = lock_thunk_of[g]
        /\ to # 0 => f \in DOMAIN lock_thunk_of' /\ lock_thunk_of'[f] = to
    BY <1>12, <2>1, WithMap
  <2> QED BY <2>2 DEF to
<1>15. /\ DOMAIN fwd_thunk_of' \subseteq DOMAIN code
       /\ \A g \in DOMAIN fwd_thunk_of' : fwd_thunk_of'[g] \in DOMAIN code
       /\ \A g \in DOMAIN fwd_thunk_of \ {f} : g \in DOMAIN fwd_thunk_of' /\ fwd_thunk_of'[g] = fwd_thunk_of[g]
       /\ s.written = {} /\ s.tail # 0 => f \in DOMAIN fwd_thunk_of' /\ fwd_thunk_of'[f] = s.tail
  <2> DEFINE to == IF s.written = {} THEN s.tail ELSE 0
  <2>1. to \in DOMAIN code \cup {0} /\ fwd_thunk_of' = With(fwd_thunk_of, f, to)
    BY <1>6, <1>8
  <2>2. s.written = {} => to = s.tail
    OBVIOUS
  <2> HIDE DEF to
  <2>3. /\ DOMAIN fwd_thunk_of' \subseteq DOMAIN code
        /\ \A g \in DOMAIN fwd_thunk_of' : fwd_thunk_of'[g] \in DOMAIN code
        /\ \A g \in DOMAIN fwd_thunk_of \ {f} : g \in DOMAIN fwd_thunk_of' /\ fwd_thunk_of'[g] = fwd_thunk_of[g]
        /\ to # 0 => f \in DOMAIN fwd_thunk_of' /\ fwd_thunk_of'[f] = to
    BY <1>12, <2>1, WithMap
  <2> QED BY <2>2, <2>3
<1>16. Maps'
  BY <1>1, <1>13, <1>14, <1>15 DEF Maps
<1>17. SigTypeOK'
  <2>1. code' \in SigPrograms /\ stage' \in Stages /\ round' \in Nat
    BY <1>1, <1>6 DEF SigTypeOK, Stages
  <2>2. stage' = "scan" => (\E M : tab' \in Seq(M)) /\ Len(tab') < Len(code')
    BY <1>1, <1>4, <1>5, <1>6, <1>11
  <2>3. stage' # "scan" => DOMAIN tab' = DOMAIN code'
    BY <1>1, <1>4, <1>6, <1>11
  <2>4. \A g \in DOMAIN tab' : Fields \subseteq DOMAIN tab'[g] /\ tab'[g].param_count \in Nat
    BY <1>1, <1>8, <1>11 DEF SigTypeOK
  <2> QED BY <1>1, <1>6, <1>16, <2>1, <2>2, <2>3, <2>4 DEF SigTypeOK
<1>18. ThunkInv'
  <2> SUFFICES ASSUME NEW g \in DOMAIN tab', Thunk(g)'
               PROVE  /\ Linked(g)' /\ ~tab'[g].ret_only_from_call /\ tab'[g].ret_api = NoType
                      /\ tab'[g].ret_kind = "void" /\ tab'[g].lock_kind = "none"
                      /\ Target(g) \notin DOMAIN tab' => tab'[g].param_count = 0
                      /\ Target(g) \in DOMAIN tab' =>
                            /\ ApiBelow(tab'[g], tab'[Target(g)])
                            /\ ForwardBelow(tab'[g], tab'[Target(g)])
    <3>1. \A g : Target(g)' = Target(g)
      BY <1>1 DEF Target
    <3> QED BY <3>1 DEF ThunkInv
  <2>1. Thunk(g)
    BY <1>1 DEF Thunk
  <2>2. CASE g = f
    <3>1. Target(f) \in DOMAIN code /\ Target(f) # 0
      BY <1>4, <1>10, <2>1, <2>2
    <3>2. Linked(f)'
      <4>1. Target(f)' = Target(f)
        BY <1>1 DEF Target
      <4> QED BY <1>9, <1>13, <1>14, <1>15, <2>1, <2>2, <3>1, <4>1 DEF Linked
    <3>3. Target(f) \in DOMAIN tab => tab'[Target(f)] = tab[Target(f)]
      BY <1>11
    <3>4. Target(f) = f => tab'[Target(f)] = sig
      BY <1>11
    <3>5. ForwardBelow(sig, sig)
      BY <1>8 DEF ForwardBelow
    <3>6. Target(f) \in DOMAIN tab => ForwardBelow(sig, tab[Target(f)])
      BY <1>9, <2>1, <2>2 DEF ForwardBelow
    <3> QED BY <1>9, <1>11, <2>1, <2>2, <3>2, <3>3, <3>4, <3>5, <3>6 DEF ApiBelow
  <2>3. CASE g # f
    <3>1. g \in DOMAIN tab /\ tab'[g] = tab[g]
      BY <1>11, <2>3
    <3>2. /\ Linked(g) /\ ~tab[g].ret_only_from_call /\ tab[g].ret_api = NoType
          /\ tab[g].ret_kind = "void" /\ tab[g].lock_kind = "none"
          /\ Target(g) \notin DOMAIN tab => tab[g].param_count = 0
          /\ Target(g) \in DOMAIN tab =>
                ApiBelow(tab[g], tab[Target(g)]) /\ ForwardBelow(tab[g], tab[Target(g)])
      BY <1>1, <2>1, <3>1 DEF ThunkInv
    <3>3. Linked(g)'
      <4>1. Target(g)' = Target(g)
        BY <1>1 DEF Target
      <4> QED BY <1>13, <1>14, <1>15, <2>3, <3>2, <4>1 DEF Linked
    <3>4. Target(g) \in DOMAIN tab => tab'[Target(g)] = tab[Target(g)]
      BY <1>11
    <3>5. Target(g) = f => ForwardBelow(tab'[g], tab'[Target(g)])
      BY <1>5, <1>8, <1>11, <3>1, <3>2 DEF ForwardBelow
    <3> QED BY <1>11, <3>1, <3>2, <3>3, <3>4, <3>5 DEF ApiBelow
  <2> QED BY <2>2, <2>3
<1>19. ForwardInv' /\ ApiInv'
  BY <1>6 DEF ForwardInv, ApiInv
<1> QED BY <1>17, <1>18, <1>19 DEF SigInv

\* What a step behind the scan has to show.
LEMMA TableStep ==
    ASSUME SigTypeOK, ThunkInv, stage # "scan", UNCHANGED <<code, tail_of, lock_thunk_of, fwd_thunk_of>>,
           IsTable(tab'), stage' \in Stages \ {"scan"}, round' \in Nat,
           stage' \in {"sret", "void", "seed"} => round' = 0,
           stage' = "forward" => round' < ForwardRounds,
           stage' = "api" => round' < ApiRounds,
           \A f \in DOMAIN code : Thunk(f) =>
               /\ ~tab'[f].ret_only_from_call
               /\ stage' \notin {"api", "done"} => tab'[f].ret_api = NoType
               /\ ApiBelow(tab'[f], tab'[Target(f)])
               /\ stage' \in {"sret", "forward", "void"} \/ tab'[Target(f)].ret_call_target # Target(f)
                     => ForwardBelow(tab'[f], tab'[Target(f)])
    PROVE  SigTypeOK' /\ ThunkInv'
<1>1. DOMAIN tab' = DOMAIN code /\ Maps /\ IsTable(tab) /\ DOMAIN tab = DOMAIN code
  BY Typed DEF IsTable
<1>2. Maps' /\ \A f : (Thunk(f)' <=> Thunk(f)) /\ Target(f)' = Target(f) /\ (Linked(f)' <=> Linked(f))
  BY <1>1, SameMaps
<1>3. SigTypeOK'
  BY <1>1, <1>2 DEF SigTypeOK, IsTable
<1>4. \A f \in DOMAIN code : Thunk(f) => Linked(f) /\ Target(f) \in DOMAIN code
  BY <1>1 DEF ThunkInv, Linked, Maps
<1>5. ThunkInv'
  <2> SUFFICES ASSUME NEW f \in DOMAIN tab', Thunk(f)
               PROVE  /\ Linked(f) /\ ~tab'[f].ret_only_from_call
                      /\ stage' \notin {"api", "done"} => tab'[f].ret_api = NoType
                      /\ Target(f) \in DOMAIN tab'
                      /\ ApiBelow(tab'[f], tab'[Target(f)])
                      /\ stage' \in {"scan", "sret", "forward", "void"}
                            \/ tab'[Target(f)].ret_call_target # Target(f)
                               => ForwardBelow(tab'[f], tab'[Target(f)])
    BY <1>2 DEF ThunkInv
  <2> QED BY <1>1, <1>4
<1> QED BY <1>3, <1>5

\* What is known of a thunk behind the scan.
LEMMA ThunkKnown ==
    ASSUME SigTypeOK, ThunkInv, stage # "scan", NEW f \in DOMAIN code, Thunk(f)
    PROVE  /\ Linked(f) /\ Target(f) \in DOMAIN code /\ ~tab[f].ret_only_from_call
           /\ stage \notin {"api", "done"} => tab[f].ret_api = NoType
           /\ ApiBelow(tab[f], tab[Target(f)])
           /\ stage \in {"sret", "forward", "void"} \/ tab[Target(f)].ret_call_target # Target(f)
                 => ForwardBelow(tab[f], tab[Target(f)])
<1>1. Maps /\ DOMAIN tab = DOMAIN code
  BY Typed DEF IsTable
<1>2. Linked(f) /\ Target(f) \in DOMAIN code
  BY <1>1 DEF ThunkInv, Linked, Maps
<1> QED BY <1>1, <1>2 DEF ThunkInv

LEMMA EvidenceKeeps ==
    ASSUME SigInv, CallerEvidence
    PROVE  SigInv'
<1>1. /\ SigTypeOK /\ ThunkInv /\ stage = "sret" /\ stage' = "forward" /\ round' = round /\ round = 0
      /\ UNCHANGED <<code, tail_of, lock_thunk_of, fwd_thunk_of>>
  BY DEF SigInv, CallerEvidence, SigTypeOK
<1>2. IsTable(tab) /\ DOMAIN tab = DOMAIN code
  BY <1>1, Typed DEF IsTable
<1>3. DOMAIN tab' = DOMAIN tab
  BY DEF CallerEvidence
<1>4. ASSUME NEW f \in DOMAIN tab
      PROVE  DOMAIN tab'[f] = DOMAIN tab[f] /\ Alike(tab[f], tab'[f])
  <2>1. PICK hint : tab'[f] = [tab[f] EXCEPT !.sret_hint = hint]
    BY DEF CallerEvidence
  <2>2. \A field \in Fields : field # "sret_hint" /\ field \in DOMAIN tab[f]
    BY <1>2 DEF Fields, IsTable
  <2> QED BY <2>1, <2>2 DEF Alike, SameEvidence, SameForward, Fields
<1>5. IsTable(tab')
  BY <1>2, <1>3, <1>4 DEF IsTable, Alike, SameForward
<1>6. ASSUME NEW f \in DOMAIN code, Thunk(f)
      PROVE  /\ ~tab'[f].ret_only_from_call /\ tab'[f].ret_api = NoType
             /\ ApiBelow(tab'[f], tab'[Target(f)]) /\ ForwardBelow(tab'[f], tab'[Target(f)])
  <2>1. /\ Target(f) \in DOMAIN code /\ ~tab[f].ret_only_from_call /\ tab[f].ret_api = NoType
        /\ ApiBelow(tab[f], tab[Target(f)]) /\ ForwardBelow(tab[f], tab[Target(f)])
    BY <1>1, <1>6, ThunkKnown
  <2>2. Alike(tab[f], tab'[f]) /\ Alike(tab[Target(f)], tab'[Target(f)])
    BY <1>2, <1>4, <2>1
  <2> QED BY <2>1, <2>2 DEF Alike, SameEvidence, SameForward, ApiBelow, ForwardBelow
<1>7. SigTypeOK' /\ ThunkInv'
  <2>1. 0 < ForwardRounds /\ stage' \in Stages \ {"scan"}
    BY <1>1 DEF ForwardRounds, Stages
  <2> QED BY <1>1, <1>5, <1>6, <2>1, TableStep
<1>8. ForwardInv' /\ ApiInv'
  <2>1. SettledTo(tab', ForwardLoops, ForwardRounds, 0)
    BY <1>5, NoneSettled DEF Loops, ForwardRounds
  <2>2. SettledTo(tab, ForwardLoops, ForwardRounds, 0)'
    BY <1>1, <2>1, SameRounds
  <2>3. SettledTo(tab, ForwardLoops, ForwardRounds, round)'
    BY <1>1, <2>2
  <2> QED BY <1>1, <2>3 DEF ForwardInv, ApiInv
<1> QED BY <1>7, <1>8 DEF SigInv

LEMMA ForwardKeeps ==
    ASSUME SigInv, ForwardRound
    PROVE  SigInv'
<1>1. /\ SigTypeOK /\ ThunkInv /\ stage = "forward"
      /\ UNCHANGED <<code, tail_of, lock_thunk_of, fwd_thunk_of>>
      /\ round' = (round + 1) % ForwardRounds /\ stage' = IF round' = 0 THEN "void" ELSE "forward"
      /\ tab' = InOrder("thunks", InOrder("locks", InOrder("tails", tab)))
      /\ round \in Nat /\ round < ForwardRounds
  BY DEF SigInv, ForwardRound, SigTypeOK
<1>2. /\ round' \in Nat /\ round' < ForwardRounds
      /\ round' # 0 => round' = round + 1
      /\ round' = 0 => round + 1 = ForwardRounds
  BY <1>1 DEF ForwardRounds
<1>3. Maps /\ Len(code) \in Nat /\ DOMAIN code = 1..Len(code) /\ IsTable(tab)
  BY <1>1, Typed
<1>4. SettledTo(tab, ForwardLoops, ForwardRounds, round)
  BY <1>1 DEF SigInv, ForwardInv
<1>5. /\ SettledTo(tab', ForwardLoops, ForwardRounds, round + 1)
      /\ IsTable(tab')
      /\ \A f \in DOMAIN code : Grown(tab[f], tab'[f]) /\ tab'[f].ret_api = tab[f].ret_api
  <2>1. ForwardRounds \in Nat
    BY DEF ForwardRounds
  <2> QED BY <1>1, <1>3, <1>4, <2>1, ForwardRoundUp
<1>6. ASSUME NEW f \in DOMAIN code, Thunk(f)
      PROVE  /\ ~tab'[f].ret_only_from_call /\ tab'[f].ret_api = NoType
             /\ ApiBelow(tab'[f], tab'[Target(f)]) /\ ForwardBelow(tab'[f], tab'[Target(f)])
  <2> DEFINE T == Target(f)
             u == InOrder("tails", tab)
             v == InOrder("locks", u)
  <2>1. /\ Linked(f) /\ ~tab[f].ret_only_from_call /\ tab[f].ret_api = NoType
        /\ ForwardBelow(tab[f], tab[T])
    BY <1>1, <1>6, ThunkKnown
  <2>2. {"tails", "locks", "thunks"} \subseteq Loops
    BY DEF Loops, ForwardLoops
  <2>3. IsTable(u) /\ ~u[f].ret_only_from_call /\ ForwardBelow(u[f], u[T])
    BY <1>3, <2>1, <2>2, LoopBelow
  <2> HIDE DEF u
  <2>4. IsTable(v) /\ ~v[f].ret_only_from_call /\ ForwardBelow(v[f], v[T])
    BY <1>3, <2>1, <2>2, <2>3, LoopBelow
  <2> HIDE DEF v
  <2>5. tab' = InOrder("thunks", v)
    BY <1>1 DEF u, v
  <2>6. ~tab'[f].ret_only_from_call /\ ForwardBelow(tab'[f], tab'[T])
    BY <1>3, <2>1, <2>2, <2>4, <2>5, LoopBelow
  <2>7. tab'[f].ret_api = NoType
    BY <1>5, <2>1
  <2> QED BY <2>6, <2>7 DEF ApiBelow
<1>7. SigTypeOK' /\ ThunkInv'
  <2>1. /\ stage' \in Stages \ {"scan"} /\ stage' \in {"void", "forward"}
        /\ stage' = "void" => round' = 0
    BY <1>1 DEF Stages
  <2> QED BY <1>1, <1>2, <1>5, <1>6, <2>1, TableStep
<1>8. ForwardInv' /\ ApiInv'
  <2>1. \A n : SettledTo(tab', ForwardLoops, ForwardRounds, n) => SettledTo(tab, ForwardLoops, ForwardRounds, n)'
    BY <1>1, SameRounds
  <2>2. stage' = "forward" => SettledTo(tab', ForwardLoops, ForwardRounds, round')
    BY <1>1, <1>2, <1>5
  <2>3. stage' = "void" => SettledTo(tab', ForwardLoops, ForwardRounds, ForwardRounds)
    BY <1>1, <1>2, <1>5
  <2> QED BY <1>1, <2>1, <2>2, <2>3 DEF ForwardInv, ApiInv
<1> QED BY <1>7, <1>8 DEF SigInv

\* A settled thunk that says no more than its target says what it does.
LEMMA SettledAgrees ==
    ASSUME Maps, IsTable(tab), NEW f \in DOMAIN code, Linked(f),
           ForwardBelow(tab[f], tab[Target(f)]), NEW highest,
           SettledTo(tab, ForwardLoops, highest, highest), highest \in Nat,
           Short(tab, ForwardLoops, highest, f)
    PROVE  SameForward(tab[Target(f)], tab[f])
<1> DEFINE T == Target(f)
<1>1. T \in DOMAIN code /\ tab[f].param_count \in Nat /\ tab[T].param_count \in Nat
  BY DEF Maps, Linked, IsTable
<1>2. \A loop \in ForwardLoops : Still(loop, tab, f)
  <2>1. PICK C \in SUBSET DOMAIN code :
             \E rank \in [C -> 0..highest] : Ranks(tab, ForwardLoops, rank) /\ f \in C
    BY DEF Short
  <2>2. PICK rank \in [C -> 0..highest] : Ranks(tab, ForwardLoops, rank) /\ f \in C
    BY <2>1
  <2>3. rank[f] <= highest
    BY <2>2
  <2> QED BY <2>2, <2>3 DEF SettledTo
<1>3. \A loop \in ForwardLoops : Read(loop, tab, f) = {T}
  <2>1. Targets(tail_of, f) = {T} /\ Targets(lock_thunk_of, f) = {T} /\ Targets(fwd_thunk_of, f) = {T}
    BY DEF Targets, Linked
  <2> QED BY <2>1 DEF Read, ForwardLoops
<1> HIDE DEF T
<1>4. /\ tab[T].param_count <= tab[f].param_count
      /\ tab[f].ret_kind = "void" => tab[T].ret_kind = "void"
  <2>1. Still("thunks", tab, f) /\ T \in Read("thunks", tab, f)
    BY <1>2, <1>3 DEF ForwardLoops
  <2> QED BY <2>1 DEF Still
<1>5. tab[f].lock_kind = "none" => tab[T].lock_kind = "none"
  <2>1. Still("locks", tab, f) /\ T \in Read("locks", tab, f)
    BY <1>2, <1>3 DEF ForwardLoops
  <2> QED BY <2>1 DEF Still
<1>6. ForwardBelow(tab[f], tab[T])
  BY DEF T
<1>7. SameForward(tab[T], tab[f])
  BY <1>1, <1>4, <1>5, <1>6 DEF ForwardBelow, SameForward
<1> QED BY <1>7 DEF T

LEMMA VoidKeeps ==
    ASSUME SigInv, VoidFixpoint
    PROVE  SigInv'
<1>1. /\ SigTypeOK /\ ThunkInv /\ stage = "void" /\ stage' = "seed" /\ round' = round /\ round = 0
      /\ UNCHANGED <<code, tail_of, lock_thunk_of, fwd_thunk_of>>
      /\ SettledTo(tab, ForwardLoops, ForwardRounds, ForwardRounds)
  BY DEF SigInv, VoidFixpoint, SigTypeOK, ForwardInv
<1>2. IsTable(tab) /\ DOMAIN tab = DOMAIN code /\ Maps
  BY <1>1, Typed DEF IsTable
<1>3. DOMAIN tab' = DOMAIN tab
  BY DEF VoidFixpoint
<1>4. ASSUME NEW f \in DOMAIN tab
      PROVE  /\ DOMAIN tab'[f] = DOMAIN tab[f] /\ SameEvidence(tab[f], tab'[f])
             /\ tab'[f].param_count = tab[f].param_count /\ tab'[f].ret_api = tab[f].ret_api
             /\ ~tab[f].ret_only_from_call \/ tab[f].ret_call_target # f => tab'[f] = tab[f]
  <2>1. CASE OnlyHandsBack(tab[f]) /\ tab[f].ret_call_target = f
    <3>1. tab'[f] = [tab[f] EXCEPT !.ret_kind = "void"]
      BY <2>1 DEF VoidFixpoint
    <3>2. Fields \subseteq DOMAIN tab[f]
      BY <1>2 DEF IsTable
    <3> QED BY <2>1, <3>1, <3>2 DEF SameEvidence, OnlyHandsBack, Fields
  <2>2. CASE ~(OnlyHandsBack(tab[f]) /\ tab[f].ret_call_target = f)
    <3>1. tab'[f] = tab[f]
      BY <2>2 DEF VoidFixpoint
    <3> QED BY <2>2, <3>1 DEF SameEvidence, OnlyHandsBack
  <2> QED BY <2>1, <2>2
<1>5. IsTable(tab')
  BY <1>2, <1>3, <1>4 DEF IsTable
<1>6. ASSUME NEW f \in DOMAIN code, Thunk(f)
      PROVE  /\ ~tab'[f].ret_only_from_call /\ tab'[f].ret_api = NoType
             /\ ApiBelow(tab'[f], tab'[Target(f)])
             /\ tab'[Target(f)].ret_call_target # Target(f) =>
                   /\ ForwardBelow(tab'[f], tab'[Target(f)])
                   /\ tab'[f] = tab[f] /\ tab'[Target(f)] = tab[Target(f)]
  <2>1. /\ Target(f) \in DOMAIN code /\ ~tab[f].ret_only_from_call /\ tab[f].ret_api = NoType
        /\ ForwardBelow(tab[f], tab[Target(f)])
    BY <1>1, <1>6, ThunkKnown
  <2>2. tab'[f] = tab[f] /\ tab'[Target(f)].ret_call_target = tab[Target(f)].ret_call_target
    BY <1>2, <1>4, <2>1 DEF SameEvidence
  <2>3. tab[Target(f)].ret_call_target # Target(f) => tab'[Target(f)] = tab[Target(f)]
    BY <1>2, <1>4, <2>1
  <2> QED BY <2>1, <2>2, <2>3 DEF ApiBelow
<1>7. SigTypeOK' /\ ThunkInv'
  <2>1. stage' \in Stages \ {"scan"}
    BY <1>1 DEF Stages
  <2> QED BY <1>1, <1>5, <1>6, <2>1, TableStep
<1>8. ForwardInv' /\ ApiInv'
  <2>1. ASSUME NEW f \in DOMAIN code, Thunk(f), Short(tab, ForwardLoops, ForwardRounds, f)',
               tab'[Target(f)].ret_call_target # Target(f)
        PROVE  SameForward(tab'[Target(f)], tab'[f])
    <3>1. Short(tab', ForwardLoops, ForwardRounds, f)
      BY <1>1, <2>1, SameRounds
    <3>2. Short(tab, ForwardLoops, ForwardRounds, f)
      <4>1. \A g \in DOMAIN code : SameEvidence(tab[g], tab'[g])
        BY <1>2, <1>4
      <4> QED BY <1>2, <1>3, <3>1, <4>1, SameRanks DEF Short
    <3>3. Linked(f) /\ ForwardBelow(tab[f], tab[Target(f)])
      BY <1>1, <2>1, ThunkKnown
    <3>4. ForwardRounds \in Nat
      BY DEF ForwardRounds
    <3>5. SameForward(tab[Target(f)], tab[f])
      BY <1>1, <1>2, <3>2, <3>3, <3>4, SettledAgrees
    <3> QED BY <1>6, <2>1, <3>5
  <2>2. \A f : (Thunk(f)' <=> Thunk(f)) /\ Target(f)' = Target(f)
    BY <1>1, SameMaps
  <2>3. \A f \in DOMAIN code' : ForwardAgrees(f)'
    BY <1>1, <2>1, <2>2 DEF ForwardAgrees
  <2> QED BY <1>1, <2>3 DEF ForwardInv, ApiInv
<1> QED BY <1>7, <1>8 DEF SigInv

\* Thunks keep agreeing while the forward part of the table stays.
LEMMA AgreesOn ==
    ASSUME SigTypeOK, ThunkInv, stage \in {"seed", "api"}, UNCHANGED <<code, tail_of, lock_thunk_of, fwd_thunk_of>>,
           DOMAIN tab' = DOMAIN code,
           \A g \in DOMAIN code : SameEvidence(tab[g], tab'[g]) /\ SameForward(tab[g], tab'[g]),
           NEW f \in DOMAIN code, ForwardAgrees(f)
    PROVE  ForwardAgrees(f)'
<1>1. (Thunk(f)' <=> Thunk(f)) /\ Target(f)' = Target(f)
  BY SameMaps
<1>2. DOMAIN tab = DOMAIN code
  BY Typed DEF IsTable
<1>3. Short(tab, ForwardLoops, ForwardRounds, f)' => Short(tab, ForwardLoops, ForwardRounds, f)
  <2>1. Short(tab, ForwardLoops, ForwardRounds, f)' => Short(tab', ForwardLoops, ForwardRounds, f)
    BY SameRounds
  <2>2. Short(tab', ForwardLoops, ForwardRounds, f) => Short(tab, ForwardLoops, ForwardRounds, f)
    BY <1>2, SameRanks DEF Short
  <2> QED BY <2>1, <2>2
<1>4. Thunk(f) => Target(f) \in DOMAIN code
  BY ThunkKnown
<1> SUFFICES ASSUME Thunk(f), Short(tab, ForwardLoops, ForwardRounds, f)',
                    tab'[Target(f)].ret_call_target # Target(f)
             PROVE  SameForward(tab'[Target(f)], tab'[f])
  BY <1>1 DEF ForwardAgrees
<1>5. tab[Target(f)].ret_call_target # Target(f)
  BY <1>4 DEF SameEvidence
<1>6. SameForward(tab[Target(f)], tab[f])
  BY <1>3, <1>5 DEF ForwardAgrees
<1> QED BY <1>4, <1>6 DEF SameForward

LEMMA SeedKeeps ==
    ASSUME SigInv, SeedApiTypes
    PROVE  SigInv'
<1>1. /\ SigTypeOK /\ ThunkInv /\ stage = "seed" /\ stage' = "api" /\ round' = round /\ round = 0
      /\ UNCHANGED <<code, tail_of, lock_thunk_of, fwd_thunk_of>>
      /\ \A f \in DOMAIN code : ForwardAgrees(f)
  BY DEF SigInv, SeedApiTypes, SigTypeOK, ForwardInv
<1>2. IsTable(tab) /\ DOMAIN tab = DOMAIN code /\ Maps
  BY <1>1, Typed DEF IsTable
<1>3. DOMAIN tab' = DOMAIN tab
  BY DEF SeedApiTypes
<1>4. ASSUME NEW f \in DOMAIN tab
      PROVE  /\ DOMAIN tab'[f] = DOMAIN tab[f] /\ SameEvidence(tab[f], tab'[f]) /\ SameForward(tab[f], tab'[f])
             /\ ~tab[f].ret_only_from_call => tab'[f] = tab[f]
  <2>1. CASE OnlyHandsBack(tab[f]) /\ tab[f].ret_call_target \in DOMAIN ApiType
    <3>1. PICK type : tab'[f] = [tab[f] EXCEPT !.ret_api = type]
      BY <2>1 DEF SeedApiTypes
    <3>2. Fields \subseteq DOMAIN tab[f]
      BY <1>2 DEF IsTable
    <3> QED BY <2>1, <3>1, <3>2 DEF SameEvidence, SameForward, OnlyHandsBack, Fields
  <2>2. CASE ~(OnlyHandsBack(tab[f]) /\ tab[f].ret_call_target \in DOMAIN ApiType)
    <3>1. tab'[f] = tab[f]
      BY <2>2 DEF SeedApiTypes
    <3> QED BY <3>1 DEF SameEvidence, SameForward
  <2> QED BY <2>1, <2>2
<1>5. IsTable(tab')
  BY <1>2, <1>3, <1>4 DEF IsTable, SameForward
<1>6. ASSUME NEW f \in DOMAIN code, Thunk(f)
      PROVE  /\ ~tab'[f].ret_only_from_call
             /\ ApiBelow(tab'[f], tab'[Target(f)])
             /\ tab'[Target(f)].ret_call_target # Target(f) => ForwardBelow(tab'[f], tab'[Target(f)])
  <2>1. /\ Target(f) \in DOMAIN code /\ ~tab[f].ret_only_from_call /\ tab[f].ret_api = NoType
        /\ tab[Target(f)].ret_call_target # Target(f) => ForwardBelow(tab[f], tab[Target(f)])
    BY <1>1, <1>6, ThunkKnown
  <2>2. /\ tab'[f] = tab[f] /\ tab'[Target(f)].ret_call_target = tab[Target(f)].ret_call_target
        /\ SameForward(tab[Target(f)], tab'[Target(f)])
    BY <1>2, <1>4, <2>1 DEF SameEvidence
  <2> QED BY <2>1, <2>2 DEF ApiBelow, ForwardBelow, SameForward
<1>7. SigTypeOK' /\ ThunkInv'
  <2>1. stage' \in Stages \ {"scan"} /\ 0 < ApiRounds
    BY <1>1 DEF Stages, ApiRounds
  <2> QED BY <1>1, <1>5, <1>6, <2>1, TableStep
<1>8. ForwardInv'
  <2>1. \A f \in DOMAIN code' : ForwardAgrees(f)'
    BY <1>1, <1>2, <1>3, <1>4, AgreesOn
  <2> QED BY <1>1, <2>1 DEF ForwardInv
<1>9. ApiInv'
  <2>1. SettledTo(tab', ApiLoops, ApiRounds, 0)
    BY <1>5, NoneSettled DEF Loops, ApiRounds
  <2>2. SettledTo(tab, ApiLoops, ApiRounds, 0)'
    BY <1>1, <2>1, SameRounds
  <2>3. SettledTo(tab, ApiLoops, ApiRounds, round)'
    BY <1>1, <2>2
  <2> QED BY <1>1, <2>3 DEF ApiInv
<1> QED BY <1>7, <1>8, <1>9 DEF SigInv

LEMMA ApiKeeps ==
    ASSUME SigInv, ApiRound
    PROVE  SigInv'
<1>1. /\ SigTypeOK /\ ThunkInv /\ stage = "api"
      /\ UNCHANGED <<code, tail_of, lock_thunk_of, fwd_thunk_of>>
      /\ round' = round + 1
      /\ stage' = IF tab' = tab \/ round' = ApiRounds THEN "done" ELSE "api"
      /\ tab' = InOrder("handovers", InOrder("wrappers", tab))
      /\ round \in Nat /\ round < ApiRounds
      /\ \A f \in DOMAIN code : ForwardAgrees(f)
      /\ SettledTo(tab, ApiLoops, ApiRounds, round)
  BY DEF SigInv, ApiRound, SigTypeOK, ForwardInv, ApiInv
<1>2. /\ ApiRounds \in Nat /\ round' \in Nat
      /\ stage' = "api" => round' < ApiRounds
      /\ stage' \in {"api", "done"} /\ stage' \in Stages \ {"scan"}
  BY <1>1 DEF ApiRounds, Stages
<1>3. Maps /\ Len(code) \in Nat /\ DOMAIN code = 1..Len(code) /\ IsTable(tab) /\ DOMAIN tab = DOMAIN code
  BY <1>1, Typed DEF IsTable
<1>4. /\ SettledTo(tab', ApiLoops, ApiRounds, round + 1)
      /\ IsTable(tab')
      /\ \A f \in DOMAIN code : Grown(tab[f], tab'[f]) /\ SameForward(tab[f], tab'[f])
  BY <1>1, <1>2, <1>3, ApiRoundUp
<1>5. ASSUME NEW f \in DOMAIN code, Thunk(f)
      PROVE  /\ ~tab'[f].ret_only_from_call
             /\ ApiBelow(tab'[f], tab'[Target(f)])
             /\ tab'[Target(f)].ret_call_target # Target(f) => ForwardBelow(tab'[f], tab'[Target(f)])
  <2> DEFINE T == Target(f)
             u == InOrder("wrappers", tab)
  <2>1. /\ Linked(f) /\ ~tab[f].ret_only_from_call /\ T \in DOMAIN code
        /\ ApiBelow(tab[f], tab[T])
        /\ tab[T].ret_call_target # T => ForwardBelow(tab[f], tab[T])
    BY <1>1, <1>5, ThunkKnown
  <2>2. {"wrappers", "handovers"} \subseteq Loops
    BY DEF Loops, ApiLoops
  <2>3. IsTable(u) /\ ~u[f].ret_only_from_call /\ ApiBelow(u[f], u[T])
    BY <1>3, <2>1, <2>2, LoopBelow
  <2> HIDE DEF u
  <2>4. tab' = InOrder("handovers", u)
    BY <1>1 DEF u
  <2>5. ~tab'[f].ret_only_from_call /\ ApiBelow(tab'[f], tab'[T])
    BY <1>3, <2>1, <2>2, <2>3, <2>4, LoopBelow
  <2>6. /\ SameForward(tab[f], tab'[f]) /\ SameForward(tab[T], tab'[T])
        /\ tab'[T].ret_call_target = tab[T].ret_call_target
    BY <1>4, <2>1 DEF Grown, SameEvidence
  <2>7. tab'[T].ret_call_target # T => ForwardBelow(tab'[f], tab'[T])
    BY <2>1, <2>6 DEF SameForward, ForwardBelow
  <2> QED BY <2>5, <2>7
<1>6. SigTypeOK' /\ ThunkInv'
  BY <1>1, <1>2, <1>4, <1>5, TableStep
<1>7. ForwardInv'
  <2>1. DOMAIN tab' = DOMAIN code /\ \A g \in DOMAIN code : SameEvidence(tab[g], tab'[g])
    BY <1>4 DEF IsTable, Grown
  <2>2. \A f \in DOMAIN code' : ForwardAgrees(f)'
    BY <1>1, <1>4, <2>1, AgreesOn
  <2> QED BY <1>2, <2>2 DEF ForwardInv
<1>8. ApiInv'
  <2>1. \A n : SettledTo(tab', ApiLoops, ApiRounds, n) => SettledTo(tab, ApiLoops, ApiRounds, n)'
    BY <1>1, SameRounds
  <2>2. stage' = "api" => SettledTo(tab', ApiLoops, ApiRounds, round')
    BY <1>1, <1>4
  <2>3. stage' = "done" => SettledTo(tab', ApiLoops, ApiRounds, ApiRounds)
    <3>1. CASE tab' = tab
      <4>1. SettledTo(tab, ApiLoops, ApiRounds, ApiRounds)
        BY <1>1, <1>2, <1>3, <3>1, QuietSettles
      <4> QED BY <3>1, <4>1
    <3>2. CASE round' = ApiRounds
      BY <1>1, <1>4, <3>2
    <3> QED BY <1>1, <3>1, <3>2
  <2> QED BY <2>1, <2>2, <2>3 DEF ApiInv
<1> QED BY <1>6, <1>7, <1>8 DEF SigInv

-----------------------------------------------------------------------------
(* The theorems.                                                           *)

\* In every state of every program: the entries scanned so far and the maps
\* are what the rounds expect (build_sig_table indexes the table with them), a
\* thunk says no more than its target, and the rounds behind have settled every
\* function whose chains of callees they could follow.
THEOREM SignaturesInvariant == SigSpec => []SigInv
<1>1. SigStarts(SigPrograms) => SigInv
  BY SigInit
<1>2. SigInv /\ [SigNext]_sigVars => SigInv'
  <2> SUFFICES ASSUME SigInv, [SigNext]_sigVars PROVE SigInv'
    OBVIOUS
  <2>1. CASE ScanFunction
    BY <2>1, ScanKeeps
  <2>2. CASE CallerEvidence
    BY <2>2, EvidenceKeeps
  <2>3. CASE ForwardRound
    BY <2>3, ForwardKeeps
  <2>4. CASE VoidFixpoint
    BY <2>4, VoidKeeps
  <2>5. CASE SeedApiTypes
    BY <2>5, SeedKeeps
  <2>6. CASE ApiRound
    BY <2>6, ApiKeeps
  <2>7. CASE UNCHANGED sigVars
    <3>1. SigTypeOK' /\ ThunkInv'
      BY <2>7 DEF SigInv, SigTypeOK, ThunkInv, sigVars, Maps, Linked, Thunk, Target
    <3>2. UNCHANGED <<code, tail_of, lock_thunk_of, fwd_thunk_of>> /\ tab' = tab /\ stage' = stage /\ round' = round
      BY <2>7 DEF sigVars
    <3>3. ApiInv'
      BY <3>2, SameRounds DEF SigInv, ApiInv
    <3>4. ForwardInv'
      <4>1. \A f : ForwardAgrees(f) => ForwardAgrees(f)'
        BY <3>2, SameRounds, SameMaps DEF ForwardAgrees
      <4> QED BY <3>2, <4>1, SameRounds DEF SigInv, ForwardInv
    <3> QED BY <3>1, <3>3, <3>4 DEF SigInv
  <2> QED BY <2>1, <2>2, <2>3, <2>4, <2>5, <2>6, <2>7 DEF SigNext
<1> QED BY <1>1, <1>2, PTL DEF SigSpec

\* The chains the rounds follow from f are no longer than the rounds are many:
\* tails, lock wrappers and thunks for the four, calls and tails for the eight.
ShortChains(f) ==
    Short(tab, ForwardLoops, ForwardRounds, f) /\ Short(tab, ApiLoops, ApiRounds, f)

LEMMA ShortAgrees ==
    ASSUME SigInv, stage = "done", NEW f \in DOMAIN tab, Thunk(f), ShortChains(f)
    PROVE  Agrees(f)
<1> DEFINE T == Target(f)
<1>1. SigTypeOK /\ ThunkInv /\ Maps /\ IsTable(tab) /\ DOMAIN tab = DOMAIN code
  BY Typed DEF SigInv, IsTable
<1>2. Linked(f) /\ T \in DOMAIN code /\ ApiBelow(tab[f], tab[T])
  BY <1>1, ThunkKnown
<1>3. Still("handovers", tab, f)
  <2>1. PICK C \in SUBSET DOMAIN code :
             \E rank \in [C -> 0..ApiRounds] : Ranks(tab, ApiLoops, rank) /\ f \in C
    BY DEF ShortChains, Short
  <2>2. PICK rank \in [C -> 0..ApiRounds] : Ranks(tab, ApiLoops, rank) /\ f \in C
    BY <2>1
  <2>3. rank[f] <= ApiRounds
    BY <2>2
  <2>4. SettledTo(tab, ApiLoops, ApiRounds, ApiRounds)
    BY DEF SigInv, ApiInv
  <2> QED BY <2>2, <2>3, <2>4 DEF SettledTo, ApiLoops
<1>4. Read("handovers", tab, f) = {T}
  BY <1>2 DEF Read, Targets, Linked
<1>5. tab[f].ret_api = NoType => tab[T].ret_api = NoType
  BY <1>3, <1>4 DEF Still
<1>6. tab[f].ret_api = tab[T].ret_api
  BY <1>2, <1>5 DEF ApiBelow
<1>7. tab[T].ret_call_target # T => SameForward(tab[T], tab[f])
  BY <1>1 DEF SigInv, ForwardInv, ForwardAgrees, ShortChains
<1>8. T = code[f][1].to
  BY DEF Target
<1> HIDE DEF T
<1> QED BY <1>6, <1>7, <1>8 DEF Agrees, SameForward

\* "A pure jmp T thunk hands back exactly what T hands back", when the table
\* is done, wherever the chains behind it are short enough.
THEOREM ShortThunksAgree ==
    SigSpec => [](stage = "done" => \A f \in DOMAIN tab : Thunk(f) /\ ShortChains(f) => Agrees(f))
<1>1. SigInv => (stage = "done" => \A f \in DOMAIN tab : Thunk(f) /\ ShortChains(f) => Agrees(f))
  BY ShortAgrees
<1> QED BY <1>1, SignaturesInvariant, PTL

\* So in a program without longer chains every thunk agrees with its target.
THEOREM ThunksAgreeHolds ==
    SigSpec => []((\A f \in DOMAIN tab : Thunk(f) => ShortChains(f)) => ThunksAgree)
<1>1. SigInv => ((\A f \in DOMAIN tab : Thunk(f) => ShortChains(f)) => ThunksAgree)
  BY ShortAgrees DEF ThunksAgree
<1> QED BY <1>1, SignaturesInvariant, PTL
=============================================================================
