------------------------------ MODULE EmitProofs ------------------------------
(***************************************************************************)
(* Theorems of EmitDriver: whatever graph a function has, whatever the     *)
(* structurer returns and whenever the budget trips, the text that comes   *)
(* out has one label for every goto, and the rounds add labels until there *)
(* are none left to add.                                                   *)
(***************************************************************************)
EXTENDS EmitDriver, FiniteSetTheorems, WellFoundedInduction, TLAPS

\* Text at the positions S of t, in their order.
Picks(u, t, S) ==
  \E f \in [DOMAIN u -> DOMAIN t] :
    /\ \A m, n \in DOMAIN u : m < n => f[m] < f[n]
    /\ S = {f[m] : m \in DOMAIN u}
    /\ \A m \in DOMAIN u : u[m] = t[f[m]]

Names == {"label", "goto", "ifgoto"}
Jumps == {"goto", "ifgoto"}
Addresses == {block_label(b) : b \in Blocks}

\* The label of a handler, with its code behind it.
Kept(t, h) == Leads(t, h) /\ block_label(h) \in defined(t)
\* What was kept of the handlers in t is kept in u.
StillKept(t, u) ==
  \A h \in Entered : /\ (Leads(t, h) => Leads(u, h))
                      /\ (block_label(h) \in defined(t) => block_label(h) \in defined(u))

-----------------------------------------------------------------------------
\* A set of numbers has a least one.
LEMMA LeastOf ==
    ASSUME NEW S \in SUBSET Nat, S # {}
    PROVE  \E l \in S : \A m \in S : l <= m
<1> DEFINE R == OpToRel(<, Nat)
<1>1. \A x, y \in Nat : x < y => <<x, y>> \in R
  BY DEF OpToRel
<1>2. IsWellFoundedOn(R, Nat)
  BY NatLessThanWellFounded
<1> HIDE DEF R
<1>3. PICK n \in S : \A m \in S : <<m, n>> \notin R
  BY <1>2, WFMin
<1>4. \A m \in S : n <= m
  <2> SUFFICES ASSUME NEW m \in S PROVE n <= m
    OBVIOUS
  <2>1. m \in Nat /\ n \in Nat /\ ~(m < n)
    BY <1>1, <1>3
  <2>2. QED
    BY <2>1
<1>5. QED
  BY <1>4

\* Induction: a set of numbers with 0 and every successor.
LEMMA CountUp ==
    ASSUME NEW S, 0 \in S, \A n \in Nat : n \in S => n + 1 \in S
    PROVE  Nat \subseteq S
<1> SUFFICES ASSUME Nat \ S # {} PROVE FALSE
  OBVIOUS
<1>1. PICK n \in Nat \ S : \A m \in Nat \ S : n <= m
  BY LeastOf
<1>2. n # 0 /\ n - 1 \in Nat /\ ~(n <= n - 1)
  BY <1>1
<1>3. n - 1 \in S
  BY <1>1, <1>2
<1>4. n \in S
  BY <1>2, <1>3
<1>5. QED
  BY <1>1, <1>4

-----------------------------------------------------------------------------
\* The recursion of FlattenSeq, for a list that is not empty.
LEMMA FlattenIs ==
    ASSUME NEW L, NEW seqs \in Seq(Seq(L)), Len(seqs) # 0
    PROVE  \E f : /\ FlattenSeq(seqs) = f[Len(seqs)]
                  /\ f[1] = seqs[1]
                  /\ \A i \in 2..Len(seqs) : f[i] = f[i - 1] \o seqs[i]
<1> DEFINE N == Len(seqs)
           Then(p, i) == IF i = 1 THEN seqs[i] ELSE p[i - 1] \o seqs[i]
           Is(p, n) == p = [i \in 1..n |-> Then(p, i)]
           Done == {n \in Nat : \E p : Is(p, n)}
<1>0. N \in Nat
  OBVIOUS
<1>1. 0 \in Done
  <2>1. Is([i \in 1..0 |-> <<>>], 0)
    OBVIOUS
  <2>2. QED
    BY <2>1
<1>2. ASSUME NEW n \in Nat, n \in Done PROVE n + 1 \in Done
  <2>1. PICK p : Is(p, n)
    BY <1>2
  <2> DEFINE q == [i \in 1..(n + 1) |-> IF i = n + 1 THEN Then(p, n + 1) ELSE p[i]]
  <2>2. n + 1 \in 1..(n + 1) /\ (n + 1) - 1 = n /\ n # n + 1
    OBVIOUS
  <2>3. q[n + 1] = Then(p, n + 1) /\ \A i \in 1..n : q[i] = p[i]
    <3> HIDE DEF Then
    <3>1. n + 1 \in 1..(n + 1) /\ \A i \in 1..n : i \in 1..(n + 1) /\ i # n + 1
      BY <2>2
    <3>2. QED
      BY <3>1
  <2>4. \A i \in 1..(n + 1) : q[i] = Then(q, i)
    <3> SUFFICES ASSUME NEW i \in 1..(n + 1) PROVE q[i] = Then(q, i)
      OBVIOUS
    <3> HIDE DEF q
    <3>1. CASE i = n + 1 /\ n = 0
      BY <2>2, <2>3, <3>1
    <3>2. CASE i = n + 1 /\ n # 0
      <4>1. n \in 1..n
        BY <3>2
      <4>2. q[n] = p[n]
        BY <4>1, <2>3
      <4>3. QED
        BY <2>2, <2>3, <3>2, <4>2
    <3>3. CASE i \in 1..n
      <4>1. q[i] = p[i] /\ (i # 1 => q[i - 1] = p[i - 1])
        BY <2>3, <3>3
      <4>2. p[i] = Then(p, i)
        BY <2>1, <3>3
      <4>3. QED
        BY <4>1, <4>2
    <3>4. QED
      BY <3>1, <3>2, <3>3
  <2>5. q = [i \in 1..(n + 1) |-> q[i]]
    OBVIOUS
  <2> HIDE DEF q
  <2>6. Is(q, n + 1)
    BY <2>4, <2>5
  <2>7. QED
    <3> HIDE DEF Is
    <3>1. QED
      BY <2>6
<1>3. N \in Done
  <2> HIDE DEF Done
  <2>1. QED
    BY <1>0, <1>1, <1>2, CountUp
<1>4. PICK p : Is(p, N)
  BY <1>3
<1> DEFINE flat == CHOOSE q : Is(q, N)
<1>5. FlattenSeq(seqs) = flat[N]
  BY DEF FlattenSeq
<1>6. Is(flat, N)
  <2> HIDE DEF Is
  <2>1. QED
    BY <1>4
<1> HIDE DEF flat
<1>7. \A i \in 1..N : flat[i] = Then(flat, i)
  BY <1>6
<1>8. flat[1] = seqs[1] /\ \A i \in 2..N : flat[i] = flat[i - 1] \o seqs[i]
  <2>1. 1 \in 1..N /\ \A i \in 2..N : i \in 1..N /\ i # 1
    BY <1>0
  <2>2. flat[1] = seqs[1]
    BY <1>7, <2>1
  <2>3. ASSUME NEW i \in 2..N PROVE flat[i] = flat[i - 1] \o seqs[i]
    <3>1. i \in 1..N /\ i # 1
      BY <2>1
    <3>2. flat[i] = Then(flat, i)
      BY <1>7, <3>1
    <3>3. QED
      BY <3>1, <3>2
  <2>4. QED
    BY <2>2, <2>3
<1>9. QED
  BY <1>5, <1>8

\* Induction over the pieces of a flattened list.
LEMMA Flattening ==
    ASSUME NEW L, NEW seqs \in Seq(Seq(L)), NEW P,
           <<0, <<>>>> \in P,
           \A n \in 0..(Len(seqs) - 1) : \A s \in Seq(L) :
             <<n, s>> \in P => <<n + 1, s \o seqs[n + 1]>> \in P
    PROVE  FlattenSeq(seqs) \in Seq(L) /\ <<Len(seqs), FlattenSeq(seqs)>> \in P
<1>1. CASE Len(seqs) = 0
  <2>1. seqs = <<>>
    BY <1>1
  <2>2. FlattenSeq(seqs) = <<>>
    BY <1>1, <2>1 DEF FlattenSeq
  <2>3. QED
    BY <1>1, <2>2
<1>2. CASE Len(seqs) # 0
  <2>1. PICK f : /\ FlattenSeq(seqs) = f[Len(seqs)]
                 /\ f[1] = seqs[1]
                 /\ \A i \in 2..Len(seqs) : f[i] = f[i - 1] \o seqs[i]
    BY <1>2, FlattenIs
  <2>2. Len(seqs) \in Nat /\ \A i \in 1..Len(seqs) : seqs[i] \in Seq(L)
    OBVIOUS
  <2> DEFINE Good == {n \in Nat : n + 1 <= Len(seqs) => f[n + 1] \in Seq(L) /\ <<n + 1, f[n + 1]>> \in P}
  <2>3. 0 \in Good
    <3>1. seqs[1] \in Seq(L)
      BY <1>2, <2>2
    <3>2. <<>> \o seqs[1] = seqs[1] /\ <<>> \in Seq(L)
      BY <3>1
    <3>3. 0 \in 0..(Len(seqs) - 1) /\ 0 + 1 = 1
      BY <1>2, <2>2
    <3>4. <<1, <<>> \o seqs[1]>> \in P
      BY <3>2, <3>3
    <3>5. f[1] \in Seq(L) /\ <<1, f[1]>> \in P
      BY ONLY <2>1, <3>1, <3>2, <3>4
    <3>6. QED
      BY <3>3, <3>5
  <2>4. ASSUME NEW n \in Nat, n \in Good PROVE n + 1 \in Good
    <3> SUFFICES ASSUME (n + 1) + 1 <= Len(seqs)
                 PROVE  f[(n + 1) + 1] \in Seq(L) /\ <<(n + 1) + 1, f[(n + 1) + 1]>> \in P
      OBVIOUS
    <3>1. f[n + 1] \in Seq(L) /\ <<n + 1, f[n + 1]>> \in P
      BY <2>2, <2>4
    <3>2. n + 1 \in 0..(Len(seqs) - 1) /\ (n + 1) + 1 \in 2..Len(seqs) /\ ((n + 1) + 1) - 1 = n + 1
      BY <2>2
    <3>3. seqs[(n + 1) + 1] \in Seq(L)
      BY <2>2, <3>2
    <3>4. f[(n + 1) + 1] = f[n + 1] \o seqs[(n + 1) + 1]
      BY <2>1, <3>2
    <3>5. f[n + 1] \o seqs[(n + 1) + 1] \in Seq(L)
      BY <3>1, <3>3
    <3>6. QED
      BY <3>1, <3>2, <3>4, <3>5
  <2>5. Len(seqs) - 1 \in Nat /\ (Len(seqs) - 1) + 1 = Len(seqs)
    BY <1>2, <2>2
  <2>6. Len(seqs) - 1 \in Good
    <3> HIDE DEF Good
    <3>1. QED
      BY <2>3, <2>4, <2>5, CountUp
  <2>7. QED
    BY <2>1, <2>5, <2>6
<1>3. QED
  BY <1>1, <1>2

-----------------------------------------------------------------------------
LEMMA Elements ==
    ASSUME NEW L, NEW s \in Seq(L)
    PROVE  /\ Len(s) \in Nat /\ DOMAIN s = 1..Len(s) /\ ToSet(s) \subseteq L
           /\ \A x : x \in ToSet(s) <=> \E i \in DOMAIN s : s[i] = x
BY DEF ToSet

LEMMA Joining ==
    ASSUME NEW L, NEW s \in Seq(L), NEW t \in Seq(L)
    PROVE  /\ s \o t \in Seq(L) /\ Len(s \o t) = Len(s) + Len(t)
           /\ ToSet(s \o t) = ToSet(s) \union ToSet(t)
<1> DEFINE u == s \o t
<1>1. /\ u \in Seq(L) /\ Len(u) = Len(s) + Len(t)
      /\ \A i \in 1..Len(s) : u[i] = s[i]
      /\ \A i \in 1..Len(t) : u[Len(s) + i] = t[i]
      /\ \A i \in (Len(s) + 1)..(Len(s) + Len(t)) : u[i] = t[i - Len(s)]
  OBVIOUS
<1> HIDE DEF u
<1>2. \A x : x \in ToSet(u) => x \in ToSet(s) \union ToSet(t)
  <2> SUFFICES ASSUME NEW i \in DOMAIN u PROVE u[i] \in ToSet(s) \union ToSet(t)
    BY <1>1, Elements
  <2>1. i \in 1..(Len(s) + Len(t)) /\ Len(s) \in Nat /\ Len(t) \in Nat
    BY <1>1
  <2>2. CASE i <= Len(s)
    BY <1>1, <2>1, <2>2, Elements
  <2>3. CASE i > Len(s)
    <3>1. i \in (Len(s) + 1)..(Len(s) + Len(t)) /\ i - Len(s) \in 1..Len(t)
      BY <2>1, <2>3
    <3>2. u[i] = t[i - Len(s)]
      BY <1>1, <3>1
    <3>3. QED
      BY <3>1, <3>2, Elements
  <2>4. QED
    BY <2>1, <2>2, <2>3
<1>3. \A i \in DOMAIN s : s[i] \in ToSet(u)
  <2> SUFFICES ASSUME NEW i \in DOMAIN s PROVE s[i] \in ToSet(u)
    OBVIOUS
  <2>1. i \in 1..Len(s) /\ Len(s) \in Nat /\ Len(t) \in Nat
    OBVIOUS
  <2>2. i \in DOMAIN u /\ u[i] = s[i]
    BY <1>1, <2>1
  <2>3. QED
    BY <1>1, <2>2, Elements
<1>4. \A i \in DOMAIN t : t[i] \in ToSet(u)
  <2> SUFFICES ASSUME NEW i \in DOMAIN t PROVE t[i] \in ToSet(u)
    OBVIOUS
  <2>1. i \in 1..Len(t) /\ Len(s) \in Nat /\ Len(t) \in Nat
    OBVIOUS
  <2>2. Len(s) + i \in DOMAIN u
    BY <1>1, <2>1
  <2>3. u[Len(s) + i] = t[i]
    BY <1>1, <2>1
  <2>4. QED
    BY <1>1, <2>2, <2>3, Elements
<1>5. QED
  BY <1>1, <1>2, <1>3, <1>4, Elements DEF u

\* A flattened list has the elements of its pieces.
LEMMA FlattenedFrom ==
    ASSUME NEW L, NEW seqs \in Seq(Seq(L))
    PROVE  /\ FlattenSeq(seqs) \in Seq(L)
           /\ ToSet(FlattenSeq(seqs)) = UNION {ToSet(seqs[i]) : i \in DOMAIN seqs}
<1> DEFINE Of(n) == UNION {ToSet(seqs[i]) : i \in 1..n}
           P == {x \in Nat \X Seq(L) : ToSet(x[2]) = Of(x[1])}
<1>1. <<0, <<>>>> \in P
  <2>1. <<>> \in Seq(L) /\ ToSet(<<>>) = {}
    BY DEF ToSet
  <2>2. Of(0) = {}
    OBVIOUS
  <2>3. QED
    BY <2>1, <2>2
<1>2. ASSUME NEW n \in 0..(Len(seqs) - 1), NEW s \in Seq(L), <<n, s>> \in P
      PROVE  <<n + 1, s \o seqs[n + 1]>> \in P
  <2>1. n \in Nat /\ n + 1 \in Nat /\ n + 1 \in 1..Len(seqs)
    OBVIOUS
  <2>2. seqs[n + 1] \in Seq(L)
    BY <2>1
  <2>3. ToSet(s) = Of(n)
    BY <1>2
  <2>4. s \o seqs[n + 1] \in Seq(L) /\ ToSet(s \o seqs[n + 1]) = Of(n) \union ToSet(seqs[n + 1])
    BY <2>2, <2>3, Joining
  <2>5. \A i : i \in 1..(n + 1) <=> i \in 1..n \/ i = n + 1
    BY <2>1
  <2>6. Of(n + 1) = Of(n) \union ToSet(seqs[n + 1])
    BY <2>5
  <2> HIDE DEF Of
  <2>7. QED
    BY <2>1, <2>4, <2>6
<1> HIDE DEF P
<1>3. FlattenSeq(seqs) \in Seq(L) /\ <<Len(seqs), FlattenSeq(seqs)>> \in P
  BY <1>1, <1>2, Flattening
<1>4. ToSet(FlattenSeq(seqs)) = Of(Len(seqs))
  <2> HIDE DEF Of
  <2>1. QED
    BY <1>3 DEF P
<1>5. DOMAIN seqs = 1..Len(seqs)
  OBVIOUS
<1>6. QED
  BY <1>3, <1>4, <1>5

-----------------------------------------------------------------------------
LEMMA PickMore ==
    ASSUME NEW L, NEW t \in Seq(L), NEW s \in Seq(L), NEW S, Picks(s, t, S),
           NEW n \in DOMAIN t, \A i \in S : i < n
    PROVE  Picks(s \o <<t[n]>>, t, S \union {n})
<1>1. PICK f \in [DOMAIN s -> DOMAIN t] :
        /\ \A m, o \in DOMAIN s : m < o => f[m] < f[o]
        /\ S = {f[m] : m \in DOMAIN s}
        /\ \A m \in DOMAIN s : s[m] = t[f[m]]
  BY DEF Picks
<1> DEFINE u == s \o <<t[n]>>
           g == [m \in DOMAIN u |-> IF m \in DOMAIN s THEN f[m] ELSE n]
<1>2. Len(s) \in Nat /\ DOMAIN s = 1..Len(s) /\ DOMAIN t \subseteq Nat
  OBVIOUS
<1>3. /\ DOMAIN u = 1..(Len(s) + 1) /\ u[Len(s) + 1] = t[n]
      /\ \A m \in DOMAIN s : u[m] = s[m]
  OBVIOUS
<1>4. /\ g \in [DOMAIN u -> DOMAIN t] /\ g[Len(s) + 1] = n
      /\ \A m \in DOMAIN s : g[m] = f[m] /\ m \in DOMAIN u
  BY <1>2, <1>3
<1>5. \A m : m \in DOMAIN u <=> m \in DOMAIN s \/ m = Len(s) + 1
  BY <1>2, <1>3
<1> HIDE DEF g, u
<1>6. \A m, o \in DOMAIN u : m < o => g[m] < g[o]
  <2> SUFFICES ASSUME NEW m \in DOMAIN u, NEW o \in DOMAIN u, m < o PROVE g[m] < g[o]
    OBVIOUS
  <2>1. m \in DOMAIN s
    BY <1>2, <1>5
  <2>2. g[m] = f[m] /\ f[m] \in S
    BY <1>1, <1>4, <2>1
  <2>3. CASE o \in DOMAIN s
    BY <1>1, <1>4, <2>1, <2>3
  <2>4. CASE o = Len(s) + 1
    BY <1>4, <2>2, <2>4
  <2>5. QED
    BY <1>5, <2>3, <2>4
<1>7. S \union {n} = {g[m] : m \in DOMAIN u}
  BY <1>1, <1>4, <1>5
<1>8. \A m \in DOMAIN u : u[m] = t[g[m]]
  BY <1>1, <1>3, <1>4, <1>5
<1>9. Picks(u, t, S \union {n})
  BY <1>4, <1>6, <1>7, <1>8 DEF Picks
<1>10. QED
  BY <1>9 DEF u

\* What Filter returns: the lines at the positions it keeps.
LEMMA Filtered ==
    ASSUME NEW L, NEW t \in Seq(L), NEW S \in SUBSET DOMAIN t
    PROVE  LET u == FlattenSeq([i \in DOMAIN t |-> IF i \in S THEN <<t[i]>> ELSE <<>>])
           IN  u \in Seq(L) /\ Picks(u, t, S)
<1> DEFINE seqs == [i \in DOMAIN t |-> IF i \in S THEN <<t[i]>> ELSE <<>>]
           P == {x \in Nat \X Seq(L) : Picks(x[2], t, S \cap 1..x[1])}
<1>1. Len(t) \in Nat /\ DOMAIN t = 1..Len(t) /\ \A i \in DOMAIN t : <<t[i]>> \in Seq(L)
  OBVIOUS
<1>2. \A i \in 1..Len(t) : seqs[i] = IF i \in S THEN <<t[i]>> ELSE <<>>
  OBVIOUS
<1>3. seqs = [i \in 1..Len(t) |-> seqs[i]]
  OBVIOUS
<1> HIDE DEF seqs
<1>4. \A i \in 1..Len(t) : seqs[i] \in Seq(L)
  <2> SUFFICES ASSUME NEW i \in 1..Len(t) PROVE seqs[i] \in Seq(L)
    OBVIOUS
  <2>1. CASE i \in S
    BY <1>1, <1>2, <2>1
  <2>2. CASE i \notin S
    <3>1. seqs[i] = <<>>
      BY <1>2, <2>2
    <3>2. <<>> \in Seq(L)
      OBVIOUS
    <3>3. QED
      BY <3>1, <3>2
  <2>3. QED
    BY <2>1, <2>2
<1>5. seqs \in Seq(Seq(L)) /\ Len(seqs) = Len(t)
  BY <1>1, <1>3, <1>4
<1>6. <<0, <<>>>> \in P
  <2> DEFINE f == [m \in {} |-> 0]
  <2>1. DOMAIN <<>> = {} /\ S \cap 1..0 = {} /\ <<>> \in Seq(L)
    OBVIOUS
  <2>2. f \in [DOMAIN <<>> -> DOMAIN t] /\ {f[m] : m \in DOMAIN <<>>} = {}
    BY <2>1
  <2>3. Picks(<<>>, t, {})
    BY <2>1, <2>2 DEF Picks
  <2>4. QED
    BY <2>1, <2>3
<1>7. ASSUME NEW n \in 0..(Len(seqs) - 1), NEW s \in Seq(L), <<n, s>> \in P
      PROVE  <<n + 1, s \o seqs[n + 1]>> \in P
  <2>1. n \in Nat /\ n + 1 \in Nat /\ n + 1 \in 1..Len(t)
    BY <1>1, <1>5
  <2>2. Picks(s, t, S \cap 1..n)
    BY <1>7
  <2>3. \A i : i \in 1..(n + 1) <=> i \in 1..n \/ i = n + 1
    BY <2>1
  <2>4. s \o seqs[n + 1] \in Seq(L)
    BY <1>4, <2>1
  <2>5. CASE n + 1 \in S
    <3>1. seqs[n + 1] = <<t[n + 1]>> /\ S \cap 1..(n + 1) = (S \cap 1..n) \union {n + 1}
      BY <1>2, <2>1, <2>3, <2>5
    <3>2. \A i \in S \cap 1..n : i < n + 1
      BY <2>1
    <3>3. Picks(s \o <<t[n + 1]>>, t, (S \cap 1..n) \union {n + 1})
      BY <1>1, <2>1, <2>2, <3>2, PickMore
    <3>4. QED
      BY <2>1, <2>4, <3>1, <3>3
  <2>6. CASE n + 1 \notin S
    <3>1. seqs[n + 1] = <<>> /\ S \cap 1..(n + 1) = S \cap 1..n
      BY <1>2, <2>1, <2>3, <2>6
    <3>2. s \o <<>> = s
      OBVIOUS
    <3>3. QED
      BY <2>1, <2>2, <2>4, <3>1, <3>2
  <2>7. QED
    BY <2>5, <2>6
<1>8. FlattenSeq(seqs) \in Seq(L) /\ <<Len(seqs), FlattenSeq(seqs)>> \in P
  <2> HIDE DEF P
  <2>1. QED
    BY <1>5, <1>6, <1>7, Flattening
<1>9. S \cap 1..Len(t) = S
  BY <1>1
<1>10. QED
  BY <1>5, <1>8, <1>9 DEF seqs

-----------------------------------------------------------------------------
\* Labels are a matter of the lines of a text, not of their order.
LEMMA LabelSets ==
    ASSUME NEW t
    PROVE  /\ \A n : n \in defined(t) <=> \E x \in ToSet(t) : x.k = "label" /\ x.n = n
           /\ \A n : n \in referenced(t) <=> \E x \in ToSet(t) : x.k \in Jumps /\ x.n = n
BY DEF defined, referenced, ToSet, Jumps

\* A sequence of lines is a text.
LEMMA TextOf ==
    ASSUME NEW L, NEW t \in Seq(L),
           \A x \in L : x = [k |-> x.k, b |-> x.b, n |-> x.n, c |-> x.c]
    PROVE  IsText(t)
<1>1. t \in Seq(ToSet(t))
  <2>1. /\ Len(t) \in Nat /\ t = [i \in 1..Len(t) |-> t[i]]
        /\ \A i \in 1..Len(t) : t[i] \in ToSet(t)
    BY Elements
  <2>2. QED
    BY <2>1
<1>2. ToSet(t) \subseteq L
  BY Elements
<1>3. QED
  BY <1>1, <1>2 DEF IsText

LEMMA PickedLines ==
    ASSUME NEW u, NEW t, NEW S, Picks(u, t, S)
    PROVE  /\ \A x : x \in ToSet(u) <=> \E i \in S : x = t[i]
           /\ S \subseteq DOMAIN t
BY DEF Picks, ToSet

\* Two of the lines picked are two lines of the text.
LEMMA PickedApart ==
    ASSUME NEW L, NEW u \in Seq(L), NEW M, NEW t \in Seq(M), NEW S, Picks(u, t, S),
           NEW m \in DOMAIN u, NEW n \in DOMAIN u, m # n
    PROVE  \E i, j \in S : i < j /\ <<u[m], u[n]>> \in {<<t[i], t[j]>>, <<t[j], t[i]>>}
<1>1. PICK f \in [DOMAIN u -> DOMAIN t] :
        /\ \A a, b \in DOMAIN u : a < b => f[a] < f[b]
        /\ S = {f[a] : a \in DOMAIN u}
        /\ \A a \in DOMAIN u : u[a] = t[f[a]]
  BY DEF Picks
<1>2. m \in Nat /\ n \in Nat /\ f[m] \in S /\ f[n] \in S /\ u[m] = t[f[m]] /\ u[n] = t[f[n]]
  BY <1>1
<1>3. CASE m < n
  BY <1>1, <1>2, <1>3
<1>4. CASE n < m
  BY <1>1, <1>2, <1>4
<1>5. QED
  BY <1>2, <1>3, <1>4

\* Picking lines brings no second definition.
LEMMA NoNewDuplicates ==
    ASSUME NEW L, NEW u \in Seq(L), NEW M, NEW t \in Seq(M), NEW S, Picks(u, t, S),
           ~has_duplicate_label_defs(t)
    PROVE  ~has_duplicate_label_defs(u)
<1> SUFFICES ASSUME NEW m \in DOMAIN u, NEW n \in DOMAIN u, m # n,
                    u[m].k = "label", u[n].k = "label", u[m].n = u[n].n
             PROVE  FALSE
  BY DEF has_duplicate_label_defs
<1>1. PICK i, j \in S : i < j /\ <<u[m], u[n]>> \in {<<t[i], t[j]>>, <<t[j], t[i]>>}
  BY PickedApart
<1>2. i \in DOMAIN t /\ j \in DOMAIN t /\ i # j
  BY <1>1, PickedLines
<1>3. t[i].k = "label" /\ t[j].k = "label" /\ t[i].n = t[j].n
  BY <1>1
<1>4. QED
  BY <1>2, <1>3 DEF has_duplicate_label_defs

\* A label leads where it led when its statements are picked along with it.
LEMMA PickedLead ==
    ASSUME NEW L, NEW u \in Seq(L), NEW M, NEW t \in Seq(M), NEW S, Picks(u, t, S),
           NEW h, Leads(t, h),
           \A i \in S : t[i].k = "label" /\ t[i].n = block_label(h) /\ i + 1 \in DOMAIN t /\ t[i + 1].k = "stmts"
                       => i + 1 \in S
    PROVE  Leads(u, h)
<1>1. PICK f \in [DOMAIN u -> DOMAIN t] :
        /\ \A a, b \in DOMAIN u : a < b => f[a] < f[b]
        /\ S = {f[a] : a \in DOMAIN u}
        /\ \A a \in DOMAIN u : u[a] = t[f[a]]
  BY DEF Picks
<1> SUFFICES ASSUME NEW m \in DOMAIN u, u[m].k = "label", u[m].n = block_label(h)
             PROVE  m + 1 \in DOMAIN u /\ u[m + 1].k = "stmts" /\ u[m + 1].b = h
  BY DEF Leads
<1>2. f[m] \in S /\ f[m] \in DOMAIN t /\ u[m] = t[f[m]]
  BY <1>1
<1>3. f[m] + 1 \in DOMAIN t /\ t[f[m] + 1].k = "stmts" /\ t[f[m] + 1].b = h
  BY <1>2 DEF Leads
<1>4. f[m] + 1 \in S
  BY <1>2, <1>3
<1>5. PICK n \in DOMAIN u : f[n] = f[m] + 1
  BY <1>1, <1>4
<1>6. DOMAIN u = 1..Len(u) /\ Len(u) \in Nat /\ DOMAIN t \subseteq Nat
  OBVIOUS
<1>7. \A a \in DOMAIN u : f[a] \in Nat
  BY <1>1, <1>6
<1>8. m < n
  <2>1. ~(n < m) /\ n # m
    BY <1>1, <1>5, <1>7
  <2>2. QED
    BY <1>6, <2>1
<1>9. m + 1 \in DOMAIN u
  BY <1>6, <1>8
<1>10. ~(m + 1 < n)
  <2> SUFFICES ASSUME m + 1 < n PROVE FALSE
    OBVIOUS
  <2>1. m < m + 1
    BY <1>6
  <2>2. f[m] < f[m + 1] /\ f[m + 1] < f[n]
    BY <1>1, <1>9, <2>1
  <2>3. QED
    BY <1>5, <1>7, <1>9, <2>2
<1>11. n = m + 1
  BY <1>6, <1>8, <1>10
<1>12. QED
  BY <1>1, <1>3, <1>5, <1>11

LEMMA KeptAlong ==
    /\ \A t : StillKept(t, t)
    /\ \A t, u, v : StillKept(t, u) /\ StillKept(u, v) => StillKept(t, v)
    /\ \A h \in Entered : block_label(h) \in extern_entry_labels
<1>1. \A h \in Entered : h \in {b \in Blocks : blk[b].eh}
  BY DEF Entered
<1>2. \A h \in Entered : block_label(h) \in extern_entry_labels
  BY <1>1 DEF extern_entry_labels, block_label
<1>3. QED
  BY <1>2 DEF StillKept

-----------------------------------------------------------------------------
\* The lines a filter keeps.
LEMMA FilterText ==
    ASSUME NEW t, IsText(t), NEW S \in SUBSET DOMAIN t
    PROVE  LET u == FlattenSeq([i \in DOMAIN t |-> IF i \in S THEN <<t[i]>> ELSE <<>>])
           IN  IsText(u) /\ Picks(u, t, S) /\ u \in Seq(ToSet(t))
<1> DEFINE u == FlattenSeq([i \in DOMAIN t |-> IF i \in S THEN <<t[i]>> ELSE <<>>])
<1>1. /\ t \in Seq(ToSet(t))
      /\ \A x \in ToSet(t) : x = [k |-> x.k, b |-> x.b, n |-> x.n, c |-> x.c]
  BY DEF IsText
<1>2. u \in Seq(ToSet(t)) /\ Picks(u, t, S)
  BY <1>1, Filtered
<1> HIDE DEF u
<1>3. IsText(u)
  BY <1>1, <1>2, TextOf
<1>4. QED
  BY <1>2, <1>3 DEF u

LEMMA Dropped ==
    ASSUME NEW t, IsText(t), NEW drop
    PROVE  IsText(Without(t, drop)) /\ Picks(Without(t, drop), t, DOMAIN t \ drop)
<1>1. [i \in DOMAIN t |-> IF i \notin drop THEN <<t[i]>> ELSE <<>>]
        = [i \in DOMAIN t |-> IF i \in DOMAIN t \ drop THEN <<t[i]>> ELSE <<>>]
  OBVIOUS
<1>2. DOMAIN t \ drop \in SUBSET DOMAIN t
  OBVIOUS
<1>3. QED
  BY <1>1, <1>2, FilterText DEF Without, Filter

\* A handler's label ends a dead run, and so its statements stay.
LEMMA Stripped ==
    ASSUME NEW t, IsText(t)
    PROVE  LET u == strip_unreachable_after_terminator(t) IN IsText(u) /\ StillKept(t, u)
<1> DEFINE u == strip_unreachable_after_terminator(t)
           Keep(i) == \A j \in 1..i - 1 : is_uncond_transfer_line(t[j]) =>
                        \E m \in j + 1..i : Brace(t[m]) \/ is_reachable_target(t, t[m])
           S == {i \in DOMAIN t : Keep(i)}
<1>1. u = FlattenSeq([i \in DOMAIN t |-> IF Keep(i) THEN <<t[i]>> ELSE <<>>])
  BY DEF strip_unreachable_after_terminator, Filter
<1> HIDE DEF Keep
<1>2. [i \in DOMAIN t |-> IF Keep(i) THEN <<t[i]>> ELSE <<>>] = [i \in DOMAIN t |-> IF i \in S THEN <<t[i]>> ELSE <<>>]
  OBVIOUS
<1>3. S \in SUBSET DOMAIN t
  OBVIOUS
<1> HIDE DEF S, u
<1>4. IsText(u) /\ Picks(u, t, S)
  BY <1>1, <1>2, <1>3, FilterText
<1>5. t \in Seq(ToSet(t)) /\ u \in Seq(ToSet(u)) /\ DOMAIN t \subseteq Nat
  BY <1>4 DEF IsText
<1>6. ASSUME NEW i \in DOMAIN t, t[i].k = "label", t[i].n \in extern_entry_labels
      PROVE  i \in S /\ (i + 1 \in DOMAIN t => i + 1 \in S)
  <2>1. is_reachable_target(t, t[i]) /\ ~is_uncond_transfer_line(t[i])
    BY <1>6 DEF is_reachable_target, is_uncond_transfer_line
  <2>2. \A j \in 1..i - 1 : i \in j + 1..i /\ i \in j + 1..i + 1
    BY <1>5
  <2>3. \A j \in 1..(i + 1) - 1 : j = i \/ j \in 1..i - 1
    BY <1>5
  <2>4. Keep(i)
    BY <2>1, <2>2 DEF Keep
  <2>5. Keep(i + 1)
    BY <2>1, <2>2, <2>3 DEF Keep
  <2>6. QED
    BY <2>4, <2>5 DEF S
<1>7. StillKept(t, u)
  <2> SUFFICES ASSUME NEW h \in Entered
               PROVE  /\ (Leads(t, h) => Leads(u, h))
                      /\ (block_label(h) \in defined(t) => block_label(h) \in defined(u))
    BY DEF StillKept
  <2>1. block_label(h) \in extern_entry_labels
    BY KeptAlong
  <2>2. Leads(t, h) => Leads(u, h)
    BY <1>3, <1>4, <1>5, <1>6, <2>1, PickedLead
  <2>3. block_label(h) \in defined(t) => block_label(h) \in defined(u)
    <3>1. \A x : x \in ToSet(t) <=> \E i \in DOMAIN t : x = t[i]
      BY DEF ToSet
    <3>2. \A x \in ToSet(t) : x.k = "label" /\ x.n = block_label(h) => x \in ToSet(u)
      BY <1>4, <1>6, <2>1, <3>1, PickedLines
    <3>3. QED
      BY <3>2, LabelSets
  <2>4. QED
    BY <2>2, <2>3
<1>8. QED
  BY <1>4, <1>7 DEF u

\* The labels that a goto asks for survive the pruning.
LEMMA Pruned ==
    ASSUME NEW t, IsText(t)
    PROVE  LET u == prune_dead_labels(t)
           IN  /\ IsText(u) /\ referenced(u) = referenced(t)
               /\ referenced(t) \intersect defined(t) \subseteq defined(u)
               /\ StillKept(t, u)
<1> DEFINE Keep(i) == t[i].k = "label" => t[i].n \in referenced(t) \union extern_entry_labels
           S == {i \in DOMAIN t : Keep(i)}
           u == prune_dead_labels(t)
<1>1. u = FlattenSeq([i \in DOMAIN t |-> IF Keep(i) THEN <<t[i]>> ELSE <<>>])
  BY DEF prune_dead_labels, Filter
<1>2. \A i \in DOMAIN t : t[i].k # "label" \/ t[i].n \in referenced(t) => i \in S
  OBVIOUS
<1> HIDE DEF Keep
<1>3. [i \in DOMAIN t |-> IF Keep(i) THEN <<t[i]>> ELSE <<>>] = [i \in DOMAIN t |-> IF i \in S THEN <<t[i]>> ELSE <<>>]
  OBVIOUS
<1>4. S \in SUBSET DOMAIN t
  OBVIOUS
<1> HIDE DEF S, u
<1>5. IsText(u) /\ Picks(u, t, S)
  BY <1>1, <1>3, <1>4, FilterText
<1>6. \A x : x \in ToSet(u) <=> \E i \in S : x = t[i]
  BY <1>5, PickedLines
<1>7. \A x : x \in ToSet(t) <=> \E i \in DOMAIN t : x = t[i]
  BY DEF ToSet
<1>8. \A x \in ToSet(t) : x.k \in Jumps => x \in ToSet(u)
  BY <1>2, <1>6, <1>7 DEF Jumps
<1>9. \A x \in ToSet(u) : x \in ToSet(t)
  BY <1>4, <1>6, <1>7
<1>10. referenced(u) = referenced(t)
  BY <1>8, <1>9, LabelSets
<1>11. \A x \in ToSet(t) : x.n \in referenced(t) => x \in ToSet(u)
  BY <1>2, <1>6, <1>7
<1>12. referenced(t) \intersect defined(t) \subseteq defined(u)
  BY <1>11, LabelSets
<1>13. \A i \in DOMAIN t : t[i].k # "label" \/ t[i].n \in extern_entry_labels => i \in S
  BY DEF S, Keep
<1>14. t \in Seq(ToSet(t)) /\ u \in Seq(ToSet(u))
  BY <1>5 DEF IsText
<1>15. StillKept(t, u)
  <2> SUFFICES ASSUME NEW h \in Entered
               PROVE  /\ (Leads(t, h) => Leads(u, h))
                      /\ (block_label(h) \in defined(t) => block_label(h) \in defined(u))
    BY DEF StillKept
  <2>1. block_label(h) \in extern_entry_labels
    BY KeptAlong
  <2>2. Leads(t, h) => Leads(u, h)
    BY <1>5, <1>13, <1>14, PickedLead
  <2>3. \A x \in ToSet(t) : x.n = block_label(h) => x \in ToSet(u)
    BY <1>6, <1>7, <1>13, <2>1
  <2>4. QED
    BY <2>2, <2>3, LabelSets
<1>16. QED
  BY <1>5, <1>10, <1>12, <1>15 DEF u

\* The first definition of every label stays, and no other.
LEMMA Deduped ==
    ASSUME NEW t, IsText(t)
    PROVE  LET u == dedupe_label_defs(t)
           IN  /\ IsText(u) /\ referenced(u) = referenced(t) /\ defined(u) = defined(t)
               /\ ~has_duplicate_label_defs(u) /\ StillKept(t, u)
<1> DEFINE Again(i) == t[i].k = "label" /\ \E j \in 1..i - 1 : t[j].k = "label" /\ t[j].n = t[i].n
           S == {i \in DOMAIN t : ~Again(i)}
           u == dedupe_label_defs(t)
<1>1. u = FlattenSeq([i \in DOMAIN t |-> IF ~Again(i) THEN <<t[i]>> ELSE <<>>])
  BY DEF dedupe_label_defs, Filter
<1> HIDE DEF Again
<1>2. [i \in DOMAIN t |-> IF ~Again(i) THEN <<t[i]>> ELSE <<>>] = [i \in DOMAIN t |-> IF i \in S THEN <<t[i]>> ELSE <<>>]
  OBVIOUS
<1>3. S \in SUBSET DOMAIN t
  OBVIOUS
<1> HIDE DEF S, u
<1>4. IsText(u) /\ Picks(u, t, S) /\ u \in Seq(ToSet(t))
  BY <1>1, <1>2, <1>3, FilterText
<1>5. \A x : x \in ToSet(u) <=> \E i \in S : x = t[i]
  BY <1>4, PickedLines
<1>6. \A x : x \in ToSet(t) <=> \E i \in DOMAIN t : x = t[i]
  BY DEF ToSet
<1>7. t \in Seq(ToSet(t)) /\ DOMAIN t = 1..Len(t) /\ Len(t) \in Nat
  BY DEF IsText
<1>8. \A x \in ToSet(t) : x.k \in Jumps => x \in ToSet(u)
  BY <1>5, <1>6 DEF Jumps, Again, S
<1>9. \A x \in ToSet(u) : x \in ToSet(t)
  BY <1>3, <1>5, <1>6
<1>10. referenced(u) = referenced(t)
  BY <1>8, <1>9, LabelSets
<1>11. ASSUME NEW n \in defined(t) PROVE n \in defined(u)
  <2> DEFINE Defs == {i \in DOMAIN t : t[i].k = "label" /\ t[i].n = n}
  <2>1. Defs # {} /\ Defs \in SUBSET Nat
    BY <1>6, <1>7, <1>11, LabelSets
  <2>2. PICK l \in Defs : \A m \in Defs : l <= m
    BY <2>1, LeastOf
  <2>3. ~Again(l)
    <3> SUFFICES ASSUME NEW j \in 1..l - 1, t[j].k = "label", t[j].n = n PROVE FALSE
      BY <2>2 DEF Again
    <3>1. j \in DOMAIN t /\ j < l /\ l \in Nat /\ j \in Nat
      BY <1>7, <2>2
    <3>2. j \in Defs
      BY <3>1
    <3>3. QED
      BY <2>2, <3>1, <3>2
  <2>4. l \in S /\ t[l].k = "label" /\ t[l].n = n
    BY <2>2, <2>3 DEF S
  <2>5. QED
    BY <1>5, <2>4, LabelSets
<1>12. defined(u) = defined(t)
  <2>1. \A n \in defined(u) : n \in defined(t)
    BY <1>9, LabelSets
  <2>2. QED
    BY <1>11, <2>1
<1>13. ASSUME has_duplicate_label_defs(u) PROVE FALSE
  <2>1. PICK m, n \in DOMAIN u : m # n /\ u[m].k = "label" /\ u[n].k = "label" /\ u[m].n = u[n].n
    BY <1>13 DEF has_duplicate_label_defs
  <2>2. PICK i, j \in S : i < j /\ <<u[m], u[n]>> \in {<<t[i], t[j]>>, <<t[j], t[i]>>}
    BY <1>4, <1>7, <2>1, PickedApart
  <2>3. t[i].k = "label" /\ t[j].k = "label" /\ t[i].n = t[j].n
    BY <2>1, <2>2
  <2>4. i \in 1..j - 1
    BY <1>3, <1>7, <2>2
  <2>5. Again(j)
    BY <2>3, <2>4 DEF Again
  <2>6. QED
    BY <2>2, <2>5 DEF S
<1>14. StillKept(t, u)
  <2> SUFFICES ASSUME NEW h \in Entered, Leads(t, h) PROVE Leads(u, h)
    BY <1>12 DEF StillKept
  <2>1. \A i \in DOMAIN t : t[i].k = "stmts" => i \in S
    BY DEF S, Again
  <2>2. QED
    BY <1>4, <1>7, <2>1, PickedLead
<1>15. QED
  BY <1>4, <1>10, <1>12, <1>13, <1>14 DEF u

-----------------------------------------------------------------------------
Fine(t) == IsText(t) /\ labels_consistent(t)
Dispatches(t) == \E x \in ToSet(t) : x.k = "dispatch"
\* v is as fine as t and has lost nothing that matters.
Follows(t, v) == Fine(v) /\ StillKept(t, v) /\ (Dispatches(t) => Dispatches(v))
Fixed == Names \union {"stmts", "dispatch"}

LEMMA Following ==
    /\ \A t : Fine(t) => Follows(t, t)
    /\ \A t, u, v : Follows(t, u) /\ Follows(u, v) => Follows(t, v)
BY KeptAlong DEF Follows

\* Lines that are no labels and no gotos may change and go.
LEMMA Edited ==
    ASSUME NEW t, Fine(t), NEW u, IsText(u), DOMAIN u = DOMAIN t,
           \A m \in DOMAIN t : u[m].k \in Fixed \/ t[m].k \in Fixed => u[m] = t[m],
           NEW drop, \A m \in drop \intersect DOMAIN t : t[m].k \notin Fixed
    PROVE  Follows(t, Without(u, drop))
<1> DEFINE v == Without(u, drop)
<1>1. IsText(v) /\ Picks(v, u, DOMAIN u \ drop)
  BY Dropped
<1> HIDE DEF v
<1>2. \A x : x \in ToSet(v) <=> \E i \in DOMAIN u \ drop : x = u[i]
  BY <1>1, PickedLines
<1>3. \A x : x \in ToSet(t) <=> \E i \in DOMAIN t : x = t[i]
  BY DEF ToSet
<1>4. ASSUME NEW x, x.k \in Fixed PROVE x \in ToSet(v) <=> x \in ToSet(t)
  BY <1>2, <1>3, <1>4
<1>5. referenced(v) = referenced(t)
  <2>1. \A x : x.k \in Jumps => (x \in ToSet(v) <=> x \in ToSet(t))
    BY <1>4 DEF Fixed, Names, Jumps
  <2>2. \A n \in referenced(v) : n \in referenced(t)
    BY <2>1, LabelSets
  <2>3. \A n \in referenced(t) : n \in referenced(v)
    BY <2>1, LabelSets
  <2>4. QED
    BY <2>2, <2>3
<1>6. \A n \in defined(t) : n \in defined(v)
  BY <1>4, LabelSets DEF Fixed, Names
<1>7. ~has_duplicate_label_defs(u)
  <2>1. ~has_duplicate_label_defs(t)
    BY DEF Fine, labels_consistent
  <2>2. QED
    BY <2>1 DEF has_duplicate_label_defs, Fixed, Names
<1>8. ~has_duplicate_label_defs(v)
  <2>1. v \in Seq(ToSet(v)) /\ u \in Seq(ToSet(u))
    BY <1>1 DEF IsText
  <2>2. QED
    BY <1>1, <1>7, <2>1, NoNewDuplicates
<1>9. referenced(t) \subseteq defined(t)
  BY DEF Fine, labels_consistent
<1>10. Fine(v)
  BY <1>1, <1>5, <1>6, <1>8, <1>9 DEF Fine, labels_consistent
<1>11. Dispatches(t) => Dispatches(v)
  BY <1>4 DEF Dispatches, Fixed
<1>12. ASSUME NEW h \in Entered, Leads(t, h) PROVE Leads(v, h)
  <2>1. Leads(u, h)
    <3> SUFFICES ASSUME NEW m \in DOMAIN u, u[m].k = "label", u[m].n = block_label(h)
                 PROVE  m + 1 \in DOMAIN u /\ u[m + 1].k = "stmts" /\ u[m + 1].b = h
      BY DEF Leads
    <3>1. u[m] = t[m] /\ m \in DOMAIN t
      BY DEF Fixed, Names
    <3>2. m + 1 \in DOMAIN t /\ t[m + 1].k = "stmts" /\ t[m + 1].b = h
      BY <1>12, <3>1 DEF Leads
    <3>3. u[m + 1] = t[m + 1]
      BY <3>2 DEF Fixed
    <3>4. QED
      BY <3>2, <3>3
  <2>2. v \in Seq(ToSet(v)) /\ u \in Seq(ToSet(u))
    BY <1>1 DEF IsText
  <2>3. \A i \in DOMAIN u : u[i].k = "stmts" => i \in DOMAIN u \ drop
    BY DEF Fixed
  <2>4. QED
    BY <1>1, <2>1, <2>2, <2>3, PickedLead
<1>13. QED
  BY <1>6, <1>10, <1>11, <1>12 DEF Follows, StillKept, v

\* The least of a set of places is one of them.
LEMMA LeastPlace ==
    ASSUME NEW S \in SUBSET Nat, S # {}
    PROVE  Min(S) \in S
<1>1. \E l \in S : \A m \in S : l <= m
  BY LeastOf
<1>2. QED
  BY <1>1 DEF Min

LEMMA ClosedBy ==
    ASSUME NEW t, IsText(t), NEW i \in DOMAIN t, Closes(t, i) # {}
    PROVE  CloseOf(t, i) \in DOMAIN t /\ CloseOf(t, i) > i /\ t[CloseOf(t, i)].k = "end"
<1>1. t \in Seq(ToSet(t))
  BY DEF IsText
<1>2. DOMAIN t = 1..Len(t) /\ Len(t) \in Nat /\ i \in Nat
  BY <1>1
<1>3. \A m \in Closes(t, i) : m \in i + 1..Len(t) /\ t[m].k = "end"
  BY DEF Closes
<1> DEFINE S == Closes(t, i)
<1> HIDE DEF S
<1>4. S \in SUBSET Nat
  BY <1>2, <1>3 DEF S
<1>5. Min(S) \in S
  BY <1>4, LeastPlace DEF S
<1>6. CloseOf(t, i) \in Closes(t, i)
  BY <1>5 DEF CloseOf, S
<1>7. QED
  BY <1>2, <1>3, <1>6

LEMMA Relined ==
    ASSUME NEW t, IsText(t), NEW i \in DOMAIN t, NEW K, NEW B, NEW N, NEW C
    PROVE  LET u == [t EXCEPT ![i] = [k |-> K, b |-> B, n |-> N, c |-> C]]
           IN  /\ IsText(u) /\ DOMAIN u = DOMAIN t
               /\ u[i].k = K /\ \A m \in DOMAIN t : m # i => u[m] = t[m]
<1> DEFINE x == [k |-> K, b |-> B, n |-> N, c |-> C]
           u == [t EXCEPT ![i] = x]
           L == ToSet(t) \union {x}
<1>1. t \in Seq(ToSet(t)) /\ \A y \in ToSet(t) : y = [k |-> y.k, b |-> y.b, n |-> y.n, c |-> y.c]
  BY DEF IsText
<1>2. x = [k |-> x.k, b |-> x.b, n |-> x.n, c |-> x.c] /\ x.k = K
  OBVIOUS
<1> HIDE DEF x
<1>3. u \in Seq(L) /\ DOMAIN u = DOMAIN t /\ u[i] = x /\ \A m \in DOMAIN t : m # i => u[m] = t[m]
  <2>1. t \in Seq(L)
    BY <1>1
  <2>2. QED
    BY <2>1
<1>4. \A y \in L : y = [k |-> y.k, b |-> y.b, n |-> y.n, c |-> y.c]
  BY <1>1, <1>2
<1> HIDE DEF u, L
<1>5. IsText(u)
  BY <1>3, <1>4, TextOf
<1>6. QED
  BY <1>2, <1>3, <1>5 DEF u, x

LEMMA GuardsJoin ==
    ASSUME NEW t, Fine(t), NEW i \in AndGuards(t)
    PROVE  Follows(t, JoinGuards(t, i))
<1>1. IsText(t) /\ t \in Seq(ToSet(t)) /\ \A x \in ToSet(t) : x = [k |-> x.k, b |-> x.b, n |-> x.n, c |-> x.c]
  BY DEF Fine, IsText
<1>2. i \in 1..Len(t) - 1 /\ t[i].k = "if" /\ t[i + 1].k = "if" /\ SoleChild(t, i)
  BY DEF AndGuards
<1>3. DOMAIN t = 1..Len(t) /\ Len(t) \in Nat
  BY <1>1
<1>4. i \in DOMAIN t /\ i + 1 \in DOMAIN t /\ i # i + 1
  BY <1>2, <1>3
<1>5. /\ CloseOf(t, i + 1) \in DOMAIN t /\ t[CloseOf(t, i + 1)].k = "end"
  BY <1>1, <1>2, <1>4, ClosedBy DEF SoleChild
<1> DEFINE c == wrap(t[i].c) \o Op("&&") \o wrap(t[i + 1].c)
           x == t[i]
           u == [t EXCEPT ![i].c = c]
           drop == {i + 1, CloseOf(t, i + 1)}
<1> HIDE DEF c
<1>6. x \in ToSet(t) /\ u = [t EXCEPT ![i] = [x EXCEPT !.c = c]]
  BY <1>4 DEF ToSet
<1> HIDE DEF x
<1>7. [x EXCEPT !.c = c] = [k |-> x.k, b |-> x.b, n |-> x.n, c |-> c]
  BY <1>1, <1>6
<1>8. u = [t EXCEPT ![i] = [k |-> x.k, b |-> x.b, n |-> x.n, c |-> c]]
  BY <1>6, <1>7
<1> HIDE DEF u
<1>9. /\ IsText(u) /\ DOMAIN u = DOMAIN t
      /\ u[i].k = x.k /\ \A m \in DOMAIN t : m # i => u[m] = t[m]
  BY <1>1, <1>4, <1>8, Relined
<1>10. \A m \in DOMAIN t : u[m].k \in Fixed \/ t[m].k \in Fixed => u[m] = t[m]
  BY <1>2, <1>9 DEF Fixed, Names, x
<1>11. \A m \in drop \intersect DOMAIN t : t[m].k \notin Fixed
  BY <1>2, <1>5 DEF Fixed, Names
<1> HIDE DEF drop
<1>12. Follows(t, Without(u, drop))
  BY <1>9, <1>10, <1>11, Edited
<1>13. QED
  BY <1>12 DEF JoinGuards, c, u, drop

LEMMA ElseIfJoins ==
    ASSUME NEW t, Fine(t), NEW i \in ElseIfs(t)
    PROVE  Follows(t, JoinElseIf(t, i))
<1>1. IsText(t) /\ t \in Seq(ToSet(t)) /\ \A x \in ToSet(t) : x = [k |-> x.k, b |-> x.b, n |-> x.n, c |-> x.c]
  BY DEF Fine, IsText
<1>2. i \in 1..Len(t) - 1 /\ t[i].k = "else" /\ t[i + 1].k = "if" /\ SoleChild(t, i)
  BY DEF ElseIfs
<1>3. DOMAIN t = 1..Len(t) /\ Len(t) \in Nat
  BY <1>1
<1>4. i \in DOMAIN t /\ i + 1 \in DOMAIN t /\ i # i + 1
  BY <1>2, <1>3
<1>5. /\ CloseOf(t, i) \in DOMAIN t /\ t[CloseOf(t, i)].k = "end"
  BY <1>1, <1>2, <1>4, ClosedBy DEF SoleChild
<1> DEFINE x == t[i + 1]
           u == [t EXCEPT ![i] = [x EXCEPT !.k = "elif"]]
           drop == {i + 1, CloseOf(t, i)}
<1>6. x \in ToSet(t)
  BY <1>4 DEF ToSet
<1> HIDE DEF x
<1>7. [x EXCEPT !.k = "elif"] = [k |-> "elif", b |-> x.b, n |-> x.n, c |-> x.c]
  BY <1>1, <1>6
<1>8. u = [t EXCEPT ![i] = [k |-> "elif", b |-> x.b, n |-> x.n, c |-> x.c]]
  BY <1>7
<1> HIDE DEF u
<1>9. /\ IsText(u) /\ DOMAIN u = DOMAIN t
      /\ u[i].k = "elif" /\ \A m \in DOMAIN t : m # i => u[m] = t[m]
  BY <1>1, <1>4, <1>8, Relined
<1>10. \A m \in DOMAIN t : u[m].k \in Fixed \/ t[m].k \in Fixed => u[m] = t[m]
  BY <1>2, <1>9 DEF Fixed, Names
<1>11. \A m \in drop \intersect DOMAIN t : t[m].k \notin Fixed
  BY <1>2, <1>5 DEF Fixed, Names
<1> HIDE DEF drop
<1>12. Follows(t, Without(u, drop))
  BY <1>9, <1>10, <1>11, Edited
<1>13. QED
  BY <1>12 DEF JoinElseIf, u, drop, x

LEMMA GuardsJoined ==
    ASSUME NEW t, Fine(t)
    PROVE  Follows(t, collapse_and_guards(t))
<1> DEFINE N == Cardinality({i \in DOMAIN t : t[i].k = "if"})
           Then(x) == IF AndGuards(x) = {} THEN x ELSE JoinGuards(x, Min(AndGuards(x)))
           Is(p, n) == p = [i \in 0..n |-> IF i = 0 THEN t ELSE Then(p[i - 1])]
           Done == {n \in Nat : \E p : Is(p, n)}
<1>1. N \in Nat
  <2>1. t \in Seq(ToSet(t))
    BY DEF Fine, IsText
  <2>2. Len(t) \in Nat /\ {i \in DOMAIN t : t[i].k = "if"} \in SUBSET (1..Len(t))
    BY <2>1
  <2>3. IsFiniteSet(1..Len(t))
    BY <2>2, FS_Interval
  <2>4. IsFiniteSet({i \in DOMAIN t : t[i].k = "if"})
    BY <2>2, <2>3, FS_Subset
  <2>5. QED
    BY <2>4, FS_CardinalityType
<1> HIDE DEF N
<1>2. \A x : Follows(t, x) => Follows(t, Then(x))
  <2> SUFFICES ASSUME NEW x, Follows(t, x), AndGuards(x) # {} PROVE Follows(t, JoinGuards(x, Min(AndGuards(x))))
    OBVIOUS
  <2> DEFINE S == AndGuards(x)
  <2>1. S \in SUBSET Nat
    BY DEF AndGuards
  <2> HIDE DEF S
  <2>2. Min(S) \in S
    BY <2>1, LeastPlace DEF S
  <2>3. Follows(x, JoinGuards(x, Min(AndGuards(x))))
    BY <2>2, GuardsJoin DEF S, Follows
  <2>4. QED
    BY <2>3, Following
<1> HIDE DEF Then
<1>3. 0 \in Done
  <2>1. Is([i \in 0..0 |-> t], 0)
    OBVIOUS
  <2>2. QED
    BY <2>1
<1>4. ASSUME NEW n \in Nat, n \in Done PROVE n + 1 \in Done
  <2>1. PICK p : Is(p, n)
    BY <1>4
  <2> DEFINE q == [i \in 0..(n + 1) |-> IF i = n + 1 THEN Then(p[n]) ELSE p[i]]
  <2>2. /\ n + 1 \in 0..(n + 1) /\ (n + 1) - 1 = n /\ n + 1 # 0 /\ n \in 0..n
        /\ \A i \in 0..n : i \in 0..(n + 1) /\ i # n + 1 /\ (i # 0 => i - 1 \in 0..n)
    OBVIOUS
  <2>3. q[n + 1] = Then(p[n]) /\ \A i \in 0..n : q[i] = p[i]
    BY <2>2
  <2>4. \A i \in 0..n : p[i] = IF i = 0 THEN t ELSE Then(p[i - 1])
    BY <2>1
  <2>5. q = [i \in 0..(n + 1) |-> q[i]]
    OBVIOUS
  <2> HIDE DEF q
  <2>6. \A i \in 0..(n + 1) : q[i] = IF i = 0 THEN t ELSE Then(q[i - 1])
    <3> SUFFICES ASSUME NEW i \in 0..(n + 1) PROVE q[i] = IF i = 0 THEN t ELSE Then(q[i - 1])
      OBVIOUS
    <3>1. CASE i = n + 1
      BY <2>2, <2>3, <3>1
    <3>2. CASE i \in 0..n
      BY <2>2, <2>3, <2>4, <3>2
    <3>3. QED
      BY <3>1, <3>2
  <2>7. Is(q, n + 1)
    BY <2>5, <2>6
  <2>8. QED
    <3> HIDE DEF Is
    <3>1. QED
      BY <2>7
<1>5. PICK p : Is(p, N)
  <2>1. N \in Done
    <3> HIDE DEF Done
    <3>1. QED
      BY <1>1, <1>3, <1>4, CountUp
  <2>2. QED
    BY <2>1
<1> DEFINE joined == CHOOSE f : Is(f, N)
<1>6. collapse_and_guards(t) = joined[N]
  BY DEF collapse_and_guards, Joined, N, Then
<1>7. Is(joined, N)
  <2> HIDE DEF Is
  <2>1. QED
    BY <1>5
<1> HIDE DEF joined
<1>8. \A i \in 0..N : joined[i] = IF i = 0 THEN t ELSE Then(joined[i - 1])
  BY <1>7
<1> DEFINE Good == {n \in Nat : n <= N => Follows(t, joined[n])}
<1>9. 0 \in Good
  BY <1>1, <1>8, Following
<1>10. ASSUME NEW n \in Nat, n \in Good PROVE n + 1 \in Good
  <2> SUFFICES ASSUME n + 1 <= N PROVE Follows(t, joined[n + 1])
    OBVIOUS
  <2>1. Follows(t, joined[n]) /\ n + 1 \in 0..N /\ n + 1 # 0 /\ (n + 1) - 1 = n
    BY <1>1, <1>10
  <2>2. joined[n + 1] = Then(joined[n])
    BY <1>8, <2>1
  <2>3. QED
    BY <1>2, <2>1, <2>2
<1>11. N \in Good
  <2> HIDE DEF Good
  <2>1. QED
    BY <1>1, <1>9, <1>10, CountUp
<1>12. QED
  BY <1>1, <1>6, <1>11

LEMMA ElseIfsJoined ==
    ASSUME NEW t, Fine(t)
    PROVE  Follows(t, collapse_else_if(t))
<1> DEFINE N == Cardinality({i \in DOMAIN t : t[i].k = "if"})
           Then(x) == IF ElseIfs(x) = {} THEN x ELSE JoinElseIf(x, Min(ElseIfs(x)))
           Is(p, n) == p = [i \in 0..n |-> IF i = 0 THEN t ELSE Then(p[i - 1])]
           Done == {n \in Nat : \E p : Is(p, n)}
<1>1. N \in Nat
  <2>1. t \in Seq(ToSet(t))
    BY DEF Fine, IsText
  <2>2. Len(t) \in Nat /\ {i \in DOMAIN t : t[i].k = "if"} \in SUBSET (1..Len(t))
    BY <2>1
  <2>3. IsFiniteSet(1..Len(t))
    BY <2>2, FS_Interval
  <2>4. IsFiniteSet({i \in DOMAIN t : t[i].k = "if"})
    BY <2>2, <2>3, FS_Subset
  <2>5. QED
    BY <2>4, FS_CardinalityType
<1> HIDE DEF N
<1>2. \A x : Follows(t, x) => Follows(t, Then(x))
  <2> SUFFICES ASSUME NEW x, Follows(t, x), ElseIfs(x) # {} PROVE Follows(t, JoinElseIf(x, Min(ElseIfs(x))))
    OBVIOUS
  <2> DEFINE S == ElseIfs(x)
  <2>1. S \in SUBSET Nat
    BY DEF ElseIfs
  <2> HIDE DEF S
  <2>2. Min(S) \in S
    BY <2>1, LeastPlace DEF S
  <2>3. Follows(x, JoinElseIf(x, Min(ElseIfs(x))))
    BY <2>2, ElseIfJoins DEF S, Follows
  <2>4. QED
    BY <2>3, Following
<1> HIDE DEF Then
<1>3. 0 \in Done
  <2>1. Is([i \in 0..0 |-> t], 0)
    OBVIOUS
  <2>2. QED
    BY <2>1
<1>4. ASSUME NEW n \in Nat, n \in Done PROVE n + 1 \in Done
  <2>1. PICK p : Is(p, n)
    BY <1>4
  <2> DEFINE q == [i \in 0..(n + 1) |-> IF i = n + 1 THEN Then(p[n]) ELSE p[i]]
  <2>2. /\ n + 1 \in 0..(n + 1) /\ (n + 1) - 1 = n /\ n + 1 # 0 /\ n \in 0..n
        /\ \A i \in 0..n : i \in 0..(n + 1) /\ i # n + 1 /\ (i # 0 => i - 1 \in 0..n)
    OBVIOUS
  <2>3. q[n + 1] = Then(p[n]) /\ \A i \in 0..n : q[i] = p[i]
    BY <2>2
  <2>4. \A i \in 0..n : p[i] = IF i = 0 THEN t ELSE Then(p[i - 1])
    BY <2>1
  <2>5. q = [i \in 0..(n + 1) |-> q[i]]
    OBVIOUS
  <2> HIDE DEF q
  <2>6. \A i \in 0..(n + 1) : q[i] = IF i = 0 THEN t ELSE Then(q[i - 1])
    <3> SUFFICES ASSUME NEW i \in 0..(n + 1) PROVE q[i] = IF i = 0 THEN t ELSE Then(q[i - 1])
      OBVIOUS
    <3>1. CASE i = n + 1
      BY <2>2, <2>3, <3>1
    <3>2. CASE i \in 0..n
      BY <2>2, <2>3, <2>4, <3>2
    <3>3. QED
      BY <3>1, <3>2
  <2>7. Is(q, n + 1)
    BY <2>5, <2>6
  <2>8. QED
    <3> HIDE DEF Is
    <3>1. QED
      BY <2>7
<1>5. PICK p : Is(p, N)
  <2>1. N \in Done
    <3> HIDE DEF Done
    <3>1. QED
      BY <1>1, <1>3, <1>4, CountUp
  <2>2. QED
    BY <2>1
<1> DEFINE joined == CHOOSE f : Is(f, N)
<1>6. collapse_else_if(t) = joined[N]
  BY DEF collapse_else_if, Joined, N, Then
<1>7. Is(joined, N)
  <2> HIDE DEF Is
  <2>1. QED
    BY <1>5
<1> HIDE DEF joined
<1>8. \A i \in 0..N : joined[i] = IF i = 0 THEN t ELSE Then(joined[i - 1])
  BY <1>7
<1> DEFINE Good == {n \in Nat : n <= N => Follows(t, joined[n])}
<1>9. 0 \in Good
  BY <1>1, <1>8, Following
<1>10. ASSUME NEW n \in Nat, n \in Good PROVE n + 1 \in Good
  <2> SUFFICES ASSUME n + 1 <= N PROVE Follows(t, joined[n + 1])
    OBVIOUS
  <2>1. Follows(t, joined[n]) /\ n + 1 \in 0..N /\ n + 1 # 0 /\ (n + 1) - 1 = n
    BY <1>1, <1>10
  <2>2. joined[n + 1] = Then(joined[n])
    BY <1>8, <2>1
  <2>3. QED
    BY <1>2, <2>1, <2>2
<1>11. N \in Good
  <2> HIDE DEF Good
  <2>1. QED
    BY <1>1, <1>9, <1>10, CountUp
<1>12. QED
  BY <1>1, <1>6, <1>11

-----------------------------------------------------------------------------
\* The blocks by address: every block once.
LEMMA Ordered ==
    ASSUME Graph, NEW bs \in SUBSET Blocks
    PROVE  ByAddress(bs) \in Seq(bs) /\ ToSet(ByAddress(bs)) = bs
<1> DEFINE Pred(b) == {a \in bs : Before(a, b)}
           N == Cardinality(bs)
<1>1. IsFiniteSet(bs) /\ N \in Nat
  <2>1. Len(blk) \in Nat /\ Blocks = 1..Len(blk)
    BY DEF Graph
  <2>2. IsFiniteSet(1..Len(blk))
    BY <2>1, FS_Interval
  <2>3. IsFiniteSet(bs)
    BY <2>1, <2>2, FS_Subset
  <2>4. QED
    BY <2>3, FS_CardinalityType
<1>2. \A b \in bs : b \in Nat /\ blk[b].addr \in Nat
  BY DEF Graph
<1>3. \A a, b \in bs : a # b => Before(a, b) \/ Before(b, a)
  BY <1>2 DEF Before
<1>4. \A a, b, c \in bs : ~Before(a, a) /\ (Before(a, b) /\ Before(b, c) => Before(a, c))
  BY <1>2 DEF Before
<1>5. \A b \in bs : IsFiniteSet(Pred(b)) /\ Cardinality(Pred(b)) \in Nat /\ Cardinality(Pred(b)) < N
  <2> SUFFICES ASSUME NEW b \in bs
               PROVE  IsFiniteSet(Pred(b)) /\ Cardinality(Pred(b)) \in Nat /\ Cardinality(Pred(b)) < N
    OBVIOUS
  <2>1. Pred(b) \in SUBSET bs /\ b \notin Pred(b)
    BY <1>4
  <2> HIDE DEF Pred
  <2>2. IsFiniteSet(Pred(b)) /\ Cardinality(Pred(b)) <= N /\ Cardinality(Pred(b)) # N
    BY <1>1, <2>1, FS_Subset
  <2>3. Cardinality(Pred(b)) \in Nat
    BY <2>2, FS_CardinalityType
  <2> HIDE DEF N
  <2>4. QED
    BY <1>1, <2>2, <2>3
<1>6. \A a, b \in bs : Before(a, b) => Cardinality(Pred(a)) < Cardinality(Pred(b))
  <2> SUFFICES ASSUME NEW a \in bs, NEW b \in bs, Before(a, b)
               PROVE  Cardinality(Pred(a)) < Cardinality(Pred(b))
    OBVIOUS
  <2>1. Pred(a) \in SUBSET Pred(b) /\ a \in Pred(b) /\ a \notin Pred(a)
    BY <1>4
  <2> HIDE DEF Pred
  <2>2. Cardinality(Pred(a)) <= Cardinality(Pred(b)) /\ Cardinality(Pred(a)) # Cardinality(Pred(b))
    BY <1>5, <2>1, FS_Subset
  <2>3. Cardinality(Pred(a)) \in Nat /\ Cardinality(Pred(b)) \in Nat
    BY <1>5
  <2>4. QED
    BY <2>2, <2>3
<1> DEFINE rank == [b \in bs |-> Cardinality(Pred(b)) + 1]
           order == ByAddress(bs)
<1>7. rank \in [bs -> 1..N]
  BY <1>1, <1>5
<1>8. \A b \in bs : rank[b] = Cardinality(Pred(b)) + 1
  OBVIOUS
<1> HIDE DEF rank
<1>9. \A a, b \in bs : a # b => rank[a] # rank[b]
  <2> SUFFICES ASSUME NEW a \in bs, NEW b \in bs, a # b, rank[a] = rank[b] PROVE FALSE
    OBVIOUS
  <2>1. Cardinality(Pred(a)) \in Nat /\ Cardinality(Pred(b)) \in Nat
    BY <1>5
  <2>2. Cardinality(Pred(a)) < Cardinality(Pred(b)) \/ Cardinality(Pred(b)) < Cardinality(Pred(a))
    BY <1>3, <1>6
  <2>3. QED
    BY <1>8, <2>1, <2>2
<1>10. rank \in Injection(bs, 1..N)
  BY <1>7, <1>9 DEF Injection, IsInjective
<1>11. rank \in Surjection(bs, 1..N)
  <2>1. IsFiniteSet(1..N) /\ Cardinality(1..N) = N
    <3> HIDE DEF N
    <3>1. QED
      BY <1>1, FS_Interval
  <2>2. QED
    BY <1>10, <2>1, FS_Injection
<1>12. \A i \in 1..N : \E b \in bs : rank[b] = i
  BY <1>11 DEF Surjection
<1>13. \A i \in 1..N : \E b \in bs : Cardinality(Pred(b)) = i - 1
  <2> SUFFICES ASSUME NEW i \in 1..N PROVE \E b \in bs : Cardinality(Pred(b)) = i - 1
    OBVIOUS
  <2>1. PICK b \in bs : rank[b] = i
    BY <1>12
  <2>2. Cardinality(Pred(b)) \in Nat /\ i = Cardinality(Pred(b)) + 1
    BY <1>5, <1>8, <2>1
  <2>3. QED
    BY <2>2
<1>14. order = [i \in 1..N |-> CHOOSE b \in bs : Cardinality(Pred(b)) = i - 1]
  BY DEF ByAddress
<1> HIDE DEF order, Pred
<1>15. \A i \in 1..N : order[i] \in bs /\ Cardinality(Pred(order[i])) = i - 1
  BY <1>13, <1>14
<1>16. order \in Seq(bs) /\ DOMAIN order = 1..N
  <2> HIDE DEF N
  <2>1. order = [i \in 1..N |-> order[i]]
    BY <1>14
  <2>2. QED
    BY <1>1, <1>15, <2>1
<1>17. ASSUME NEW b \in bs PROVE b \in ToSet(order)
  <2>1. rank[b] \in 1..N
    BY <1>7
  <2>2. order[rank[b]] \in bs /\ Cardinality(Pred(order[rank[b]])) = rank[b] - 1
    BY <1>15, <2>1
  <2>3. rank[order[rank[b]]] = rank[b]
    <3>1. Cardinality(Pred(order[rank[b]])) \in Nat /\ rank[b] \in Nat
      BY <1>5, <2>1, <2>2
    <3>2. QED
      BY <1>8, <2>2, <3>1
  <2>4. order[rank[b]] = b
    BY <1>9, <2>2, <2>3
  <2>5. QED
    BY <1>16, <2>1, <2>4 DEF ToSet
<1>18. ToSet(order) \subseteq bs
  BY <1>16, Elements
<1>19. QED
  BY <1>16, <1>17, <1>18 DEF order

-----------------------------------------------------------------------------
\* Texts joined, and texts without labels, lead where they led.
LEMMA JoinedLead ==
    ASSUME NEW L, NEW s \in Seq(L), NEW t \in Seq(L), NEW h, Leads(s, h), Leads(t, h)
    PROVE  Leads(s \o t, h)
<1> DEFINE u == s \o t
<1>1. /\ Len(s) \in Nat /\ Len(t) \in Nat /\ DOMAIN s = 1..Len(s) /\ DOMAIN t = 1..Len(t)
      /\ DOMAIN u = 1..(Len(s) + Len(t))
      /\ \A i \in DOMAIN u : u[i] = IF i \in DOMAIN s THEN s[i] ELSE t[i - Len(s)]
  OBVIOUS
<1> HIDE DEF u
<1> SUFFICES ASSUME NEW i \in DOMAIN u, u[i].k = "label", u[i].n = block_label(h)
             PROVE  i + 1 \in DOMAIN u /\ u[i + 1].k = "stmts" /\ u[i + 1].b = h
  BY DEF Leads, u
<1>2. CASE i \in DOMAIN s
  <2>1. i + 1 \in DOMAIN s /\ s[i + 1].k = "stmts" /\ s[i + 1].b = h
    BY <1>1, <1>2 DEF Leads
  <2>2. i + 1 \in DOMAIN u
    BY <1>1, <2>1
  <2>3. QED
    BY <1>1, <2>1, <2>2
<1>3. CASE i \notin DOMAIN s
  <2>1. i - Len(s) \in DOMAIN t /\ u[i] = t[i - Len(s)]
    BY <1>1, <1>3
  <2>2. /\ (i - Len(s)) + 1 \in DOMAIN t
        /\ t[(i - Len(s)) + 1].k = "stmts" /\ t[(i - Len(s)) + 1].b = h
    BY <2>1 DEF Leads
  <2>3. i + 1 \in DOMAIN u /\ i + 1 \notin DOMAIN s /\ (i + 1) - Len(s) = (i - Len(s)) + 1
    BY <1>1, <1>3, <2>2
  <2>4. QED
    BY <1>1, <2>2, <2>3
<1>4. QED
  BY <1>2, <1>3

LEMMA NoLabelLeads ==
    ASSUME NEW L, NEW t \in Seq(L), NEW h, \A x \in L : x.k # "label"
    PROVE  Leads(t, h)
BY DEF Leads

LEMMA FlattenedLeads ==
    ASSUME NEW L, NEW seqs \in Seq(Seq(L)), NEW h, \A i \in DOMAIN seqs : Leads(seqs[i], h)
    PROVE  Leads(FlattenSeq(seqs), h)
<1> DEFINE P == {x \in Nat \X Seq(L) : Leads(x[2], h)}
<1>1. <<0, <<>>>> \in P
  <2>1. <<>> \in Seq(L) /\ Leads(<<>>, h)
    BY DEF Leads
  <2>2. QED
    BY <2>1
<1>2. ASSUME NEW n \in 0..(Len(seqs) - 1), NEW s \in Seq(L), <<n, s>> \in P
      PROVE  <<n + 1, s \o seqs[n + 1]>> \in P
  <2>1. n + 1 \in Nat /\ n + 1 \in DOMAIN seqs /\ seqs[n + 1] \in Seq(L)
    OBVIOUS
  <2>2. Leads(s, h) /\ Leads(seqs[n + 1], h)
    BY <1>2, <2>1
  <2>3. s \o seqs[n + 1] \in Seq(L)
    BY <2>1
  <2>4. Leads(s \o seqs[n + 1], h)
    BY <2>1, <2>2, JoinedLead
  <2>5. QED
    BY <2>1, <2>3, <2>4
<1>3. <<Len(seqs), FlattenSeq(seqs)>> \in P
  <2> HIDE DEF P
  <2>1. QED
    BY <1>1, <1>2, Flattening
<1>4. QED
  BY <1>3

-----------------------------------------------------------------------------
\* The lines the emitters without structure write.
Kinds == {"label", "goto", "ifgoto", "stmts", "switch", "case", "default", "break", "ret", "end",
          "dispatch", "state", "set", "choose"}
Conds == {<<>>} \union {blk[b].cond : b \in Blocks}
Fields == [k : Kinds, b : Blocks \union {0}, n : Int, c : Conds]
GotoLines == {x \in Fields : x.k \in Jumps => x.n \in Addresses}
WayLines == {x \in GotoLines : x.k # "label"}
StateLines == {x \in Fields : x.k \notin Names}

LEMMA LinesAreLines ==
    ASSUME NEW t, t \in Seq(GotoLines) \/ t \in Seq(StateLines)
    PROVE  IsText(t)
<1>1. \A x \in Fields : x = [k |-> x.k, b |-> x.b, n |-> x.n, c |-> x.c]
  BY DEF Fields
<1>2. CASE t \in Seq(GotoLines)
  BY <1>1, <1>2, TextOf DEF GotoLines
<1>3. CASE t \in Seq(StateLines)
  BY <1>1, <1>3, TextOf DEF StateLines
<1>4. QED
  BY <1>2, <1>3

LEMMA GotoLine ==
    ASSUME NEW k \in Kinds, NEW b \in Blocks \union {0}, NEW n \in Int, k \in Jumps => n \in Addresses,
           NEW c \in Conds
    PROVE  Line(k, b, n, c) \in Seq(GotoLines) /\ (k # "label" => Line(k, b, n, c) \in Seq(WayLines))
<1>1. [k |-> k, b |-> b, n |-> n, c |-> c] \in GotoLines
  BY DEF GotoLines, Fields
<1>2. k # "label" => [k |-> k, b |-> b, n |-> n, c |-> c] \in WayLines
  BY <1>1 DEF WayLines
<1>3. QED
  BY <1>1, <1>2 DEF Line

\* The pieces of a goto body.
LEMMA GotoPieces ==
    ASSUME Graph
    PROVE  /\ <<>> \in Seq(WayLines) /\ Close \in Seq(WayLines)
           /\ \A b \in Blocks :
                /\ Label(b) \in Seq(GotoLines) /\ Goto(b) \in Seq(WayLines)
                /\ emit_stmts(b) \in Seq(WayLines) /\ ret_text(b) \in Seq(WayLines)
                /\ Switch(b) \in Seq(WayLines)
                /\ \A t \in Blocks : IfGoto(b, t) \in Seq(WayLines)
           /\ \A i \in Nat : Case(i) \in Seq(WayLines)
<1>1. \A b \in Blocks : block_label(b) \in Nat /\ block_label(b) \in Addresses
  BY DEF Graph, block_label, Addresses
<1>2. <<>> \in Conds /\ 0 \in Blocks \union {0} /\ \A b \in Blocks : b \in Blocks \union {0} /\ blk[b].cond \in Conds
  BY DEF Conds
<1>3. <<>> \in Seq(WayLines)
  OBVIOUS
<1>4. Close \in Seq(WayLines)
  BY <1>2, GotoLine DEF Kinds, Close, Jumps
<1>5. \A i \in Nat : Case(i) \in Seq(WayLines)
  BY <1>2, GotoLine DEF Kinds, Case, Jumps
<1>6. ASSUME NEW b \in Blocks
      PROVE  /\ Label(b) \in Seq(GotoLines) /\ Goto(b) \in Seq(WayLines)
             /\ emit_stmts(b) \in Seq(WayLines) /\ ret_text(b) \in Seq(WayLines)
             /\ Switch(b) \in Seq(WayLines)
             /\ \A t \in Blocks : IfGoto(b, t) \in Seq(WayLines)
  <2>1. Label(b) \in Seq(GotoLines) /\ Goto(b) \in Seq(WayLines)
    BY <1>1, <1>2, GotoLine DEF Kinds, Label, Goto
  <2>2. ret_text(b) \in Seq(WayLines) /\ Switch(b) \in Seq(WayLines)
    BY <1>2, GotoLine DEF Kinds, ret_text, Switch, Jumps
  <2>3. emit_stmts(b) \in Seq(WayLines)
    BY <1>2, <1>3, GotoLine DEF Kinds, emit_stmts, Jumps
  <2>4. \A t \in Blocks : IfGoto(b, t) \in Seq(WayLines)
    <3> SUFFICES ASSUME NEW t \in Blocks PROVE IfGoto(b, t) \in Seq(WayLines)
      OBVIOUS
    <3>1. block_label(t) \in Int /\ block_label(t) \in Addresses
      BY <1>1
    <3>2. QED
      BY <1>2, <3>1, GotoLine DEF Kinds, IfGoto
  <2>5. QED
    BY <2>1, <2>2, <2>3, <2>4
<1>7. QED
  BY <1>3, <1>4, <1>5, <1>6

\* The ways out of a block.
LEMMA WaysOut ==
    ASSUME Graph, NEW b \in Blocks
    PROVE  /\ {blk[b].taken, blk[b].fall, blk[b].default} \subseteq Blocks \union {0}
           /\ blk[b].cases \in Seq(Blocks \union {0}) /\ Len(blk[b].cases) \in Nat
           /\ DOMAIN blk[b].cases = 1..Len(blk[b].cases)
           /\ \A i \in DOMAIN blk[b].cases : i \in Nat /\ blk[b].cases[i] \in Blocks \union {0}
<1>1. blk[b].cases \in Seq(Blocks \union {0}) /\ {blk[b].taken, blk[b].fall, blk[b].default} \subseteq Blocks \union {0}
  BY DEF Graph
<1> DEFINE cases == blk[b].cases
<1> HIDE DEF cases
<1>2. cases \in Seq(Blocks \union {0})
  BY <1>1 DEF cases
<1>3. Len(cases) \in Nat /\ DOMAIN cases = 1..Len(cases) /\ \A i \in DOMAIN cases : i \in Nat /\ cases[i] \in Blocks \union {0}
  BY <1>2
<1>4. QED
  BY <1>1, <1>3 DEF cases

\* A table whose entries are pieces.
LEMMA TablePieces ==
    ASSUME NEW L, NEW n \in Nat, NEW seqs, seqs = [i \in 1..n |-> seqs[i]],
           \A i \in 1..n : seqs[i] \in Seq(L)
    PROVE  FlattenSeq(seqs) \in Seq(L)
<1>1. seqs \in Seq(Seq(L))
  OBVIOUS
<1>2. QED
  BY <1>1, FlattenedFrom

LEMMA TransferPieces ==
    ASSUME Graph, NEW b \in Blocks, NEW nxt, NEW open \in Seq(WayLines)
    PROVE  Transfer(b, nxt, open) \in Seq(WayLines)
<1> DEFINE x == blk[b]
           piece(i) == IF x.cases[i] = 0 THEN <<>> ELSE Case(i) \o Goto(x.cases[i])
           seqs == [i \in DOMAIN x.cases |-> piece(i)]
           cases == FlattenSeq(seqs)
<1>1. /\ {x.taken, x.fall, x.default} \subseteq Blocks \union {0}
      /\ Len(x.cases) \in Nat /\ DOMAIN x.cases = 1..Len(x.cases)
      /\ \A i \in DOMAIN x.cases : i \in Nat /\ x.cases[i] \in Blocks \union {0}
  BY WaysOut
<1>2. \A i \in DOMAIN x.cases : piece(i) \in Seq(WayLines)
  <2> SUFFICES ASSUME NEW i \in DOMAIN x.cases, x.cases[i] # 0 PROVE Case(i) \o Goto(x.cases[i]) \in Seq(WayLines)
    BY GotoPieces
  <2>1. Case(i) \in Seq(WayLines) /\ Goto(x.cases[i]) \in Seq(WayLines)
    BY <1>1, GotoPieces
  <2>2. QED
    BY <2>1
<1>3. cases \in Seq(WayLines)
  <2> HIDE DEF piece
  <2>1. seqs = [i \in 1..Len(x.cases) |-> seqs[i]] /\ \A i \in 1..Len(x.cases) : seqs[i] \in Seq(WayLines)
    BY <1>1, <1>2
  <2> HIDE DEF seqs
  <2>2. QED
    BY <1>1, <2>1, TablePieces
<1>4. \A t \in Blocks : JumpTo(t, nxt) \in Seq(WayLines)
  BY GotoPieces DEF JumpTo
<1>5. /\ ret_text(b) \in Seq(WayLines) /\ Switch(b) \in Seq(WayLines) /\ Close \in Seq(WayLines)
      /\ <<>> \in Seq(WayLines)
      /\ \A t \in Blocks : Goto(t) \in Seq(WayLines) /\ IfGoto(b, t) \in Seq(WayLines)
  BY GotoPieces
<1>6. (IF x.default = 0 THEN open ELSE Goto(x.default)) \in Seq(WayLines)
  BY <1>1, <1>5
<1>7. /\ (IF x.taken = 0 THEN <<>> ELSE IfGoto(b, x.taken)) \in Seq(WayLines)
      /\ (IF x.fall = 0 THEN open ELSE JumpTo(x.fall, nxt)) \in Seq(WayLines)
      /\ (IF x.taken = 0 THEN ret_text(b) ELSE JumpTo(x.taken, nxt)) \in Seq(WayLines)
      /\ (IF x.fall = 0 THEN ret_text(b) ELSE JumpTo(x.fall, nxt)) \in Seq(WayLines)
  BY <1>1, <1>4, <1>5
<1> DEFINE d == IF x.default = 0 THEN open ELSE Goto(x.default)
           j == IF x.taken = 0 THEN <<>> ELSE IfGoto(b, x.taken)
           f == IF x.fall = 0 THEN open ELSE JumpTo(x.fall, nxt)
           g == IF x.taken = 0 THEN ret_text(b) ELSE JumpTo(x.taken, nxt)
           h == IF x.fall = 0 THEN ret_text(b) ELSE JumpTo(x.fall, nxt)
<1>8. Transfer(b, nxt, open) =
        CASE x.ends = "ret" -> ret_text(b)
          [] x.ends = "switch" -> Switch(b) \o cases \o Close \o d
          [] x.ends = "jcc" -> j \o f
          [] x.ends = "jmp" -> g
          [] OTHER -> h
  BY DEF Transfer
<1> HIDE DEF cases, d, j, f, g, h
<1>9. Switch(b) \o cases \o Close \o d \in Seq(WayLines)
  BY <1>3, <1>5, <1>6 DEF d
<1>10. j \o f \in Seq(WayLines)
  BY <1>7 DEF j, f
<1>11. g \in Seq(WayLines) /\ h \in Seq(WayLines)
  BY <1>7 DEF g, h
<1> DEFINE sw == Switch(b) \o cases \o Close \o d
           jc == j \o f
<1> HIDE DEF sw, jc
<1>12. Transfer(b, nxt, open) \in {ret_text(b), sw, jc, g, h}
  BY <1>8 DEF sw, jc
<1>13. QED
  BY <1>5, <1>9, <1>10, <1>11, <1>12 DEF sw, jc

\* A block with its label and its way out.
LEMMA BlockPieces ==
    ASSUME Graph, NEW b \in Blocks, NEW nxt, NEW open \in Seq(WayLines)
    PROVE  LET t == Label(b) \o emit_stmts(b) \o Transfer(b, nxt, open)
           IN  /\ t \in Seq(GotoLines) /\ Label(b)[1] \in ToSet(t)
               /\ HandlersApart => \A h \in Entered : Leads(t, h)
<1> DEFINE stmts == emit_stmts(b)
           way == Transfer(b, nxt, open)
           head == Label(b) \o stmts
           t == head \o way
<1>1. Label(b) \in Seq(GotoLines) /\ stmts \in Seq(WayLines) /\ way \in Seq(WayLines)
  BY GotoPieces, TransferPieces
<1> HIDE DEF way
<1>2. Label(b)[1] \in ToSet(Label(b))
  BY DEF Label, Line, ToSet
<1>3. stmts \in Seq(GotoLines) /\ way \in Seq(GotoLines)
  BY <1>1 DEF WayLines
<1>4. head \in Seq(GotoLines) /\ ToSet(Label(b)) \subseteq ToSet(head)
  <2> HIDE DEF stmts
  <2>1. QED
    BY <1>1, <1>3, Joining
<1>5. t \in Seq(GotoLines) /\ ToSet(head) \subseteq ToSet(t)
  <2> HIDE DEF head
  <2>1. QED
    BY <1>3, <1>4, Joining
<1>6. ASSUME HandlersApart, NEW h \in Entered PROVE Leads(t, h)
  <2>1. Leads(way, h)
    BY <1>1, NoLabelLeads DEF WayLines
  <2>2. Leads(head, h)
    <3>1. CASE b = h
      <4>1. /\ Label(b) = <<[k |-> "label", b |-> h, n |-> block_label(h), c |-> <<>>]>>
            /\ stmts = <<[k |-> "stmts", b |-> h, n |-> 0, c |-> <<>>]>>
        BY <3>1 DEF Entered, emit_stmts, Label, Line
      <4> HIDE DEF stmts
      <4> DEFINE x == [k |-> "label", b |-> h, n |-> block_label(h), c |-> <<>>]
                 y == [k |-> "stmts", b |-> h, n |-> 0, c |-> <<>>]
      <4>3. y.k = "stmts" /\ y.b = h
        OBVIOUS
      <4> HIDE DEF x, y
      <4>2. head = <<x>> \o <<y>>
        BY <4>1 DEF x, y
      <4> HIDE DEF head
      <4>4. <<x>> \in Seq({x, y}) /\ <<y>> \in Seq({x, y}) /\ Len(<<x>>) = 1 /\ Len(<<y>>) = 1 /\ <<y>>[1] = y
        OBVIOUS
      <4>5. DOMAIN head = 1..2 /\ head[2] = y
        BY <4>2, <4>4
      <4>6. \A i \in DOMAIN head : i = 1 \/ (i = 2 /\ y.k # "label")
        BY <4>3, <4>5
      <4>7. QED
        BY <4>3, <4>5, <4>6 DEF Leads
    <3>2. CASE b # h
      <4>1. block_label(b) # block_label(h)
        BY <1>6, <3>2 DEF HandlersApart
      <4>2. Leads(Label(b), h)
        BY <4>1 DEF Leads, Label, Line
      <4>3. Leads(stmts, h)
        BY <1>1, NoLabelLeads DEF WayLines
      <4> HIDE DEF stmts
      <4>4. QED
        BY <1>1, <1>3, <4>2, <4>3, JoinedLead
    <3>3. QED
      BY <3>1, <3>2
  <2> HIDE DEF head
  <2>3. QED
    BY <1>3, <1>4, <2>1, <2>2, JoinedLead
<1>7. QED
  BY <1>2, <1>4, <1>5, <1>6 DEF way

\* A goto body of all blocks has a label for every goto.
LEMMA GotoBody ==
    ASSUME Graph
    PROVE  /\ IsText(emit_goto_cfg) /\ referenced(emit_goto_cfg) \subseteq defined(emit_goto_cfg)
           /\ HandlersApart => \A h \in Entered : Kept(emit_goto_cfg, h)
<1> DEFINE order == ByAddress(Blocks)
           piece(i) == Label(order[i]) \o emit_stmts(order[i]) \o Transfer(order[i], After(order, i), <<>>)
           seqs == [i \in DOMAIN order |-> piece(i)]
<1>1. order \in Seq(Blocks) /\ ToSet(order) = Blocks
  BY Ordered
<1>2. emit_goto_cfg = FlattenSeq(seqs)
  BY DEF emit_goto_cfg
<1> HIDE DEF order
<1>3. Len(order) \in Nat /\ DOMAIN order = 1..Len(order) /\ \A i \in DOMAIN order : order[i] \in Blocks
  BY <1>1, Elements
<1>4. \A i \in DOMAIN order : /\ piece(i) \in Seq(GotoLines) /\ Label(order[i])[1] \in ToSet(piece(i))
                              /\ HandlersApart => \A h \in Entered : Leads(piece(i), h)
  <2> SUFFICES ASSUME NEW i \in DOMAIN order
               PROVE  /\ piece(i) \in Seq(GotoLines) /\ Label(order[i])[1] \in ToSet(piece(i))
                      /\ HandlersApart => \A h \in Entered : Leads(piece(i), h)
    OBVIOUS
  <2>1. order[i] \in Blocks /\ <<>> \in Seq(WayLines)
    BY <1>3
  <2>2. QED
    BY <2>1, BlockPieces
<1> HIDE DEF piece
<1>5. seqs \in Seq(Seq(GotoLines)) /\ DOMAIN seqs = DOMAIN order /\ \A i \in DOMAIN order : seqs[i] = piece(i)
  <2>1. seqs = [i \in 1..Len(order) |-> seqs[i]] /\ \A i \in DOMAIN order : seqs[i] = piece(i)
    BY <1>3
  <2> HIDE DEF seqs
  <2>2. QED
    BY <1>3, <1>4, <2>1
<1> HIDE DEF seqs
<1>6. /\ emit_goto_cfg \in Seq(GotoLines)
      /\ ToSet(emit_goto_cfg) = UNION {ToSet(seqs[i]) : i \in DOMAIN seqs}
  BY <1>2, <1>5, FlattenedFrom
<1>7. \A b \in Blocks : block_label(b) \in defined(emit_goto_cfg)
  <2> SUFFICES ASSUME NEW b \in Blocks PROVE block_label(b) \in defined(emit_goto_cfg)
    OBVIOUS
  <2>1. PICK i \in DOMAIN order : order[i] = b
    BY <1>1, Elements
  <2>2. Label(b)[1] \in ToSet(emit_goto_cfg)
    BY <1>4, <1>5, <1>6, <2>1
  <2>3. Label(b)[1].k = "label" /\ Label(b)[1].n = block_label(b)
    BY DEF Label, Line
  <2>4. QED
    BY <2>2, <2>3, LabelSets
<1>8. \A x \in ToSet(emit_goto_cfg) : x \in GotoLines
  BY <1>6, Elements
<1>9. ASSUME NEW n \in referenced(emit_goto_cfg) PROVE n \in defined(emit_goto_cfg)
  <2>1. PICK x \in ToSet(emit_goto_cfg) : x.k \in Jumps /\ x.n = n
    BY LabelSets
  <2>2. n \in Addresses
    BY <1>8, <2>1 DEF GotoLines
  <2>3. QED
    BY <1>7, <2>2 DEF Addresses
<1>10. ASSUME HandlersApart, NEW h \in Entered PROVE Kept(emit_goto_cfg, h)
  <2>1. \A i \in DOMAIN seqs : Leads(seqs[i], h)
    BY <1>4, <1>5, <1>10
  <2>2. Leads(emit_goto_cfg, h)
    BY <1>2, <1>5, <2>1, FlattenedLeads
  <2>3. QED
    BY <1>7, <2>2 DEF Kept, Entered
<1>11. QED
  BY <1>6, <1>9, <1>10, LinesAreLines

LEMMA TailIsText ==
    ASSUME Graph, NEW left \in SUBSET Blocks
    PROVE  LET t == emit_unstructured_tail(left)
           IN  /\ IsText(t)
               /\ HandlersApart => \A h \in Entered : Leads(t, h) /\ (h \in left => block_label(h) \in defined(t))
<1> DEFINE order == ByAddress(left)
           piece(i) == Label(order[i]) \o emit_stmts(order[i]) \o Transfer(order[i], After(order, i), ret_text(order[i]))
           seqs == [i \in DOMAIN order |-> piece(i)]
           t == emit_unstructured_tail(left)
<1>1. order \in Seq(left) /\ ToSet(order) = left
  BY Ordered
<1>2. t = FlattenSeq(seqs)
  BY DEF emit_unstructured_tail
<1> HIDE DEF order, t
<1>3. Len(order) \in Nat /\ DOMAIN order = 1..Len(order) /\ \A i \in DOMAIN order : order[i] \in Blocks
  BY <1>1, Elements
<1>4. \A i \in DOMAIN order : /\ piece(i) \in Seq(GotoLines) /\ Label(order[i])[1] \in ToSet(piece(i))
                              /\ HandlersApart => \A h \in Entered : Leads(piece(i), h)
  <2> SUFFICES ASSUME NEW i \in DOMAIN order
               PROVE  /\ piece(i) \in Seq(GotoLines) /\ Label(order[i])[1] \in ToSet(piece(i))
                      /\ HandlersApart => \A h \in Entered : Leads(piece(i), h)
    OBVIOUS
  <2>1. order[i] \in Blocks /\ ret_text(order[i]) \in Seq(WayLines)
    BY <1>3, GotoPieces
  <2>2. QED
    BY <2>1, BlockPieces
<1> HIDE DEF piece
<1>5. seqs \in Seq(Seq(GotoLines)) /\ DOMAIN seqs = DOMAIN order /\ \A i \in DOMAIN order : seqs[i] = piece(i)
  <2>1. seqs = [i \in 1..Len(order) |-> seqs[i]] /\ \A i \in DOMAIN order : seqs[i] = piece(i)
    BY <1>3
  <2> HIDE DEF seqs
  <2>2. QED
    BY <1>3, <1>4, <2>1
<1> HIDE DEF seqs
<1>6. t \in Seq(GotoLines) /\ ToSet(t) = UNION {ToSet(seqs[i]) : i \in DOMAIN seqs}
  BY <1>2, <1>5, FlattenedFrom
<1>7. ASSUME HandlersApart, NEW h \in Entered
      PROVE  Leads(t, h) /\ (h \in left => block_label(h) \in defined(t))
  <2>1. \A i \in DOMAIN seqs : Leads(seqs[i], h)
    BY <1>4, <1>5, <1>7
  <2>2. Leads(t, h)
    BY <1>2, <1>5, <2>1, FlattenedLeads
  <2>3. ASSUME h \in left PROVE block_label(h) \in defined(t)
    <3>1. PICK i \in DOMAIN order : order[i] = h
      BY <1>1, <2>3, Elements
    <3>2. Label(h)[1] \in ToSet(t)
      BY <1>4, <1>5, <1>6, <3>1
    <3>3. Label(h)[1].k = "label" /\ Label(h)[1].n = block_label(h)
      BY DEF Label, Line
    <3>4. QED
      BY <3>2, <3>3, LabelSets
  <2>4. QED
    BY <2>2, <2>3
<1>8. QED
  BY <1>6, <1>7, LinesAreLines DEF t

-----------------------------------------------------------------------------
LEMMA StateLine ==
    ASSUME NEW k \in Kinds, k \notin Names, NEW b \in Blocks \union {0}, NEW n \in Int, NEW c \in Conds
    PROVE  Line(k, b, n, c) \in Seq(StateLines)
<1>1. [k |-> k, b |-> b, n |-> n, c |-> c] \in StateLines
  BY DEF StateLines, Fields
<1>2. QED
  BY <1>1 DEF Line

LEMMA StatePieces ==
    ASSUME Graph
    PROVE  /\ <<>> \in Seq(StateLines) /\ Close \in Seq(StateLines) /\ Break \in Seq(StateLines)
           /\ Line("dispatch", 0, 0, <<>>) \in Seq(StateLines) /\ Line("default", 0, 0, <<>>) \in Seq(StateLines)
           /\ \A b \in Blocks :
                /\ Set(b) \in Seq(StateLines) /\ Line("state", 0, b, <<>>) \in Seq(StateLines)
                /\ emit_stmts(b) \in Seq(StateLines) /\ ret_text(b) \in Seq(StateLines)
                /\ Switch(b) \in Seq(StateLines) /\ Line("choose", b, 0, blk[b].cond) \in Seq(StateLines)
           /\ \A i \in Nat : Case(i) \in Seq(StateLines)
<1>1. /\ <<>> \in Conds /\ 0 \in Blocks \union {0}
      /\ \A b \in Blocks : b \in Blocks \union {0} /\ b \in Int /\ blk[b].cond \in Conds
  BY DEF Conds, Graph
<1>2. <<>> \in Seq(StateLines)
  OBVIOUS
<1>3. Close \in Seq(StateLines) /\ Break \in Seq(StateLines)
  BY <1>1, StateLine DEF Kinds, Names, Close, Break
<1>4. Line("dispatch", 0, 0, <<>>) \in Seq(StateLines) /\ Line("default", 0, 0, <<>>) \in Seq(StateLines)
  BY <1>1, StateLine DEF Kinds, Names
<1>5. \A i \in Nat : Case(i) \in Seq(StateLines)
  BY <1>1, StateLine DEF Kinds, Names, Case
<1>6. ASSUME NEW b \in Blocks
      PROVE  /\ Set(b) \in Seq(StateLines) /\ Line("state", 0, b, <<>>) \in Seq(StateLines)
             /\ emit_stmts(b) \in Seq(StateLines) /\ ret_text(b) \in Seq(StateLines)
             /\ Switch(b) \in Seq(StateLines) /\ Line("choose", b, 0, blk[b].cond) \in Seq(StateLines)
  <2>1. Set(b) \in Seq(StateLines) /\ Line("state", 0, b, <<>>) \in Seq(StateLines)
    BY <1>1, StateLine DEF Kinds, Names, Set
  <2>2. ret_text(b) \in Seq(StateLines) /\ Switch(b) \in Seq(StateLines)
    BY <1>1, StateLine DEF Kinds, Names, ret_text, Switch
  <2>3. emit_stmts(b) \in Seq(StateLines)
    BY <1>1, <1>2, StateLine DEF Kinds, Names, emit_stmts
  <2>4. Line("choose", b, 0, blk[b].cond) \in Seq(StateLines)
    BY <1>1, StateLine DEF Kinds, Names
  <2>5. QED
    BY <2>1, <2>2, <2>3, <2>4
<1>7. QED
  BY <1>2, <1>3, <1>4, <1>5, <1>6

LEMMA NextStatePieces ==
    ASSUME Graph, NEW b \in Blocks
    PROVE  NextState(b) \in Seq(StateLines)
<1> DEFINE x == blk[b]
           piece(i) == IF x.cases[i] = 0 THEN <<>> ELSE Case(i) \o Set(x.cases[i]) \o Break
           seqs == [i \in DOMAIN x.cases |-> piece(i)]
           cases == FlattenSeq(seqs)
           default == IF x.default = 0 THEN <<>> ELSE Line("default", 0, 0, <<>>) \o Set(x.default) \o Break
           goes(t) == IF t = 0 THEN <<>> ELSE Set(t) \o Break
<1>1. /\ {x.taken, x.fall, x.default} \subseteq Blocks \union {0}
      /\ Len(x.cases) \in Nat /\ DOMAIN x.cases = 1..Len(x.cases)
      /\ \A i \in DOMAIN x.cases : i \in Nat /\ x.cases[i] \in Blocks \union {0}
  BY WaysOut
<1>2. \A i \in DOMAIN x.cases : piece(i) \in Seq(StateLines)
  <2> SUFFICES ASSUME NEW i \in DOMAIN x.cases, x.cases[i] # 0
               PROVE  Case(i) \o Set(x.cases[i]) \o Break \in Seq(StateLines)
    BY StatePieces
  <2>1. Case(i) \in Seq(StateLines) /\ Set(x.cases[i]) \in Seq(StateLines) /\ Break \in Seq(StateLines)
    BY <1>1, StatePieces
  <2>2. QED
    BY <2>1
<1>3. cases \in Seq(StateLines)
  <2> HIDE DEF piece
  <2>1. seqs = [i \in 1..Len(x.cases) |-> seqs[i]] /\ \A i \in 1..Len(x.cases) : seqs[i] \in Seq(StateLines)
    BY <1>1, <1>2
  <2> HIDE DEF seqs
  <2>2. QED
    BY <1>1, <2>1, TablePieces
<1>4. /\ ret_text(b) \in Seq(StateLines) /\ Switch(b) \in Seq(StateLines) /\ Close \in Seq(StateLines)
      /\ Break \in Seq(StateLines) /\ <<>> \in Seq(StateLines)
      /\ Line("default", 0, 0, <<>>) \in Seq(StateLines) /\ Line("choose", b, 0, x.cond) \in Seq(StateLines)
      /\ \A t \in Blocks : Set(t) \in Seq(StateLines)
  BY StatePieces
<1>5. \A t \in Blocks : Set(t) \o Break \in Seq(StateLines)
  BY <1>4
<1>6. default \in Seq(StateLines)
  <2>1. \A t \in Blocks : Line("default", 0, 0, <<>>) \o Set(t) \o Break \in Seq(StateLines)
    BY <1>4
  <2>2. QED
    BY <1>1, <1>4, <2>1
<1> DEFINE sw == Switch(b) \o cases \o default \o Close \o Break
           ch == Line("choose", b, 0, x.cond) \o Break
           g == IF x.taken = 0 THEN ret_text(b) ELSE goes(x.taken)
           h == IF x.fall = 0 THEN ret_text(b) ELSE goes(x.fall)
<1>7. g \in Seq(StateLines) /\ h \in Seq(StateLines)
  BY <1>1, <1>4, <1>5
<1>8. NextState(b) \in {ret_text(b), sw, ch, g, h}
  BY DEF NextState
<1> HIDE DEF cases, default
<1>9. sw \in Seq(StateLines)
  BY <1>3, <1>4, <1>6
<1>10. ch \in Seq(StateLines)
  BY <1>4
<1> HIDE DEF sw, ch, g, h
<1>11. QED
  BY <1>4, <1>7, <1>8, <1>9, <1>10

\* A state machine has no goto at all.
LEMMA StateMachineFine ==
    ASSUME Graph, merged \subseteq Blocks
    PROVE  Fine(emit_state_machine) /\ Dispatches(emit_state_machine)
<1> DEFINE order == ByAddress(Blocks \ merged)
           piece(i) == Line("state", 0, order[i], <<>>) \o emit_stmts(order[i]) \o NextState(order[i])
           seqs == [i \in DOMAIN order |-> piece(i)]
<1>1. order \in Seq(Blocks \ merged)
  <2>1. Blocks \ merged \in SUBSET Blocks
    OBVIOUS
  <2>2. QED
    BY <2>1, Ordered
<1>2. emit_state_machine = Line("dispatch", 0, 0, <<>>) \o FlattenSeq(seqs) \o Close
  BY DEF emit_state_machine
<1> HIDE DEF order
<1>3. Len(order) \in Nat /\ DOMAIN order = 1..Len(order) /\ \A i \in DOMAIN order : order[i] \in Blocks
  BY <1>1, Elements
<1>4. \A i \in DOMAIN order : piece(i) \in Seq(StateLines)
  <2> SUFFICES ASSUME NEW i \in DOMAIN order PROVE piece(i) \in Seq(StateLines)
    OBVIOUS
  <2>1. order[i] \in Blocks
    BY <1>3
  <2>2. /\ Line("state", 0, order[i], <<>>) \in Seq(StateLines) /\ emit_stmts(order[i]) \in Seq(StateLines)
        /\ NextState(order[i]) \in Seq(StateLines)
    BY <2>1, StatePieces, NextStatePieces
  <2>3. QED
    BY <2>2
<1> HIDE DEF piece
<1>5. seqs = [i \in 1..Len(order) |-> seqs[i]] /\ \A i \in 1..Len(order) : seqs[i] \in Seq(StateLines)
  BY <1>3, <1>4
<1> HIDE DEF seqs
<1>6. FlattenSeq(seqs) \in Seq(StateLines)
  BY <1>3, <1>5, TablePieces
<1>7. emit_state_machine \in Seq(StateLines)
  <2>1. Line("dispatch", 0, 0, <<>>) \in Seq(StateLines) /\ Close \in Seq(StateLines)
    BY StatePieces
  <2>2. QED
    BY <1>2, <1>6, <2>1
<1> DEFINE t == emit_state_machine
<1> HIDE DEF t
<1>8. \A x \in ToSet(t) : x.k \notin Names
  BY <1>7, Elements DEF t, StateLines
<1>9. referenced(t) = {}
  BY <1>8, LabelSets DEF Names, Jumps
<1>10. ~has_duplicate_label_defs(t)
  BY <1>8 DEF has_duplicate_label_defs, ToSet, Names
<1>11. IsText(t)
  BY <1>7, LinesAreLines DEF t
<1>12. Dispatches(t)
  <2> DEFINE head == Line("dispatch", 0, 0, <<>>)
             rest == FlattenSeq(seqs)
  <2>1. head \in Seq(StateLines) /\ Close \in Seq(StateLines) /\ head[1] \in ToSet(head) /\ head[1].k = "dispatch"
    BY StatePieces DEF Line, ToSet
  <2> HIDE DEF head, rest
  <2>2. head \o rest \in Seq(StateLines) /\ ToSet(head) \subseteq ToSet(head \o rest)
    BY <1>6, <2>1, Joining DEF rest
  <2> DEFINE both == head \o rest
  <2> HIDE DEF both
  <2>3. both \in Seq(StateLines) /\ Close \in Seq(StateLines)
    BY <2>1, <2>2 DEF both
  <2>4. ToSet(both \o Close) = ToSet(both) \union ToSet(Close)
    <3> DEFINE end == Close
    <3>1. end \in Seq(StateLines)
      BY <2>3
    <3> HIDE DEF end
    <3>2. ToSet(both \o end) = ToSet(both) \union ToSet(end)
      BY <2>3, <3>1, Joining
    <3> QED BY <3>2 DEF end
  <2>5. head[1] \in ToSet(both \o Close)
    BY <2>1, <2>2, <2>4 DEF both
  <2>6. t = both \o Close
    BY <1>2 DEF t, both, head, rest
  <2>7. QED
    BY <2>1, <2>5, <2>6 DEF Dispatches
<1>13. QED
  BY <1>9, <1>10, <1>11, <1>12 DEF Fine, labels_consistent, t

-----------------------------------------------------------------------------
(***************************************************************************)
(* The invariant of the driver.  What it keeps is a text; from the settled *)
(* body on every goto has its label.                                       *)
(***************************************************************************)
DriverTypeOK ==
    /\ Graph /\ merged \subseteq Blocks /\ force \in BOOLEAN /\ meter \in Nat
    /\ phase \in {"discover", "pass2", "repair", "judge", "settle", "clean", "ready", "run"}
    /\ need \subseteq Blocks /\ structured \subseteq Blocks
    /\ IsText(body)
    /\ best = [body |-> best.body, dang |-> best.dang, need |-> best.need]
    /\ IsText(best.body) /\ best.need \subseteq need
    /\ retry \in Nat

DriverInv ==
    /\ DriverTypeOK
    /\ phase = "clean" => referenced(body) \subseteq defined(body)
    /\ phase \in {"ready", "run"} => labels_consistent(body)

LEMMA DriverStarts ==
    ASSUME DriverInit PROVE DriverInv
<1>1. IsText(<<>>)
  BY DEF IsText, ToSet
<1>2. QED
  BY <1>1 DEF DriverInit, Start, DriverInv, DriverTypeOK

LEMMA EmissionStep ==
    ASSUME DriverInv, NEW s, Emission(s),
           Discover(s) \/ Pass2(s) \/ Repair(s) \/ JudgeAgain(s)
    PROVE  DriverInv'
<1> USE DEF DriverInv, DriverTypeOK
<1>1. /\ IsText(s.out) /\ need \subseteq s.need /\ s.need \subseteq Blocks
      /\ s.structured \subseteq Blocks /\ s.meter \in Nat
  BY DEF Emission
<1>2. body' = s.out /\ structured' = s.structured /\ need' = s.need /\ meter' = s.meter
  BY DEF Discover, Pass2, Repair, JudgeAgain, Take
<1>3. blk' = blk /\ merged' = merged /\ force' = force
  BY DEF Discover, Pass2, Repair, JudgeAgain, input
<1>4. Graph' /\ Blocks' = Blocks
  BY <1>3 DEF Graph, Blocks
<1>5. IsText(body)' /\ phase' \in {"pass2", "repair"}
  BY <1>1, <1>2 DEF Discover, Pass2, Repair, JudgeAgain, IsText
<1>6. /\ best' = [body |-> best'.body, dang |-> best'.dang, need |-> best'.need]
      /\ IsText(best.body)' /\ best'.need \subseteq need' /\ retry' \in Nat
  <2>1. CASE UNCHANGED <<best, retry>>
    BY <1>1, <1>2, <2>1 DEF IsText
  <2>2. CASE JudgeAgain(s)
    <3>1. best' = BestSoFar /\ retry' = retry + 1
      BY <2>2 DEF JudgeAgain
    <3>2. BestSoFar.need = need /\ BestSoFar.body \in {body, best.body}
          /\ BestSoFar = [body |-> BestSoFar.body, dang |-> BestSoFar.dang, need |-> BestSoFar.need]
      BY DEF BestSoFar
    <3>3. IsText(best'.body)
      BY <3>1, <3>2
    <3>4. QED
      BY <1>1, <1>2, <3>1, <3>2, <3>3
  <2>3. QED
    BY <2>1, <2>2 DEF Discover, Pass2, Repair
<1>7. QED
  BY <1>1, <1>2, <1>3, <1>4, <1>5, <1>6

LEMMA SettleStep ==
    ASSUME DriverInv, Settle PROVE IsText(body') /\ referenced(body') \subseteq defined(body')
<1> DEFINE left == {b \in Blocks : ~Emitted(b)}
           stripped == strip_unreachable_after_terminator(body)
           raw == IF tripped THEN stripped \o emit_unstructured_tail(left) ELSE stripped
           t == dedupe_label_defs(raw)
<1>1. Graph /\ IsText(body)
  BY DEF DriverInv, DriverTypeOK
<1>2. body' = IF ok_struct(t, tripped \/ left = {}) THEN t ELSE emit_goto_cfg
  BY DEF Settle
<1>3. left \in SUBSET Blocks
  OBVIOUS
<1> HIDE DEF left
<1>4. IsText(stripped) /\ IsText(emit_unstructured_tail(left))
  BY <1>1, <1>3, Stripped, TailIsText
<1> HIDE DEF stripped
<1> DEFINE tail == emit_unstructured_tail(left)
<1> HIDE DEF tail
<1>5. IsText(stripped \o tail)
  <2> DEFINE L == ToSet(stripped) \union ToSet(tail)
  <2>1. /\ stripped \in Seq(ToSet(stripped)) /\ tail \in Seq(ToSet(tail))
        /\ \A x \in L : x = [k |-> x.k, b |-> x.b, n |-> x.n, c |-> x.c]
    BY <1>4 DEF IsText, tail
  <2>2. stripped \in Seq(L) /\ tail \in Seq(L)
    BY <2>1
  <2> HIDE DEF L
  <2>3. stripped \o tail \in Seq(L)
    BY <2>2
  <2>4. QED
    BY <2>1, <2>3, TextOf
<1>6. IsText(raw)
  BY <1>4, <1>5 DEF tail
<1> HIDE DEF raw
<1>7. IsText(t)
  BY <1>6, Deduped
<1> HIDE DEF t
<1>8. CASE ok_struct(t, tripped \/ left = {})
  BY <1>2, <1>7, <1>8 DEF ok_struct, labels_consistent
<1>9. CASE ~ok_struct(t, tripped \/ left = {})
  BY <1>1, <1>2, <1>9, GotoBody
<1>10. QED
  BY <1>8, <1>9

LEMMA CleanStep ==
    ASSUME DriverInv, Clean PROVE Fine(body')
<1> DEFINE p == prune_dead_labels(body)
           t == dedupe_label_defs(p)
           u == IF force /\ referenced(t) # {} THEN emit_state_machine ELSE t
<1>1. Graph /\ merged \subseteq Blocks /\ IsText(body) /\ referenced(body) \subseteq defined(body)
  BY DEF DriverInv, DriverTypeOK, Clean
<1>2. body' = IF tripped THEN u ELSE collapse_else_if(collapse_and_guards(u))
  BY DEF Clean
<1>3. IsText(p) /\ referenced(p) = referenced(body) /\ referenced(body) \subseteq defined(p)
  BY <1>1, Pruned
<1> HIDE DEF p
<1>4. IsText(t) /\ referenced(t) \subseteq defined(t) /\ ~has_duplicate_label_defs(t)
  BY <1>3, Deduped
<1> HIDE DEF t
<1>5. Fine(t)
  BY <1>4 DEF Fine, labels_consistent
<1>6. Fine(u)
  BY <1>1, <1>5, StateMachineFine
<1> HIDE DEF u
<1>7. Fine(collapse_else_if(collapse_and_guards(u)))
  BY <1>6, GuardsJoined, ElseIfsJoined DEF Follows
<1>8. QED
  BY <1>2, <1>6, <1>7

LEMMA DriverSteps ==
    ASSUME DriverInv, [DriverNext]_driverVars PROVE DriverInv'
<1> DEFINE Same == blk' = blk /\ merged' = merged /\ force' = force /\ structured' = structured
                     /\ need' = need /\ meter' = meter /\ best' = best /\ retry' = retry
<1>1. ASSUME Same, IsText(body'),
             phase' \in {"repair", "judge", "settle", "clean", "ready", "run"},
             phase' = "clean" => referenced(body') \subseteq defined(body'),
             phase' \in {"ready", "run"} => labels_consistent(body')
      PROVE  DriverInv'
  <2>1. Graph' /\ Blocks' = Blocks
    BY <1>1 DEF Graph, Blocks, DriverInv, DriverTypeOK
  <2>2. IsText(best'.body)
    BY <1>1 DEF DriverInv, DriverTypeOK
  <2>3. DriverTypeOK'
    BY <1>1, <2>1, <2>2 DEF DriverInv, DriverTypeOK
  <2>4. QED
    BY <1>1, <2>3 DEF DriverInv
<1>2. CASE \E s : Emission(s) /\ (Discover(s) \/ Pass2(s) \/ Repair(s) \/ JudgeAgain(s))
  BY <1>2, EmissionStep
<1>3. CASE RepairEnds
  <2>1. Same /\ IsText(body') /\ phase' = "judge"
    BY <1>3 DEF RepairEnds, input, DriverInv, DriverTypeOK
  <2>2. QED
    BY <1>1, <2>1
<1>4. CASE JudgeEnds
  <2>1. IsText(BestSoFar.body)
    BY DEF BestSoFar, DriverInv, DriverTypeOK
  <2>2. Same /\ body' \in {BestSoFar.body, body} /\ phase' = "settle"
    BY <1>4 DEF JudgeEnds, input
  <2>3. IsText(body')
    BY <2>1, <2>2 DEF DriverInv, DriverTypeOK
  <2>4. QED
    BY <1>1, <2>2, <2>3
<1>5. CASE Settle
  <2>1. Same /\ phase' = "clean"
    BY <1>5 DEF Settle, input
  <2>2. QED
    BY <1>1, <1>5, <2>1, SettleStep
<1>6. CASE Clean
  <2>1. Same /\ phase' = "ready"
    BY <1>6 DEF Clean, input
  <2>2. IsText(body') /\ labels_consistent(body')
    BY <1>6, CleanStep DEF Fine
  <2>3. QED
    BY <1>1, <2>1, <2>2
<1>7. CASE Execute
  <2>1. Same /\ phase' = "run" /\ body' = body /\ phase = "ready"
    BY <1>7 DEF Execute, input
  <2>2. IsText(body') /\ labels_consistent(body')
    BY <2>1 DEF DriverInv, DriverTypeOK
  <2>3. QED
    BY <1>1, <2>1, <2>2
<1>8. CASE UNCHANGED driverVars
  <2>1. Same /\ phase' = phase /\ body' = body
    BY <1>8 DEF driverVars
  <2>2. Graph' /\ Blocks' = Blocks
    BY <2>1 DEF Graph, Blocks, DriverInv, DriverTypeOK
  <2>3. DriverTypeOK'
    BY <2>1, <2>2 DEF DriverInv, DriverTypeOK
  <2>4. QED
    BY <2>1, <2>3 DEF DriverInv
<1>9. QED
  BY <1>2, <1>3, <1>4, <1>5, <1>6, <1>7, <1>8 DEF DriverNext

\* Whatever the structurer returns, the driver keeps its invariant: texts stay
\* texts, the labels asked for are blocks, and they are never fewer than in the
\* round before.
THEOREM DriverInvariant == DriverSpec => []DriverInv
<1>1. DriverInit => DriverInv
  BY DriverStarts
<1>2. DriverInv /\ [DriverNext]_driverVars => DriverInv'
  BY DriverSteps
<1>3. QED
  BY <1>1, <1>2, PTL DEF DriverSpec

\* The text that comes out compiles: every goto has one label, whatever was
\* cut, repaired, stripped, replaced by gotos or by a state machine, and joined.
THEOREM CompilesHolds == DriverSpec => []Compiles
<1>1. DriverInv => Compiles
  BY DEF DriverInv, Compiles
<1>2. QED
  BY <1>1, DriverInvariant, PTL

\* The rounds of emission converge: another one starts only with a larger set of
\* labels, and there are no more labels than blocks.
THEOREM RoundsAddLabelsHolds == DriverSpec => RoundsAddLabels
<1>1. ASSUME DriverInv, [DriverNext]_driverVars, phase = "judge", phase' = "repair", retry > 0
      PROVE  Cardinality(need) > Cardinality(best.need)
  <2>1. ~LastRound
    BY <1>1 DEF driverVars, DriverNext, Discover, Pass2, Repair, JudgeAgain, RepairEnds, JudgeEnds, Settle, Clean, Execute
  <2>2. need # best.need /\ best.need \in SUBSET need /\ need \subseteq Blocks
    BY <1>1, <2>1 DEF LastRound, LabelsFixed, DriverInv, DriverTypeOK
  <2>3. IsFiniteSet(Blocks)
    <3>1. Len(blk) \in Nat /\ Blocks = 1..Len(blk)
      BY <1>1 DEF DriverInv, DriverTypeOK, Graph
    <3>2. QED
      BY <3>1, FS_Interval
  <2>4. IsFiniteSet(need)
    BY <2>2, <2>3, FS_Subset
  <2>5. IsFiniteSet(best.need) /\ Cardinality(best.need) <= Cardinality(need)
        /\ Cardinality(need) # Cardinality(best.need)
    BY <2>2, <2>4, FS_Subset
  <2>6. Cardinality(need) \in Nat /\ Cardinality(best.need) \in Nat
    BY <2>4, <2>5, FS_CardinalityType
  <2>7. QED
    BY <2>5, <2>6
<1>2. DriverInv /\ [DriverNext]_driverVars =>
        [phase = "judge" /\ phase' = "repair" /\ retry > 0 => Cardinality(need) > Cardinality(best.need)]_driverVars
  BY <1>1
<1>3. QED
  BY <1>2, DriverInvariant, PTL DEF DriverSpec, RoundsAddLabels

-----------------------------------------------------------------------------
(***************************************************************************)
(* Handlers.  What is emitted, kept as the best attempt or settled has the *)
(* label of every handler it covers, with the handler's code behind it;    *)
(* only a trip leaves a handler to the tail.                               *)
(***************************************************************************)
HandlerInv ==
    /\ HandlersApart
    /\ phase \notin {"ready", "run"} => \A h \in Entered : Leads(body, h)
    /\ phase \in {"pass2", "repair", "judge", "settle"} =>
         \A h \in Entered : /\ (h \in structured => block_label(h) \in defined(body))
                            /\ (meter > 0 => h \in structured)
    /\ retry > 0 => \A h \in Entered : Kept(best.body, h)
    /\ phase = "clean" => \A h \in Entered : Kept(body, h)
    /\ phase \in {"ready", "run"} => Dispatches(body) \/ \A h \in Entered : Kept(body, h)

LEMMA HandlersStart ==
    ASSUME DriverInit, HandlersApart PROVE HandlerInv
<1>1. \A h \in Entered : Leads(<<>>, h)
  BY DEF Leads
<1>2. QED
  BY <1>1 DEF DriverInit, Start, HandlerInv

\* What a handler is does not change.
LEMMA SameHandlers ==
    ASSUME UNCHANGED <<blk, merged>>
    PROVE  /\ Entered' = Entered /\ Blocks' = Blocks /\ HandlersApart' = HandlersApart
           /\ \A h : block_label(h)' = block_label(h)
           /\ \A t, h : (Leads(t, h)' <=> Leads(t, h)) /\ (Kept(t, h)' <=> Kept(t, h))
BY DEF Entered, Targets, Blocks, HandlersApart, block_label, Leads, Kept, defined

LEMMA HandlersEmitted ==
    ASSUME DriverInv, HandlerInv, NEW s, Emission(s), HandlerEmission(s),
           Discover(s) \/ Pass2(s) \/ Repair(s) \/ JudgeAgain(s)
    PROVE  HandlerInv'
<1>1. body' = s.out /\ structured' = s.structured /\ meter' = s.meter
  BY DEF Discover, Pass2, Repair, JudgeAgain, Take
<1>2. blk' = blk /\ merged' = merged /\ phase' \in {"pass2", "repair"}
  BY DEF Discover, Pass2, Repair, JudgeAgain, input
<1>3. /\ Entered' = Entered /\ HandlersApart'
      /\ \A h : block_label(h)' = block_label(h)
      /\ \A t, h : (Leads(t, h)' <=> Leads(t, h)) /\ (Kept(t, h)' <=> Kept(t, h))
  BY <1>2, SameHandlers DEF HandlerInv
<1>4. \A h \in Entered : Leads(body', h)
  BY <1>1 DEF HandlerEmission
<1>5. \A h \in Entered : /\ (h \in structured' => block_label(h) \in defined(body'))
                         /\ (meter' > 0 => h \in structured')
  BY <1>1 DEF HandlerEmission
<1>6. retry' > 0 => \A h \in Entered : Kept(best'.body, h)
  <2>1. CASE UNCHANGED <<best, retry>>
    BY <2>1 DEF HandlerInv
  <2>2. CASE JudgeAgain(s)
    <3>1. best' = BestSoFar /\ phase = "judge" /\ ~tripped
      BY <2>2 DEF JudgeAgain, LastRound
    <3>2. meter > 0
      BY <3>1 DEF DriverInv, DriverTypeOK, tripped
    <3>3. \A h \in Entered : Kept(body, h)
      BY <3>1, <3>2 DEF HandlerInv, Kept
    <3>4. BestSoFar.body = body \/ (retry # 0 /\ BestSoFar.body = best.body)
      BY DEF BestSoFar, DriverInv, DriverTypeOK
    <3>5. retry \in Nat
      BY DEF DriverInv, DriverTypeOK
    <3>6. QED
      BY <3>1, <3>3, <3>4, <3>5 DEF HandlerInv
  <2>3. QED
    BY <2>1, <2>2 DEF Discover, Pass2, Repair
<1>7. QED
  BY <1>2, <1>3, <1>4, <1>5, <1>6 DEF HandlerInv

LEMMA HandlersSettled ==
    ASSUME DriverInv, HandlerInv, Settle
    PROVE  \A h \in Entered : Kept(body', h)
<1> DEFINE left == {b \in Blocks : ~Emitted(b)}
           stripped == strip_unreachable_after_terminator(body)
           tail == emit_unstructured_tail(left)
           raw == IF tripped THEN stripped \o tail ELSE stripped
           t == dedupe_label_defs(raw)
<1> SUFFICES ASSUME NEW h \in Entered PROVE Kept(body', h)
  OBVIOUS
<1>1. /\ Graph /\ IsText(body) /\ meter \in Nat /\ HandlersApart /\ Leads(body, h)
      /\ (h \in structured => block_label(h) \in defined(body))
      /\ (meter > 0 => h \in structured)
  BY DEF DriverInv, DriverTypeOK, HandlerInv, Settle
<1>2. body' = IF ok_struct(t, tripped \/ left = {}) THEN t ELSE emit_goto_cfg
  BY DEF Settle
<1>3. left \in SUBSET Blocks /\ (h \notin structured => h \in left)
  BY <1>1 DEF Emitted, Entered, HandlersApart
<1> HIDE DEF left
<1>4. IsText(stripped) /\ IsText(tail) /\ Leads(stripped, h) /\ Leads(tail, h)
      /\ (h \in structured => block_label(h) \in defined(stripped))
      /\ (h \in left => block_label(h) \in defined(tail))
  BY <1>1, <1>3, Stripped, TailIsText DEF StillKept
<1> HIDE DEF stripped, tail
<1> DEFINE L == ToSet(stripped) \union ToSet(tail)
<1>5. /\ stripped \in Seq(L) /\ tail \in Seq(L)
      /\ \A x \in L : x = [k |-> x.k, b |-> x.b, n |-> x.n, c |-> x.c]
  <2>1. stripped \in Seq(ToSet(stripped)) /\ tail \in Seq(ToSet(tail))
    BY <1>4 DEF IsText
  <2>2. QED
    BY <1>4, <2>1 DEF IsText
<1> HIDE DEF L
<1>6. IsText(stripped \o tail) /\ Leads(stripped \o tail, h)
  <2>1. stripped \o tail \in Seq(L)
    BY <1>5
  <2>2. IsText(stripped \o tail)
    BY <1>5, <2>1, TextOf
  <2>3. QED
    BY <1>4, <1>5, <2>2, JoinedLead
<1>7. defined(stripped \o tail) = defined(stripped) \union defined(tail)
  <2>1. ToSet(stripped \o tail) = ToSet(stripped) \union ToSet(tail)
    BY <1>5, Joining
  <2>2. \A n : n \in defined(stripped \o tail) <=> n \in defined(stripped) \/ n \in defined(tail)
    BY <2>1, LabelSets
  <2>3. QED
    BY <2>2
<1>8. IsText(raw) /\ Kept(raw, h)
  <2>1. CASE tripped
    BY <1>3, <1>4, <1>6, <1>7, <2>1 DEF Kept
  <2>2. CASE ~tripped
    <3>1. h \in structured
      BY <1>1, <2>2 DEF tripped
    <3>2. QED
      BY <1>4, <2>2, <3>1 DEF Kept
  <2>3. QED
    BY <2>1, <2>2
<1> HIDE DEF raw
<1>9. Kept(t, h)
  BY <1>8, Deduped DEF Kept, StillKept
<1> HIDE DEF t
<1>10. Kept(emit_goto_cfg, h)
  BY <1>1, GotoBody
<1>11. QED
  BY <1>2, <1>9, <1>10

LEMMA HandlersCleaned ==
    ASSUME DriverInv, HandlerInv, Clean
    PROVE  Dispatches(body') \/ \A h \in Entered : Kept(body', h)
<1> DEFINE p == prune_dead_labels(body)
           t == dedupe_label_defs(p)
           u == IF force /\ referenced(t) # {} THEN emit_state_machine ELSE t
           v == collapse_and_guards(u)
           w == collapse_else_if(v)
<1>1. /\ Graph /\ merged \subseteq Blocks /\ IsText(body) /\ referenced(body) \subseteq defined(body)
      /\ \A h \in Entered : Kept(body, h)
  BY DEF DriverInv, DriverTypeOK, HandlerInv, Clean
<1>2. body' = IF tripped THEN u ELSE w
  BY DEF Clean
<1>3. /\ IsText(p) /\ referenced(p) = referenced(body) /\ referenced(body) \subseteq defined(p)
      /\ StillKept(body, p)
  BY <1>1, Pruned
<1> HIDE DEF p
<1>4. /\ IsText(t) /\ referenced(t) \subseteq defined(t) /\ ~has_duplicate_label_defs(t)
      /\ StillKept(p, t)
  BY <1>3, Deduped
<1> HIDE DEF t
<1>5. Fine(t) /\ \A h \in Entered : Kept(t, h)
  BY <1>1, <1>3, <1>4 DEF Fine, labels_consistent, StillKept, Kept
<1>6. Fine(u) /\ (Dispatches(u) \/ \A h \in Entered : Kept(u, h))
  BY <1>1, <1>5, StateMachineFine
<1> HIDE DEF u
<1>7. Follows(u, v)
  BY <1>6, GuardsJoined
<1> HIDE DEF v
<1>8. Follows(v, w)
  BY <1>7, ElseIfsJoined DEF Follows
<1> HIDE DEF w
<1>9. Follows(u, w)
  BY <1>7, <1>8, Following
<1>10. Dispatches(w) \/ \A h \in Entered : Kept(w, h)
  BY <1>6, <1>9 DEF Follows, StillKept, Kept
<1>11. QED
  BY <1>2, <1>6, <1>10

LEMMA HandlerSteps ==
    ASSUME DriverInv, HandlerInv, [HandlerNext]_driverVars PROVE HandlerInv'
<1> DEFINE Same == UNCHANGED <<blk, merged, structured, meter, best, retry>>
<1>1. ASSUME Same, phase' \in {"judge", "settle"}, phase \in {"repair", "judge"},
             \A h \in Entered : Leads(body', h) /\ (block_label(h) \in defined(body) => block_label(h) \in defined(body'))
      PROVE  HandlerInv'
  <2>1. /\ Entered' = Entered /\ HandlersApart' = HandlersApart
        /\ \A h : block_label(h)' = block_label(h)
        /\ \A t, h : (Leads(t, h)' <=> Leads(t, h)) /\ (Kept(t, h)' <=> Kept(t, h))
    BY <1>1, SameHandlers
  <2>2. QED
    BY <1>1, <2>1 DEF HandlerInv
<1>2. CASE \E s : Emission(s) /\ HandlerEmission(s) /\ (Discover(s) \/ Pass2(s) \/ Repair(s) \/ JudgeAgain(s))
  BY <1>2, HandlersEmitted
<1>3. CASE RepairEnds
  <2>1. Same /\ body' = body /\ phase' = "judge" /\ phase = "repair"
    BY <1>3 DEF RepairEnds, input
  <2>2. \A h \in Entered : Leads(body, h)
    BY <2>1 DEF HandlerInv
  <2>3. QED
    BY <1>1, <2>1, <2>2
<1>4. CASE JudgeEnds
  <2>1. Same /\ phase' = "settle" /\ phase = "judge" /\ body' \in {BestSoFar.body, body}
    BY <1>4 DEF JudgeEnds, input
  <2>2. body' = body \/ (retry > 0 /\ body' = best.body)
    <3>1. BestSoFar.body = body \/ (retry # 0 /\ BestSoFar.body = best.body)
      BY DEF BestSoFar, DriverInv, DriverTypeOK
    <3>2. retry \in Nat
      BY DEF DriverInv, DriverTypeOK
    <3>3. QED
      BY <2>1, <3>1, <3>2
  <2>3. \A h \in Entered : Leads(body', h) /\ (block_label(h) \in defined(body) => block_label(h) \in defined(body'))
    <3>1. CASE body' = body
      BY <2>1, <3>1 DEF HandlerInv
    <3>2. CASE retry > 0 /\ body' = best.body
      BY <3>2 DEF HandlerInv, Kept
    <3>3. QED
      BY <2>2, <3>1, <3>2
  <2>4. QED
    BY <1>1, <2>1, <2>3
<1>5. ASSUME Same, phase' \in {"clean", "ready", "run"},
             phase' = "clean" => \A h \in Entered : Kept(body', h),
             phase' \in {"ready", "run"} => Dispatches(body') \/ \A h \in Entered : Kept(body', h)
      PROVE  HandlerInv'
  <2>1. /\ Entered' = Entered /\ HandlersApart' = HandlersApart
        /\ \A t, h : (Leads(t, h)' <=> Leads(t, h)) /\ (Kept(t, h)' <=> Kept(t, h))
    BY <1>5, SameHandlers
  <2>2. \A t, h : Kept(t, h) => Leads(t, h)
    BY DEF Kept
  <2>3. QED
    BY <1>5, <2>1, <2>2 DEF HandlerInv, Dispatches
<1>6. CASE Settle
  <2>1. Same /\ phase' = "clean"
    BY <1>6 DEF Settle, input
  <2>2. QED
    BY <1>5, <1>6, <2>1, HandlersSettled
<1>7. CASE Clean
  <2>1. Same /\ phase' = "ready"
    BY <1>7 DEF Clean, input
  <2>2. QED
    BY <1>5, <1>7, <2>1, HandlersCleaned
<1>8. CASE Execute
  <2>1. Same /\ phase' = "run" /\ phase = "ready" /\ body' = body
    BY <1>8 DEF Execute, input
  <2>2. QED
    BY <1>5, <2>1 DEF HandlerInv
<1>9. CASE UNCHANGED driverVars
  <2>1. Same /\ phase' = phase /\ body' = body
    BY <1>9 DEF driverVars
  <2>2. /\ Entered' = Entered /\ HandlersApart' = HandlersApart
        /\ \A h : block_label(h)' = block_label(h)
        /\ \A t, h : (Leads(t, h)' <=> Leads(t, h)) /\ (Kept(t, h)' <=> Kept(t, h))
    BY <2>1, SameHandlers
  <2>3. QED
    BY <2>1, <2>2 DEF HandlerInv, Dispatches
<1>10. QED
  BY <1>2, <1>3, <1>4, <1>6, <1>7, <1>8, <1>9 DEF HandlerNext

\* Every handler the unwinder enters keeps its label, with its own code behind it,
\* in every text that is not a state machine: through the strip behind a return,
\* the pruning of labels no goto asks for, repeated definitions, the budget's tail,
\* the goto fallback and the joined ifs.
THEOREM HandlersKeptHolds == HandlerSpec => []HandlersKept
<1>1. HandlerSpec => DriverSpec
  <2>1. [HandlerNext]_driverVars => [DriverNext]_driverVars
    BY DEF HandlerNext, DriverNext
  <2>2. QED
    BY <2>1, PTL DEF HandlerSpec, DriverSpec
<1>2. DriverInit /\ HandlersApart => HandlerInv
  BY HandlersStart
<1>3. DriverInv /\ HandlerInv /\ [HandlerNext]_driverVars => HandlerInv'
  BY HandlerSteps
<1>4. DriverInv /\ HandlerInv => HandlersKept
  <2> SUFFICES ASSUME DriverInv, HandlerInv, phase \in {"ready", "run"},
                      \A i \in DOMAIN body : body[i].k # "dispatch", NEW h \in Entered
               PROVE  \E i \in DOMAIN body :
                        body[i].k = "label" /\ body[i].n = block_label(h) /\ body[i + 1].b = h
    BY DEF HandlersKept, LabelLeadsTo
  <2>1. ~Dispatches(body)
    BY DEF Dispatches, ToSet
  <2>2. Leads(body, h) /\ block_label(h) \in defined(body)
    BY <2>1 DEF HandlerInv, Kept
  <2>3. PICK i \in DOMAIN body : body[i].k = "label" /\ body[i].n = block_label(h)
    BY <2>2 DEF defined
  <2>4. QED
    BY <2>2, <2>3 DEF Leads
<1>5. QED
  BY <1>1, <1>2, <1>3, <1>4, DriverInvariant, PTL DEF HandlerSpec
=============================================================================
