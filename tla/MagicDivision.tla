--------------------------- MODULE MagicDivision ----------------------------
(***************************************************************************)
(* Division by a constant, recovered from the multiplication a compiler    *)
(* makes of it, and the unsigned range check (analysis/decompiler.cpp:     *)
(* recognize_magic_div and recognize_idioms).                              *)
(*                                                                         *)
(* The code has every formula for 32 and for 64 bits; here a word has Width *)
(* bits, few enough to compare the two sides for every operand, beside     *)
(* narrower ones and numbers of twice the width.  The high half of a       *)
(* product is the intrinsic (mulh, umulh) or the shift of a product of     *)
(* twice the width.                                                        *)
(***************************************************************************)
EXTENDS Integers, Sequences, FiniteSets, SequencesExt, Functions

CONSTANTS
    Width,       \* bits of the dividend
    DLimit       \* MD_DLIMIT: the greatest divisor tried

MagicAssumption ==
    /\ Width \in Nat \ {0, 1, 2}
    /\ DLimit \in 3..(2^(Width - 1) - 1)

VARIABLES
    source,      \* the program as it was lifted
    program,     \* the program now
    stage        \* the rewriting that comes next

vars == <<source, program, stage>>
Two == 2^Width
Half == 2^(Width - 1)
Words == 0..(Two - 1)

-----------------------------------------------------------------------------
(* Expressions, with their width and sign.                                 *)

Var(n, bits, uns) == [kind |-> "var", name |-> n, bits |-> bits, uns |-> uns]
Const(v, bits, uns) == [kind |-> "const", cval |-> v, bits |-> bits, uns |-> uns]
Cast(a, bits, uns) == [kind |-> "cast", a |-> a, bits |-> bits, uns |-> uns]

Bin(op, a, b, bits, uns) ==
    [kind |-> "bin", op |-> op, a |-> a, b |-> b, bits |-> bits, uns |-> uns]

Call(n) == [kind |-> "call", name |-> n, bits |-> Width, uns |-> FALSE]
IsBin(e, op) == e.kind = "bin" /\ e.op = op
IsConst(e, values) == e.kind = "const" /\ e.cval \in values

Operands(e) ==
    CASE e.kind = "cast" -> {e.a} [] e.kind = "bin" -> {e.a, e.b} [] OTHER -> {}

RECURSIVE NodesOf(_)
NodesOf(e) == {e} \cup UNION {NodesOf(o) : o \in Operands(e)}

has_call(e) == \E n \in NodesOf(e) : n.kind = "call"

\* A quotient is rounded toward zero.
Quotient(a, b) ==
    LET abs(n) == IF n < 0 THEN -n ELSE n
        q == abs(a) \div abs(b)
    IN  IF (a < 0) = (b < 0) THEN q ELSE -q

Bit(b) == IF b THEN 1 ELSE 0

\* The number that the lowest bits of v stand for.
Number(v, bits, uns) ==
    LET w == v % 2^bits IN IF uns \/ w < 2^(bits - 1) THEN w ELSE w - 2^bits

\* C's value of an operation on two numbers of the same type.
Operate(op, a, b) ==
    CASE op = "+"  -> a + b
      [] op = "-"  -> a - b
      [] op = "*"  -> a * b
      [] op \in {"mulh", "umulh"} -> (a * b) \div Two
      [] op = ">>" -> a \div 2^b
      [] op = "/"  -> Quotient(a, b)
      [] op = "%"  -> a - b * Quotient(a, b)
      [] op = "<"  -> Bit(a < b)
      [] op = "<=" -> Bit(a <= b)
      [] op = ">"  -> Bit(a > b)
      [] op = ">=" -> Bit(a >= b)
      [] op = "&&" -> Bit(a # 0 /\ b # 0)
      [] op = "||" -> Bit(a # 0 \/ b # 0)

\* A shift is logical when it or its operand's cast is unsigned.
Logical(e) == e.uns \/ (e.op = ">>" /\ e.a.kind = "cast" /\ e.a.uns)

RECURSIVE Value(_, _)
\* The number an expression is, from the numbers of the variables.
Value(e, env) ==
    LET operand(o) == Number(Value(o, env), e.bits, Logical(e)) IN
    Number(CASE e.kind = "const" -> e.cval
             [] e.kind = "cast" -> Value(e.a, env)
             [] e.kind \in {"var", "call"} -> env[e.name]
             [] e.kind = "bin" -> Operate(e.op, operand(e.a), operand(e.b)),
           e.bits, e.uns)

RECURSIVE CallsOf(_)
CallsOf(e) ==
    CASE e.kind = "call" -> 1
      [] e.kind = "cast" -> CallsOf(e.a)
      [] e.kind = "bin"  -> CallsOf(e.a) + CallsOf(e.b)
      [] OTHER -> 0

\* What a program returns for an argument, of which x is a word, y the double
\* and n less.
Result(p, arg) ==
    LET start == [n \in {"x", "y", "n", "f"} \cup {p.stmts[i].lhs : i \in DOMAIN p.stmts} |-> arg]
        end == FoldLeft(LAMBDA env, s : [env EXCEPT ![s.lhs] = Value(s.rhs, env)],
                        start, p.stmts)
    IN  Value(p.ret, end) % Two

-----------------------------------------------------------------------------
(* The magic numbers of a divisor (Hacker's Delight).                      *)

\* One bit more of [q, r], a power of two divided by n.
Doubled(qr, n) ==
    IF 2 * qr.r >= n THEN [q |-> 2 * qr.q + 1, r |-> 2 * qr.r - n]
                     ELSE [q |-> 2 * qr.q, r |-> 2 * qr.r]

Divided(a, n) == [q |-> a \div n, r |-> a % n]

\* When the loops of the two go on.
TooFew(q1, delta) == q1.q < delta \/ (q1.q = delta /\ q1.r = 0)

\* md_magics: the multiplier and the shift for a signed divisor.
md_magics(d) ==
    LET ad == IF d < 0 THEN -d ELSE d
        t == Half + (IF d < 0 THEN 1 ELSE 0)
        anc == t - 1 - (t % ad)
        turn(old) == <<Doubled(old[1], anc), Doubled(old[2], ad)>>
        step[p \in Width..(3 * Width)] ==
            turn(IF p = Width THEN <<Divided(Half, anc), Divided(Half, ad)>> ELSE step[p - 1])
        enough(now) == ~TooFew(now[1], ad - now[2].r)
        last == CHOOSE p \in DOMAIN step : enough(step[p]) /\ \A k \in Width..(p - 1) : ~enough(step[k])
        result(m) == [M |-> (IF d < 0 THEN -m ELSE m) % Two, s |-> last - Width]
    IN  result(step[last][2].q + 1)

\* md_magicu: for an unsigned one, and whether the multiplier lost its top bit.
md_magicu(d) ==
    LET nc == (Two - 1) - ((Two - d) % d)
        turn(old, more) ==
            <<Doubled(old[1], nc),
              [q |-> (2 * old[2].q + Bit(more)) % Two,
               r |-> 2 * old[2].r + 1 - (IF more THEN d ELSE 0)],
              IF old[2].q >= (IF more THEN Half - 1 ELSE Half) THEN 1 ELSE old[3]>>
        from(old) == turn(old, old[2].r + 1 >= d - old[2].r)
        step[p \in Width..(2 * Width)] ==
            from(IF p = Width THEN <<Divided(Half, nc), Divided(Half - 1, d), 0>> ELSE step[p - 1])
        enough(p, now) == p = 2 * Width \/ ~TooFew(now[1], d - 1 - now[2].r)
        last == CHOOSE p \in DOMAIN step :
                    enough(p, step[p]) /\ \A k \in Width..(p - 1) : ~enough(k, step[k])
        result(now) == [M |-> (now[2].q + 1) % Two, s |-> last - Width, a |-> now[3]]
    IN  result(step[last])

Divisors == ((-DLimit)..(-3)) \cup (3..DLimit)
SignedMagic == [d \in Divisors |-> md_magics(d)]
UnsignedMagic == [d \in 3..DLimit |-> md_magicu(d)]

\* The correction that goes with a signed divisor and its multiplier: the
\* multiplier's sign bit counts as a digit.
Corr(d, M) == IF d > 0 /\ M >= Half THEN 1 ELSE IF d < 0 /\ M < Half THEN -1 ELSE 0

\* Mutant: the correction is not compared.
FindAnyCorr(M, s, corr) == {d \in Divisors : SignedMagic[d] = [M |-> M, s |-> s]}

\* md_find_signed and md_find_unsigned: the divisors whose magic numbers are
\* exactly those observed (the code takes the first).
md_find_signed(M, s, corr) ==
    {d \in Divisors : SignedMagic[d] = [M |-> M, s |-> s] /\ Corr(d, M) = corr}

md_find_unsigned(M, s, a) ==
    {d \in 3..DLimit : UnsignedMagic[d] = [M |-> M, s |-> s, a |-> a]}

First(divisors) ==
    LET abs(n) == IF n < 0 THEN -n ELSE n IN
    CHOOSE d \in divisors : \A e \in divisors : abs(d) < abs(e) \/ (abs(d) = abs(e) /\ d >= e)

-----------------------------------------------------------------------------
(* Matching.  defs maps a temporary to the expression that defines it.     *)

\* The first of two matches; what a match gives, or what was there.
Either(first, second) == IF first # {} THEN first ELSE second
Matched(match, otherwise) == IF match = {} THEN otherwise ELSE CHOOSE m \in match : TRUE

\* x by the first of the divisors.
DividedBy(x, divisors, uns) ==
    IF divisors = {} THEN {}
    ELSE {Bin("/", x, Const(First(divisors), Width, uns), Width, uns)}

\* md_build_defs: variables with one definition, which calls nothing.
md_build_defs(stmts) ==
    LET defined(n) == {i \in DOMAIN stmts : stmts[i].lhs = n}
        at(n) == CHOOSE i \in defined(n) : TRUE
    IN  [n \in {m \in {stmts[i].lhs : i \in DOMAIN stmts} :
                   Cardinality(defined(m)) = 1 /\ ~has_call(stmts[at(m)].rhs)}
            |-> stmts[at(n)].rhs]

RECURSIVE md_resolve(_, _)
\* (The code gives up after 32 temporaries.)
md_resolve(e, defs) ==
    IF e.kind = "var" /\ e.name \in DOMAIN defs THEN md_resolve(defs[e.name], defs) ELSE e

RECURSIVE md_strip(_, _)
Peeled(c, defs) == IF c.kind = "cast" THEN md_strip(c.a, defs) ELSE c
md_strip(e, defs) == Peeled(md_resolve(e, defs), defs)

RECURSIVE exprEqual(_, _)
\* Of two operations neither the widths nor the signs are compared, and calls
\* are never equal.
exprEqual(e, f) ==
    /\ e.kind = f.kind
    /\ CASE e.kind = "const" -> e.cval = f.cval
         [] e.kind = "var" -> e.name = f.name
         [] e.kind = "call" -> FALSE
         [] e.kind = "cast" -> e.bits = f.bits /\ e.uns = f.uns /\ exprEqual(e.a, f.a)
         [] e.kind = "bin" -> e.op = f.op /\ exprEqual(e.a, f.a) /\ exprEqual(e.b, f.b)

RECURSIVE Unwidened(_, _)
\* Without the casts to the double width.
Unwidened(e, defs) ==
    LET r == md_resolve(e, defs) IN
    IF r.kind = "cast" /\ r.bits > Width THEN Unwidened(r.a, defs) ELSE r

\* The parts of a product one of whose operands is a constant.
Factors(a, b, defs) ==
    LET by(c, x) == IF md_strip(c, defs).kind = "const"
                      THEN {[x |-> x, M |-> md_strip(c, defs).cval]} ELSE {}
    IN  Either(by(a, b), by(b, a))

\* {} or {the dividend, the multiplier, its sign}.  Of a wide product the
\* dividend keeps its narrowing casts.
HighProduct(e, defs) ==
    LET prod == md_strip(e.a, defs) IN
    IF IsBin(e, "mulh") \/ IsBin(e, "umulh")
      THEN {[x |-> md_strip(m.x, defs), M |-> m.M % Two, uns |-> e.op = "umulh"] :
               m \in Factors(e.a, e.b, defs)}
    ELSE IF IsBin(e, ">>") /\ IsConst(md_strip(e.b, defs), {Width}) /\ IsBin(prod, "*")
      THEN {[x |-> Unwidened(m.x, defs), M |-> m.M % Two, uns |-> prod.uns \/ e.uns] :
               m \in {f \in Factors(prod.a, prod.b, defs) :
                         /\ Unwidened(f.x, defs).bits <= Width
                         /\ (f.M % (Two * Two)) \div Two \in {0, Two - 1}}}
    ELSE {}

\* Only operations are products.
md_match_mulhi(e, defs) ==
    LET c == md_strip(e, defs) IN IF c.kind = "bin" THEN HighProduct(c, defs) ELSE {}

\* The signed core: a high product, with the dividend added or subtracted.
Cores(core, defs) ==
    LET high(e) == {h \in md_match_mulhi(e, defs) : ~h.uns}
        plain == {[x |-> m.x, M |-> m.M, corr |-> 0] : m \in high(core)}
        first(corr) ==
            {[x |-> m.x, M |-> m.M, corr |-> corr] :
                m \in {h \in high(core.a) : exprEqual(md_strip(core.b, defs), md_strip(h.x, defs))}}
        second ==
            {[x |-> m.x, M |-> m.M, corr |-> 1] :
                m \in {h \in high(core.b) : exprEqual(md_strip(core.a, defs), h.x)}}
    IN  IF plain # {} THEN plain
        ELSE IF IsBin(core, "+") THEN Either(first(1), second)
        ELSE IF IsBin(core, "-") THEN first(-1)
        ELSE {}

\* The term that adds the quotient's sign bit: a logical shift by Width - 1.
SignTerm(b, defs) ==
    LET rb == md_resolve(b, defs) IN
    IF /\ IsBin(rb, ">>")
       /\ Logical([rb EXCEPT !.a = md_resolve(@, defs)])
       /\ IsConst(md_resolve(rb.b, defs), {Width - 1})
      THEN {md_strip(rb.a, defs)} ELSE {}

\* CORE >> s, or CORE alone.
Shift(S, defs) ==
    IF md_match_mulhi(S, defs) = {} /\ IsBin(S, ">>") /\ ~S.uns
      THEN [core |-> md_resolve(S.a, defs), s |-> md_resolve(S.b, defs)]
      ELSE [core |-> S, s |-> Const(0, Width, FALSE)]

\* (CORE >> s) + sign bit, in either order.
SignedQuotients(n, defs) ==
    LET by(shift) ==
            IF ~IsConst(shift.s, 0..(Width - 1)) THEN {}
            ELSE UNION {DividedBy(c.x, md_find_signed(c.M, shift.s.cval, c.corr), FALSE) :
                           c \in Cores(shift.core, defs)}
        side(A, B) ==
            IF \E t \in SignTerm(B, defs) : exprEqual(t, md_strip(A, defs))
              THEN by(Shift(md_resolve(A, defs), defs)) ELSE {}
    IN  IF ~IsBin(n, "+") THEN {}
        ELSE Either(side(n.a, n.b), side(n.b, n.a))

\* mulhi(x, M) >> s.
UnsignedQuotients(n, defs) ==
    IF ~(IsBin(n, ">>") /\ n.uns /\ IsConst(md_resolve(n.b, defs), 0..(Width - 1))) THEN {}
    ELSE LET s == md_resolve(n.b, defs).cval IN
         UNION {DividedBy(m.x, md_find_unsigned(m.M, s, 0), TRUE) :
                   m \in {h \in md_match_mulhi(n.a, defs) : h.uns}}

\* (T + ((x - T) >> 1)) >> (s - 1), where T = mulhi(x, M).
AddQuotients(n, defs) ==
    LET sum == md_strip(n.a, defs)
        s == md_resolve(n.b, defs).cval + 1
        side(T, H) ==
            LET rH == md_strip(H, defs)
                sub == md_strip(rH.a, defs)
                half == /\ IsBin(rH, ">>") /\ IsConst(md_strip(rH.b, defs), {1})
                        /\ IsBin(sub, "-")
                        /\ exprEqual(md_strip(sub.b, defs), md_strip(T, defs))
            IN  UNION {DividedBy(m.x, md_find_unsigned(m.M, s, 1), TRUE) :
                          m \in {h \in md_match_mulhi(T, defs) :
                                    /\ h.uns
                                    /\ half
                                    /\ exprEqual(md_strip(sub.a, defs), md_strip(h.x, defs))}}
    IN  IF ~(IsBin(n, ">>") /\ IsConst(md_resolve(n.b, defs), 0..(Width - 1)) /\ IsBin(sum, "+"))
          THEN {}
        ELSE Either(side(sum.a, sum.b), side(sum.b, sum.a))

\* md_match_quotient: {} or {the quotient}.
md_match_quotient(n, defs) ==
    IF n.kind # "bin" THEN {}
    ELSE Either(SignedQuotients(n, defs),
                Either(UnsignedQuotients(n, defs), AddQuotients(n, defs)))

\* md_try_modulo: x - (x / d) * d, or x minus twice (x / d) * (d / 2).
md_try_modulo(e, defs) ==
    LET rhs == md_strip(e.b, defs)
        twice == IsBin(rhs, "+") /\ exprEqual(md_strip(rhs.a, defs), md_strip(rhs.b, defs))
        mul == IF twice THEN md_strip(rhs.a, defs) ELSE rhs
        side(q0, c0) ==
            LET c == md_strip(c0, defs)  q == md_strip(q0, defs) IN
            IF /\ c.kind = "const"
               /\ IsBin(q, "/")
               /\ IsConst(q.b, {c.cval * (IF twice THEN 2 ELSE 1)})
               /\ exprEqual(md_strip(e.a, defs), md_strip(q.a, defs))
              THEN {Bin("%", q.a, q.b, q.bits, q.uns)} ELSE {}
    IN  IF ~IsBin(e, "-") \/ ~IsBin(mul, "*") THEN {}
        ELSE Either(side(mul.a, mul.b), side(mul.b, mul.a))

-----------------------------------------------------------------------------
(* Rewriting.                                                              *)

RECURSIVE md_rewrite(_, _), Inner(_, _)
\* The operands are rewritten first.
Inner(e, defs) ==
    [field \in DOMAIN e |-> IF field \in {"a", "b"} THEN md_rewrite(e[field], defs) ELSE e[field]]

md_rewrite(e, defs) ==
    LET inner == Inner(e, defs) IN
    Matched(Either(md_try_modulo(inner, defs), md_match_quotient(inner, defs)), inner)

md_contains_mulhi(e) ==
    \E n \in NodesOf(e) :
        \/ IsBin(n, "mulh") \/ IsBin(n, "umulh")
        \/ IsBin(n, ">>") /\ IsConst(n.b, {Width}) /\ IsBin(n.a, "*")

ReadsOf(e) == {n.name : n \in {v \in NodesOf(e) : v.kind = "var"}}

RECURSIVE md_dce_mulhi(_)
\* Temporaries of high products that nothing reads any more are dropped.
md_dce_mulhi(p) ==
    LET reads == UNION ({ReadsOf(p.ret)} \cup {ReadsOf(p.stmts[i].rhs) : i \in DOMAIN p.stmts})
        dead == {i \in DOMAIN p.stmts :
                    /\ ~has_call(p.stmts[i].rhs)
                    /\ md_contains_mulhi(p.stmts[i].rhs)
                    /\ p.stmts[i].lhs \notin reads}
    IN  IF dead = {} THEN p
        ELSE md_dce_mulhi([p EXCEPT !.stmts =
                 LET i == CHOOSE j \in dead : \A k \in dead : j <= k IN
                 SubSeq(@, 1, i - 1) \o SubSeq(@, i + 1, Len(@))])

\* Statements in order, and then what is returned.  The table of definitions
\* shares their trees: what is rewritten inside a definition shows in it, a root
\* that is replaced does not.
Rewritten(p) ==
    LET one(acc, s) ==
            [defs |-> IF s.lhs \in DOMAIN acc.defs
                        THEN [acc.defs EXCEPT ![s.lhs] = Inner(s.rhs, acc.defs)]
                        ELSE acc.defs,
             stmts |-> Append(acc.stmts, [s EXCEPT !.rhs = md_rewrite(@, acc.defs)])]
        end(after) == [stmts |-> after.stmts, ret |-> md_rewrite(p.ret, after.defs)]
    IN  end(FoldLeft(one, [defs |-> md_build_defs(p.stmts), stmts |-> <<>>], p.stmts))

Cleaned(rewritten, p) == IF rewritten = p THEN p ELSE md_dce_mulhi(rewritten)

\* The inclusive end of the interval.
RangeEnd(op, lo, R) == IF op \in {"<=", ">"} THEN lo + R ELSE lo + R - 1

\* match_range_check: (x - lo) <=u R as two comparisons, when the interval is
\* not trivial and ends where signed and unsigned agree.  (What would be
\* repeated must be small; trees here are.)
match_range_check(e) ==
    LET lo == e.a.b.cval
        hi == RangeEnd(e.op, lo, e.b.cval)
        w == e.a.bits
        compare(op, c) == Bin(op, e.a.a, Const(c, w, TRUE), w, TRUE)
    IN  IF /\ e.kind = "bin" /\ e.uns
           /\ e.op \in {"<=", "<", ">", ">="}
           /\ e.b.kind = "const" /\ e.b.cval >= 0
           /\ IsBin(e.a, "-") /\ e.a.b.kind = "const" /\ lo > 0
           /\ e.a.a.kind # "const" /\ ~has_call(e.a.a)
           /\ hi > lo
           /\ hi <= 2^((IF w < Width THEN w ELSE Width) - 1) - 1
          THEN IF e.op \in {"<=", "<"}
                 THEN Bin("&&", compare(">=", lo), compare("<=", hi), Width, FALSE)
                 ELSE Bin("||", compare("<", lo), compare(">", hi), Width, FALSE)
          ELSE e

RECURSIVE idiom_rewrite(_)
idiom_rewrite(e) ==
    CASE e.kind = "cast" -> [e EXCEPT !.a = idiom_rewrite(@)]
      [] e.kind = "bin" ->
            match_range_check([e EXCEPT !.a = idiom_rewrite(@), !.b = idiom_rewrite(@)])
      [] OTHER -> e

-----------------------------------------------------------------------------
\* A program is statements and a returned expression: [stmts, ret].
Starts(programs) ==
    /\ source \in programs
    /\ program = source
    /\ stage = "division"

recognize_magic_div ==
    /\ stage = "division"
    /\ program' = Cleaned(Rewritten(program), program)
    /\ stage' = "idioms"
    /\ UNCHANGED source

recognize_idioms ==
    /\ stage = "idioms"
    /\ program' =
        [stmts |-> [i \in DOMAIN program.stmts |->
                       [program.stmts[i] EXCEPT !.rhs = idiom_rewrite(@)]],
         ret |-> idiom_rewrite(program.ret)]
    /\ stage' = "done"
    /\ UNCHANGED source

Next == recognize_magic_div \/ recognize_idioms

-----------------------------------------------------------------------------
(* Properties.                                                             *)

Nodes(p) == NodesOf(p.ret) \cup UNION {NodesOf(p.stmts[i].rhs) : i \in DOMAIN p.stmts}
CallsIn(p) == FoldLeft(LAMBDA n, s : n + CallsOf(s.rhs), CallsOf(p.ret), p.stmts)
Arguments(p) == IF \E e \in Nodes(p) : e.kind = "var" /\ e.name = "y" THEN 0..(Two * Two - 1) ELSE Words
SameResults == program = source \/ \A arg \in Arguments(source) : Result(program, arg) = Result(source, arg)

\* Nothing that is read changes before the result does.
OneValueEach(p) ==
    LET assigned == [i \in DOMAIN p.stmts |-> p.stmts[i].lhs] IN
    /\ IsInjective(assigned)
    /\ {"x", "y", "n"} \cap Range(assigned) = {}

\* A number of the double width only comes from a product of extended words,
\* extended and shifted down by the product's own sign.  Only its high half is
\* narrowed, and variables that are narrowed wherever they are read, unless for an
\* intrinsic; what is less than a word keeps its sign.
OneWidthEach(p) ==
    LET wide == {e \in Nodes(p) : IsBin(e, "*") /\ e.bits > Width}
        extended(o, uns) ==
            \/ o.kind = "const" /\ o.cval = Number(o.cval, Width, uns)
            \/ o.kind = "cast" /\ o.a.bits <= Width /\ o.a.uns = uns
        everywhere(e) == /\ e.a.kind = "var"
                         /\ \A f \in Nodes(p) \ {e} : e.a \notin Operands(f) /\ ~IsBin(f, "mulh") /\ ~IsBin(f, "umulh")
        high(e) == IsBin(e, ">>") /\ e.a \in wide /\ e.uns = e.a.uns
    IN  /\ \A e \in wide : extended(e.a, e.uns) /\ extended(e.b, e.uns)
        /\ \A e \in Nodes(p) : e.kind = "cast" =>
              /\ e.a.bits > e.bits => high(e.a) \/ everywhere(e)
              /\ e.bits < Width => e.uns = e.a.uns
        /\ \A e \in Nodes(p) : IsBin(e, ">>") /\ e.a \in wide => high(e)

\* What is taken for equal is the same, and the shift of an unsigned value is logical.
OneSignEach(p) ==
    /\ \A e \in Nodes(p) : IsBin(e, ">>") /\ e.a.uns => Logical(e)
    /\ \A e, f \in Nodes(p) : e # f /\ e.kind # "const" => ~exprEqual(e, f)

\* "no side-effecting double-eval": the program calls what it called.  Where
\* variables, widths and signs are used one way, it returns for every argument
\* what it returned, whatever the multiplier, the shift and the correction.
RecognitionKept ==
    /\ CallsIn(program) = CallsIn(source)
    /\ OneValueEach(source) /\ OneWidthEach(source) /\ OneSignEach(source) => SameResults

\* The comment at 3622-3628 of decompiler.cpp, of every program: "A mismatch
\* leaves the raw __mulh form untouched, so recognition can never change behavior".
NeverChangesBehavior == SameResults
=============================================================================
