------------------------------ MODULE MCIdioms ------------------------------
(***************************************************************************)
(* Families of programs for MagicDivision: every multiplier, correction    *)
(* and shift in the shapes compilers give them, not only those that are a  *)
(* division; and the same shapes with the widths, the signs and the        *)
(* variables not used one way.                                             *)
(***************************************************************************)
EXTENDS MagicDivision

X(uns) == Var("x", Width, uns)
Y(uns) == Var("y", 2 * Width, uns)
N(uns) == Var("n", Width - 2, uns)
Word(op, a, b, uns) == Bin(op, a, b, Width, uns)
Num(v) == Const(v, Width, FALSE)

\* The high half of x times M, as the intrinsic ...
Intrinsic(M, x, uns) == Word(IF uns THEN "umulh" ELSE "mulh", Const(M, Width, uns), x, uns)
\* ... or as a product of the double width, the shift with a sign of its own.
Product(c, x, uns, down) ==
    LET wide(a) == Cast(a, 2 * Width, uns)
        prod == Bin("*", wide(x), Const(c, 2 * Width, uns), 2 * Width, uns)
    IN  Cast(Bin(">>", prod, Num(Width), 2 * Width, down), Width, down)
High(M, x, uns, wide) ==
    IF wide THEN Product(Number(M, Width, uns), x, uns, uns) ELSE Intrinsic(M, x, uns)

Core(h, x, corr) ==
    CASE corr = "none" -> h
      [] corr = "add" -> Word("+", h, x, FALSE)
      [] corr = "add2" -> Word("+", x, h, FALSE)
      [] corr = "sub" -> Word("-", h, x, FALSE)

Shifted(c, s) == IF s = 0 THEN c ELSE Word(">>", c, Num(s), FALSE)

SignBit(S, logical) == Word(">>", Cast(S, Width, logical), Num(Width - 1), FALSE)

Ret(e) == [stmts |-> <<>>, ret |-> e]

Through(v, rhs, e) == [stmts |-> <<[lhs |-> v, rhs |-> rhs]>>, ret |-> e]

Temp(t, uns) == Var(t, Width, uns)

Signeds ==
    {LET S == Shifted(Core(High(M, X(FALSE), FALSE, wide), X(FALSE), corr), s)
         t == Temp("t", FALSE) IN
     CASE form = 0 -> Ret(Word("+", S, SignBit(S, TRUE), FALSE))
       [] form = 1 -> Ret(Word("+", SignBit(S, FALSE), S, FALSE))
       [] form = 2 -> Through("t", S, Word("+", SignBit(t, TRUE), t, FALSE)) :
       M \in Words, s \in 0..(Width - 1), corr \in {"none", "add", "add2", "sub"},
       form \in 0..2, wide \in BOOLEAN}

Unsigneds ==
    {Ret(Word(">>", High(M, X(TRUE), TRUE, wide), Num(s), uns)) :
       M \in Words, s \in 0..Width, uns \in BOOLEAN, wide \in BOOLEAN}

\* The form for a multiplier of Width + 1 bits.
AddForm(h, x, s, half, uns) ==
    LET t == Temp("t", TRUE)
        sum == Word("+", t, Word(">>", Word("-", x, t, TRUE), Num(1), half), TRUE)
    IN  Through("t", h, Word(">>", sum, Num(s), uns))

Adds ==
    {AddForm(High(M, X(TRUE), TRUE, wide), X(TRUE), s, half, uns) :
       M \in Words, s \in 0..(Width - 1), wide \in BOOLEAN, half \in BOOLEAN, uns \in BOOLEAN}

\* The quotient of x by d as compilers compute it, of the high half High(M).
Quotients(x, d, H(_)) ==
    LET m == SignedMagic[d]
        corr == CASE Corr(d, m.M) = 0 -> "none" [] Corr(d, m.M) = 1 -> "add" [] OTHER -> "sub"
        S == Shifted(Core(H(m.M), x, corr), m.s)
    IN  Word("+", S, SignBit(S, TRUE), FALSE)

Div(d) == Quotients(X(FALSE), d, LAMBDA M : High(M, X(FALSE), FALSE, TRUE))

\* x minus a multiple of a quotient, of the divisor or of another number.
Modulos ==
    LET multiple(prod, twice) == IF twice THEN Word("+", prod, prod, FALSE) ELSE prod
        rest(x, q, c, twice) == Word("-", x, multiple(Word("*", q, Num(c), FALSE), twice), FALSE)
    IN  {IF temp THEN Through("q", Cast(Div(d), Width, FALSE), rest(X(FALSE), Temp("q", FALSE), c, twice))
                 ELSE Ret(rest(X(FALSE), Div(d), c, twice)) :
           d \in {3, 5, 6, 7, 10, -5}, c \in 1..12, twice \in BOOLEAN, temp \in BOOLEAN}

\* The minuend or the quotient is narrowed first.
Narrowed ==
    LET narrow(e) == {e, Cast(e, Width - 2, TRUE)} IN
    UNION {{Ret(Word("-", x, Word("*", q, Num(d), FALSE), FALSE)) :
              x \in narrow(X(FALSE)), q \in narrow(Div(d))} : d \in {3, 5, 7}}

\* Dividends of another width, and multipliers that are not extended words.
Dividends ==
    {Cast(x, w, uns) : x \in {X(FALSE), N(FALSE), N(TRUE)}, w \in {Width - 2, Width}, uns \in BOOLEAN}
      \cup {N(FALSE), N(TRUE), X(TRUE)}
Widths ==
    {Ret(Quotients(x, d, LAMBDA M : High(M, x, FALSE, wide))) :
       x \in Dividends, d \in {3, 5, 7, -5}, wide \in BOOLEAN}
      \cup {Ret(Word(">>", High(UnsignedMagic[d].M, x, TRUE, wide), Num(UnsignedMagic[d].s), TRUE)) :
              x \in Dividends, d \in {3, 5, 6}, wide \in BOOLEAN}
      \cup {AddForm(High(UnsignedMagic[7].M, x, TRUE, wide), z, UnsignedMagic[7].s - 1, TRUE, TRUE) :
              x \in Dividends, z \in {X(TRUE), Cast(N(TRUE), Width, TRUE)}, wide \in BOOLEAN}
      \cup {Ret(Quotients(X(FALSE), d, LAMBDA M : Product(M + k * Two, X(FALSE), uns, down))) :
              d \in {3, 5, 7}, k \in -1..1, uns \in BOOLEAN, down \in BOOLEAN}
Doubles ==
    {Ret(Quotients(x, d, LAMBDA M : High(M, x, FALSE, TRUE))) :
       d \in {3, 7}, x \in {Y(FALSE), Cast(Y(FALSE), Width, FALSE), Cast(Y(TRUE), Width, TRUE)}}

\* A dividend that changes between the product and its use.
Changes ==
    {[stmts |-> <<[lhs |-> "t", rhs |-> High(UnsignedMagic[3].M, X(TRUE), TRUE, wide)],
                  [lhs |-> v, rhs |-> rhs]>>,
      ret |-> Word(">>", Temp("t", TRUE), Num(UnsignedMagic[3].s), TRUE)] :
       wide \in BOOLEAN, v \in {"x", "n", "z"}, rhs \in {Word("+", N(TRUE), Num(1), TRUE), Call("f")}}

Ranges ==
    {Ret(Word(op, Bin("-", x, Const(lo, x.bits, TRUE), x.bits, TRUE), Const(R, x.bits, TRUE), uns)) :
       op \in {"<", "<=", ">", ">="}, lo \in 0..(Half + 1), R \in 0..20,
       uns \in BOOLEAN, x \in {X(FALSE), X(TRUE), Call("f")}}
      \cup {Ret(Word(op, Bin("-", x, Num(lo), Width, TRUE), Num(R), TRUE)) :
              op \in {"<", "<=", ">", ">="}, lo \in 0..6, R \in 0..6, x \in {N(FALSE), N(TRUE)}}

Apart == Narrowed \cup Widths \cup Doubles \cup Changes

MCInit ==
    \/ Starts(Signeds) \/ Starts(Unsigneds) \/ Starts(Adds)
    \/ Starts(Modulos) \/ Starts(Ranges) \/ Starts(Apart)
=============================================================================
