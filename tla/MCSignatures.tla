---------------------------- MODULE MCSignatures ----------------------------
(***************************************************************************)
(* Families of programs for Signatures over four imports: 21 returns a     *)
(* handle, 22 a string, and 23 and 24 are lock primitives; and what the    *)
(* functions do when they run.                                             *)
(***************************************************************************)
EXTENDS Signatures

Ins(op) == I(op, 9, 0, 0)
Reg(op, p, w) == I(op, p, w, 0)
Wide(op, w) == I(op, 9, w, 0)
To(op, t) == I(op, 9, 0, t)
Ret == <<Ins("ret")>>
CallTo(t) == <<To("call", t)>>
JumpTo(t) == <<To("jump", t)>>
Api(t) == <<To("api", t)>>

\* Bodies that call nothing of the program.
Leaves ==
    {Ret, <<Ins("trap")>>,
     <<Wide("value", 4)>> \o Ret,
     <<Reg("use", 1, 0), Wide("value", 1)>> \o Ret,
     <<Reg("fuse", 0, 8), Reg("fset", 0, 8)>> \o Ret,
     <<Reg("home", 0, 0), Reg("home", 2, 0), Ins("frame"), Reg("copy", 0, 8)>> \o Ret,
     <<Reg("deref", 0, 4), Wide("stack", 5), Wide("value", 4), Ins("store")>> \o Ret,
     <<Reg("set", 0, 0), Reg("use", 3, 0)>> \o <<To("import_jump", 21)>>,
     Api(21) \o Ret,
     Api(22) \o <<Ins("test")>> \o Ret,
     Api(21) \o <<Wide("value", 4)>> \o Ret,
     Api(21) \o <<Wide("value", 8)>> \o Api(22) \o Ret,
     Api(23) \o Ret,
     <<Reg("fset", 0, 4), Ins("fstore"), Ins("indirect")>> \o Ret,
     [p \in 1..4 |-> Reg("home", p - 1, 0)] \o <<Ins("frame")>> \o Ret}

\* Bodies around one or two functions of the program.
Around(t) ==
    {JumpTo(t),
     <<Reg("set", 1, 0)>> \o JumpTo(t),
     CallTo(t) \o Ret,
     <<Reg("lea", 0, 0)>> \o CallTo(t) \o <<Ins("store")>> \o Ret,
     CallTo(t) \o <<Wide("value", 4)>> \o Ret,
     Api(21) \o CallTo(t) \o Ret,
     CallTo(t) \o Api(22) \o Ret}

\* Three functions that call one another in every way.
Triples ==
    LET bodies(f) == Leaves \cup UNION {Around(t) : t \in (1..3) \ {f}} \cup {CallTo(f) \o Ret}
    IN  {<<a, b, c>> : a \in bodies(1), b \in bodies(2), c \in bodies(3)}

\* Chains of thunks to one function, in every order.
Chains ==
    LET orders == {p \in [1..5 -> 1..5] : \A i, j \in 1..5 : p[i] = p[j] => i = j} IN
    {[f \in 1..5 |-> LET k == CHOOSE k \in 1..5 : p[k] = f IN
                     IF k = 5 THEN body ELSE JumpTo(p[k + 1])] : p \in orders, body \in Leaves}

\* Results that are not what a call gave: a quotient of it, the results of two
\* imports at two exits, an exit beside a tail jump.
Mixed ==
    {<<Api(21) \o <<Wide("divide", 8)>> \o Ret>>,
     <<<<Ins("skip")>> \o Api(21) \o Ret \o Api(22) \o Ret>>,
     <<<<Ins("skip"), Wide("value", 4)>> \o Ret \o JumpTo(2), Api(21) \o Ret>>}

MCInit == SigStarts(Triples) \/ SigStarts(Chains) \/ SigStarts(Mixed)

\* Calls before a tail jump: two loops of a round disagree about them.
Sequencers == {<<CallTo(2) \o JumpTo(3), a, b>> : a \in Leaves, b \in Leaves}

\* The families are programs.
FamiliesAssumption ==
    \A p \in Triples \cup Chains \cup Mixed \cup Sequencers : IsProgram(p)

-----------------------------------------------------------------------------
(* What the functions do when they run.                                    *)

\* What may be in rax when body f, from instruction i on, returns; calls are
\* followed to a depth, and what is deeper does not return.
RECURSIVE Returns(_, _, _, _)

Returns(f, i, rax, depth) ==
    IF i > Len(code[f]) \/ depth = 0 THEN {}
    ELSE LET c == code[f][i]
             exits == {k \in i..Len(code[f]) : code[f][k].op \in {"ret", "jump", "import_jump"}}
             Rest(v) == Returns(f, i + 1, v, depth)
         IN  CASE c.op = "ret" -> {rax}
               [] c.op = "import_jump" -> {c.to}
               [] c.op = "jump" -> Returns(c.to, 1, rax, depth - 1)
               [] c.op = "call" -> UNION {Rest(v) : v \in Returns(c.to, 1, rax, depth - 1)}
               [] c.op = "api" -> Rest(c.to)
               [] c.op \in {"value", "copy", "divide", "indirect"} -> Rest(0)
               [] c.op = "skip" /\ exits # {} ->
                     LET over == CHOOSE k \in exits : \A j \in exits : k <= j
                     IN  Rest(rax) \cup Returns(f, over + 1, rax, depth)
               [] c.op = "trap" -> {}
               [] OTHER -> Rest(rax)

Depth == Len(code) + 2

\* What f is said to return is what it returns, whenever it does.
Justified(f) ==
    tab[f].ret_api # NoType =>
        \A v \in Returns(f, 1, 0, Depth) : v \in DOMAIN ApiType /\ ApiType[v] = tab[f].ret_api

\* One way out, and no quotient that the scan takes for the result of a call.
OneResult(f) ==
    /\ \A i \in DOMAIN code[f] : code[f][i].op \notin {"skip", "divide"}
    /\ \A i, j \in DOMAIN code[f] :
           {code[f][i].op, code[f][j].op} \subseteq {"ret", "jump", "import_jump"} => i = j


\* It does through every wrapper and thunk and in every order of the
\* addresses, where each function has one result (the seed and the rounds).
ApiTypeOfOneResult ==
    stage = "done" /\ (\A f \in DOMAIN code : OneResult(f)) =>
        \A f \in DOMAIN tab : Justified(f)
=============================================================================
