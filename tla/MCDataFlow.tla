------------------------------ MODULE MCDataFlow ------------------------------
EXTENDS DataFlow

a1 == Var("a1")
a2 == Var("a2")
v1 == Var("v1")
v9 == Var("v9")
t1 == Var("t1")
t2 == Var("t2")
v2 == Var("v2")
MCLocals == <<"v1", "v2", "v9", "t1", "t2">>
MCAlias == [v \in {"v2"} |-> "a2"]   \* int v2 = a2
Plus(x) == Bin("+", x, Const("1"))


(***************************************************************************)
(* Straight code: three statements and a return.                           *)
(***************************************************************************)
Stmts == {Assign(t1, Call("f", <<a1>>)), Assign(t1, Mem(a1)), Assign(t1, Plus(a1)),
          Assign(t2, t1), Assign(t2, Bin("+", t1, v1)), Assign(t2, Call("g", <<t1>>)),
          Assign(v1, t1), Assign(v1, t2), Assign(v1, Const("0")), Assign(v1, Call("__bsr", <<a2>>)),
          Assign(Mem(a2), t1), Assign(Mem(t1), Call("g", <<a2>>)), Assign(Mem(t2), Const("0")), CallStmt(Call("h", <<v1>>))}
First == {s \in Stmts : StmtReads(s) \subseteq {"a1", "a2"}}
Returns(stmts) ==
  {[Block(stmts, <<>>) EXCEPT !.ret_value = r, !.ret_raw = r] : r \in {Const("0"), t1, Bin("-", v1, t2)}}
    \union {[Block(stmts, <<>>) EXCEPT !.ret_value = t2],
            [Block(stmts, <<>>) EXCEPT !.tail_call = Call("k", <<v1, t2>>), !.ret_value = Call("k", <<v1, t2>>)]}
Straight == {<<b>> : b \in UNION {Returns(<<x, y, z>>) : x \in First, y \in Stmts, z \in Stmts}}

\* A callee holds the address of v9, which is assigned once after it.
Escaped ==
  LET sets == {Assign(v9, Plus(t1)), Assign(v9, Const("0"))}
      uses == {Assign(t1, v9), Assign(t1, Const("1")), Assign(v1, Plus(v9)), Assign(Mem(a2), t1), CallStmt(Call("g", <<t1>>))}
      order(s, x, y) == {<<x, s, y>>, <<x, y, s>>, <<s, x, y>>}
  IN {<<[Block(<<CallStmt(Call("h", <<AddrOf("v9")>>))>> \o ss, <<>>) EXCEPT !.ret_value = r]>> :
        ss \in UNION {order(s, x, y) : s \in sets, x \in uses, y \in uses}, r \in {v9, v1}}

(***************************************************************************)
(* A diamond, and a loop whose head is also its body.                      *)
(***************************************************************************)
If(stmts, c, succ) == [Block(stmts, succ) EXCEPT !.cond = c]
Defs == {Assign(v1, a1), Assign(v1, t1), Assign(t1, v1), Assign(t1, a2), Assign(t1, Mem(a2)),
         Assign(t1, Call("f", <<a1>>)), Assign(Mem(a1), t1)}
Tests == {Bin("<", a1, a2), t1, Bin("==", Const("0"), Const("0"))}
Diamond == {<<If(<<x>>, c, <<2, 3>>), Block(<<y>>, <<4>>), Block(<<z>>, <<4>>),
              [Block(<<w>>, <<>>) EXCEPT !.ret_value = v1]>> :
              x \in Defs, y \in Defs, z \in Defs, w \in Defs, c \in Tests}
Loop == {<<Block(<<x>>, <<2>>), If(<<y, z>>, c, <<2, 3>>), [Block(<<>>, <<>>) EXCEPT !.ret_value = r]>> :
              x \in Defs, y \in Defs \union {Assign(v1, Plus(v1))}, z \in Defs, c \in Tests, r \in {v1, t1}}

Void == {<<[Block(<<Assign(t1, Call("h", <<a1>>)), x>>, <<>>) EXCEPT !.ret_value = t1, !.ret_raw = t1]>> : x \in First}
Dispatch == {<<[Block(<<x, y>>, <<2, 3>>) EXCEPT !.switch_var = t1],
               [Block(<<z>>, <<>>) EXCEPT !.ret_value = t1], [Block(<<>>, <<>>) EXCEPT !.ret_value = Const("0")]>> :
               x \in First, y \in Defs, z \in Defs}


(***************************************************************************)
(* A branch that computes again what the last statement assigned, to a     *)
(* local that is used behind it or not at all.                             *)
(***************************************************************************)
Again ==
  LET values == {Plus(a1), Mem(a1)}
      sets == {Assign(v, e) : v \in {v1, t1}, e \in values}
  IN {<<If(<<x, y>>, Bin("<", c, a2), <<2, 3>>), [Block(<<>>, <<>>) EXCEPT !.ret_value = r],
        [Block(<<>>, <<>>) EXCEPT !.ret_value = a2]>> :
        x \in sets \union {Assign(Mem(a1), a2)}, y \in sets, c \in values, r \in {v1, t1, a1}}

(***************************************************************************)
(* A local homed on a parameter, assigned again on one side of a branch.   *)
(***************************************************************************)
Homed ==
  LET uses == {Assign(v2, a1), Assign(v2, Plus(a1)), Assign(t1, v2), Assign(v1, v2), Assign(Mem(a1), v2)}
  IN {<<If(<<x>>, Bin("<", a1, a2), <<2, 3>>), Block(<<y>>, <<4>>), Block(<<z>>, <<4>>),
        [Block(<<w>>, <<>>) EXCEPT !.ret_value = r]>> :
        x \in uses, y \in uses, z \in uses, w \in uses, r \in {v2, Plus(v2)}}

Starts(programs) ==
  /\ prog \in {p \in programs : DefinedFirst(p)}
  /\ pass = 1 /\ rounds = 0 /\ meaning = Behaviours(prog)
MCInit == Starts(UNION {Straight, Escaped, Diamond, Loop, Void, Dispatch, Again, Homed})

(***************************************************************************)
(* do { g(v2); v2 = *v2; } while (v2) over a homed parameter.              *)
(***************************************************************************)
HomedLoop == {<<If(<<x, Assign(v2, Mem(v2))>>, v2, <<1, 2>>), [Block(<<>>, <<>>) EXCEPT !.ret_value = r]>> :
                x \in {CallStmt(Call("g", <<v2>>)), Assign(Mem(a1), v2)}, r \in {Const("0"), a1}}
HomedLoopSpec == Starts(HomedLoop) /\ [][Next]_vars

(***************************************************************************)
(* if (a1 < a2) v1 = 0; else { while (v2 < a1) v2 = *v2; v1 = v2; }        *)
(* return v1;  over a homed parameter that is named after the local.       *)
(***************************************************************************)
HomedCopy == {<<If(<<>>, Bin("<", a1, a2), <<2, 3>>), Block(<<Assign(v1, x)>>, <<6>>),
                If(<<>>, Bin("<", v2, a1), <<4, 5>>), Block(<<Assign(v2, Mem(v2))>>, <<3>>),
                Block(<<Assign(v1, v2)>>, <<6>>), [Block(<<>>, <<>>) EXCEPT !.ret_value = v1]>> :
                x \in {Const("0"), a1}}

(***************************************************************************)
(* v1 = 0; *a1 = v1; v1 = v1 + 1; *a2 = v1.                                *)
(***************************************************************************)
Counted == {<<[Block(<<Assign(v1, x), Assign(Mem(a1), v1), Assign(v1, Plus(v1)), Assign(Mem(a2), v1)>>, <<>>)
                 EXCEPT !.ret_value = a1]>> : x \in {Const("0"), a2}}

\* The passes break some program of either shape.
OutsideSpec == Starts(Counted \union HomedCopy) /\ [][Next]_vars
===============================================================================
