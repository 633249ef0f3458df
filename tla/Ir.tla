---------------------------------- MODULE Ir ----------------------------------
(***************************************************************************)
(* The intermediate program the decompiler rewrites (src/engine/analysis/  *)
(* decompiler.cpp): expressions, statements and basic blocks, and the      *)
(* predicates on them every pass is written with.                          *)
(*                                                                         *)
(* An expression is [k, n, a]: its kind, its name (the variable, the       *)
(* operator, the callee, the constant) and its operands in source order.   *)
(* Widths, signs and rendering hints are abstracted.                       *)
(***************************************************************************)
EXTENDS Naturals, Sequences, FiniteSets, FiniteSetsExt, SequencesExt

Nil == [k |-> "nil", n |-> "", a |-> <<>>]
Const(c) == [k |-> "const", n |-> c, a |-> <<>>]
Var(v) == [k |-> "var", n |-> v, a |-> <<>>]
Mem(addr) == [k |-> "mem", n |-> "", a |-> <<addr>>]
AddrOf(v) == [k |-> "addr", n |-> "", a |-> <<Var(v)>>]
Bin(op, x, y) == [k |-> "bin", n |-> op, a |-> <<x, y>>]
Call(f, args) == [k |-> "call", n |-> f, a |-> args]

Assign(lhs, rhs) == [k |-> "assign", lhs |-> lhs, rhs |-> rhs]
CallStmt(e) == [k |-> "call", lhs |-> Nil, rhs |-> e]

\* The intrinsics of the model that compute a value and touch nothing else.
PureCallees == {"__bsr", "_rotl"}

(***************************************************************************)
(* Blocks.  The five fields that carry an expression besides the           *)
(* statements are the terminal fields; cond chooses succ[1] (taken) or     *)
(* succ[2] (fall), switch_var one of succ, and a block without successors  *)
(* returns.                                                                *)
(***************************************************************************)
TerminalFields == {"cond", "ret_value", "ret_raw", "switch_var", "tail_call"}

Block(stmts, succ) ==
  [stmts |-> stmts, succ |-> succ, cond |-> Nil, ret_value |-> Nil,
   ret_raw |-> Nil, switch_var |-> Nil, tail_call |-> Nil]

RECURSIVE Nodes(_), subst_var(_, _, _), replace_subexpr(_, _, _)

\* Every node of an expression, as a sequence (a shared subtree counts each time).
Nodes(e) == IF e.k = "nil" THEN <<>>
            ELSE <<e>> \o FlattenSeq([i \in DOMAIN e.a |-> Nodes(e.a[i])])

SomeNode(e, P(_)) == \E i \in DOMAIN Nodes(e) : P(Nodes(e)[i])
CountNodes(e, P(_)) == Cardinality({i \in DOMAIN Nodes(e) : P(Nodes(e)[i])})

node_count(e) == Len(Nodes(e))
reads_mem(e) == SomeNode(e, LAMBDA x : x.k = "mem")
has_call(e) == SomeNode(e, LAMBDA x : x.k = "call")
is_pure_callee(f) == f \in PureCallees
ImpureCall(x) == x.k = "call" /\ ~is_pure_callee(x.n)
has_impure_call(e) == SomeNode(e, ImpureCall)
count_impure_calls(e) == CountNodes(e, ImpureCall)
count_var_reads(e, v) == CountNodes(e, LAMBDA x : x = Var(v))
reads_named_var(e, v) == SomeNode(e, LAMBDA x : x = Var(v))
var_names(e) == {x.n : x \in {Nodes(e)[i] : i \in {j \in DOMAIN Nodes(e) : Nodes(e)[j].k = "var"}}}
AddrTaken(e) == {x.a[1].n : x \in {Nodes(e)[i] : i \in {j \in DOMAIN Nodes(e) : Nodes(e)[j].k = "addr"}}}

\* Does v occur outside the arguments of every call (there it would be a sibling)?
RECURSIVE reads_var_outside_call_args(_, _)
reads_var_outside_call_args(e, v) ==
  \/ e = Var(v)
  \/ e.k # "call" /\ \E i \in DOMAIN e.a : reads_var_outside_call_args(e.a[i], v)

\* Two equal expressions are one value only if every call in them is an intrinsic.
exprEqual(x, y) == x = y /\ ~SomeNode(x, LAMBDA z : z.k = "call" /\ z.n # "__bsr")

subst_var(e, v, val) ==
  IF e = Var(v) THEN val
  ELSE [e EXCEPT !.a = [i \in DOMAIN e.a |-> subst_var(e.a[i], v, val)]]

replace_subexpr(e, pat, v) ==
  IF e.k # "var" /\ e # Nil /\ exprEqual(e, pat) THEN Var(v)
  ELSE [e EXCEPT !.a = [i \in DOMAIN e.a |-> replace_subexpr(e.a[i], pat, v)]]

(***************************************************************************)
(* Statements.  The destination of a store reads its address; a variable   *)
(* that is assigned is written and not read.                               *)
(***************************************************************************)
DefinesVar(s) == s.k = "assign" /\ s.lhs.k = "var"
Defines(s, v) == DefinesVar(s) /\ s.lhs.n = v
StoresMem(s) == s.lhs.k = "mem"
lhs_addr_reads(s) == IF StoresMem(s) THEN var_names(s.lhs) ELSE {}
StmtReads(s) == var_names(s.rhs) \union lhs_addr_reads(s)
StmtReadCount(s, v) ==
  count_var_reads(s.rhs, v) + (IF StoresMem(s) THEN count_var_reads(s.lhs, v) ELSE 0)
SubstStmt(s, v, val) ==
  [s EXCEPT !.rhs = subst_var(@, v, val),
            !.lhs = IF @.k = "var" THEN @ ELSE subst_var(@, v, val)]

TerminalReads(b) == UNION {var_names(b[fld]) : fld \in TerminalFields}
BlockReads(b) == TerminalReads(b) \union UNION {StmtReads(b.stmts[i]) : i \in DOMAIN b.stmts}
TerminalReadCount(b, v) ==
  MapThenSumSet(LAMBDA fld : count_var_reads(b[fld], v), TerminalFields)
SubstTerminals(b, v, val) ==
  [fld \in DOMAIN b |-> IF fld \in TerminalFields THEN subst_var(b[fld], v, val) ELSE b[fld]]

(***************************************************************************)
(* The whole function: a sequence of blocks entered at the first.          *)
(***************************************************************************)
Places(p) == UNION {{<<i, k>> : k \in DOMAIN p[i].stmts} : i \in DOMAIN p}
At(p, pl) == p[pl[1]].stmts[pl[2]]
total_reads(p, v) ==
  MapThenSumSet(LAMBDA pl : StmtReadCount(At(p, pl), v), Places(p))
    + MapThenSumSet(LAMBDA i : TerminalReadCount(p[i], v), DOMAIN p)
total_writes(p, v) == Cardinality({pl \in Places(p) : Defines(At(p, pl), v)})
collect_addr_taken(p) ==
  UNION ({AddrTaken(p[i][fld]) : i \in DOMAIN p, fld \in TerminalFields}
         \union {AddrTaken(At(p, pl).rhs) \union AddrTaken(At(p, pl).lhs) : pl \in Places(p)})
Reads(p) == UNION {BlockReads(p[i]) : i \in DOMAIN p}

Succ(p, i) == {p[i].succ[k] : k \in DOMAIN p[i].succ}
RECURSIVE ReachAvoiding(_, _, _)
ReachAvoiding(p, from, cut) ==
  LET next == (from \union UNION {Succ(p, i) : i \in from}) \ cut
  IN IF next = from THEN from ELSE ReachAvoiding(p, next, cut)
const_cond(c) ==   \* 1 always true, 2 always false (the code's -1), 0 unknown
  CASE c.k = "const" -> IF c.n = "0" THEN 2 ELSE 1
    [] c.k = "bin" /\ c.n \in {"==", "!="} /\ \A i \in 1..2 : c.a[i].k = "const" ->
         IF (c.a[1] = c.a[2]) <=> (c.n = "==") THEN 1 ELSE 2
    [] OTHER -> 0
dominates(p, a, b) == a = b \/ a = 1 \/ b \notin ReachAvoiding(p, {1} \ {a}, {a})
===============================================================================
