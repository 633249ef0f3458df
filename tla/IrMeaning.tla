------------------------------- MODULE IrMeaning -------------------------------
(***************************************************************************)
(* What a program of Ir means: the reference the passes of the decompiler  *)
(* are compared with.  The program is read as the C that is printed for    *)
(* it: the operands of an operator, the arguments of a call and the two    *)
(* sides of a store are evaluated in any order, so a program has a SET of  *)
(* behaviours.  A behaviour is what a caller could observe: the calls with *)
(* their arguments, the stores, the branches taken with the value tested,  *)
(* and the value returned.                                                 *)
(*                                                                         *)
(* Values are terms.  A load is a term that carries the number of effects  *)
(* (calls and stores) before it: two loads are the same value only if no   *)
(* effect lies between them.  Unassigned locals start as 0, as declared;   *)
(* locals homed on a parameter start as that parameter (`int v2 = a2`).    *)
(* A local of InMemory is a cell: assigning it is a store any callee may   *)
(* observe, reading it a load.                                             *)
(***************************************************************************)
EXTENDS Ir, TLC

CONSTANTS Alias,     \* local -> the parameter it is declared with
          InMemory,  \* the locals whose address the program takes
          VoidCallees,   \* callees known to return nothing (ret_kind 0)
          Fuel       \* blocks a behaviour may enter before it is cut

Event(kind, name, vals) == [k |-> kind, n |-> name, a |-> vals]
Effects(tr) == Cardinality({i \in DOMAIN tr : tr[i].k \in {"call", "store"}})

Load(addr, tr) == [k |-> "load", n |-> ToString(Effects(tr)), a |-> <<addr>>]

Store(addr, val, tr) == Append(tr, Event("store", "", <<addr, val>>))

\* Assigning the local just assigned, with no effect between, leaves one store.
StoreLocal(v, val, tr) ==
  IF tr # <<>> /\ tr[Len(tr)].k = "store" /\ tr[Len(tr)].a[1] = AddrOf(v)
  THEN [tr EXCEPT ![Len(tr)].a = <<AddrOf(v), val>>] ELSE Store(AddrOf(v), val, tr)

\* The value of a variable: env holds what was assigned, else what it starts as.
Start(v) == IF v \in DOMAIN Alias THEN Var(Alias[v])
            ELSE IF v \in {"a1", "a2", "a3"} THEN Var(v) ELSE Const("0")
Value(env, v) == IF v \in DOMAIN env THEN env[v] ELSE Start(v)

RECURSIVE Eval(_, _, _), EvalAll(_, _, _, _, _)

(* The sets of <<value, trace>> that evaluating e after trace tr may give. *)
Eval(e, env, tr) ==
  CASE e.k \in {"const", "nil"} -> {<<e, tr>>}
    [] e.k = "var" /\ e.n \in InMemory -> {<<Load(AddrOf(e.n), tr), tr>>}
    [] e.k = "var" /\ e.n \notin InMemory -> {<<Value(env, e.n), tr>>}
    [] e.k = "addr" -> {<<e, tr>>}
    [] e.k = "bin" -> {<<[e EXCEPT !.a = r[1]], r[2]>> : r \in EvalAll(e.a, DOMAIN e.a, e.a, env, tr)}
    [] e.k = "mem" -> {<<Load(r[1][1], r[2]), r[2]>> : r \in EvalAll(e.a, DOMAIN e.a, e.a, env, tr)}
    [] e.k = "call" /\ is_pure_callee(e.n) ->
         {<<[e EXCEPT !.a = r[1]], r[2]>> : r \in EvalAll(e.a, DOMAIN e.a, e.a, env, tr)}
    [] e.k = "call" /\ ~is_pure_callee(e.n) ->
         {<<IF e.n \in VoidCallees THEN Nil
             ELSE [k |-> "result", n |-> ToString(Effects(r[2])), a |-> <<>>],
            Append(r[2], Event("call", e.n, r[1]))>> :
              r \in EvalAll(e.a, DOMAIN e.a, e.a, env, tr)}

(* Operands es, the ones of todo still to evaluate, in any order. *)
EvalAll(es, todo, vals, env, tr) ==
  IF todo = {} THEN {<<vals, tr>>}
  ELSE UNION {UNION {EvalAll(es, todo \ {i}, [vals EXCEPT ![i] = r[1]], env, r[2])
                       : r \in Eval(es[i], env, tr)} : i \in todo}

(* One statement: the set of <<env, trace>> after it. *)
Exec(s, env, tr) ==
  IF DefinesVar(s) /\ s.lhs.n \in InMemory
  THEN {<<env, StoreLocal(s.lhs.n, r[1], r[2])>> : r \in Eval(s.rhs, env, tr)}
  ELSE IF DefinesVar(s)
  THEN {<<(s.lhs.n :> r[1]) @@ env, r[2]>> : r \in Eval(s.rhs, env, tr)}
  ELSE IF StoresMem(s)
  THEN {<<env, Store(r[1][1], r[1][2], r[2])>> :
          r \in EvalAll(<<s.lhs.a[1], s.rhs>>, 1..2, <<s.lhs.a[1], s.rhs>>, env, tr)}
  ELSE {<<env, r[2]>> : r \in Eval(s.rhs, env, tr)}

RECURSIVE ExecAll(_, _, _), RunFrom(_, _, _, _, _)
ExecAll(ss, env, tr) ==
  IF ss = <<>> THEN {<<env, tr>>}
  ELSE UNION {ExecAll(Tail(ss), r[1], r[2]) : r \in Exec(Head(ss), env, tr)}

(* What is printed for a return: the tail call if there is one, else the
   value; ret_raw is never printed. *)
Returned(b) == IF b.tail_call # Nil THEN b.tail_call ELSE b.ret_value

RunFrom(p, i, env, tr, fuel) ==
  IF fuel = 0 THEN {Append(tr, Event("cut", "", <<>>))}
  ELSE LET b == p[i]
           Leave(r) ==
             IF b.succ = <<>>
             THEN {Append(o[2], Event("ret", "", <<o[1]>>)) : o \in Eval(Returned(b), r[1], r[2])}
             ELSE IF const_cond(b.cond) # 0
             THEN RunFrom(p, b.succ[const_cond(b.cond)], r[1], r[2], fuel - 1)
             ELSE IF b.cond = Nil /\ b.switch_var = Nil
             THEN RunFrom(p, b.succ[1], r[1], r[2], fuel - 1)
             ELSE UNION {RunFrom(p, b.succ[k], r[1],
                                 Append(o[2], Event("branch", ToString(k), <<o[1]>>)), fuel - 1)
                           : o \in Eval(IF b.cond # Nil THEN b.cond ELSE b.switch_var, r[1], r[2]),
                             k \in DOMAIN b.succ}
       IN UNION {Leave(r) : r \in ExecAll(b.stmts, env, tr)}

Behaviours(p) == RunFrom(p, 1, <<>>, <<>>, Fuel)
===============================================================================
