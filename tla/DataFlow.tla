------------------------------- MODULE DataFlow -------------------------------
(***************************************************************************)
(* The passes that clean the lifted program up before it is structured     *)
(* (Decompiler::run in src/engine/analysis/decompiler.cpp, from            *)
(* local_dead_store_elim to fold_dead_block_temps).  One step is one       *)
(* rewrite of a pass, or the move to the next pass when it has none left.  *)
(*                                                                         *)
(* Where a pass scans for its first candidate and starts again after each  *)
(* rewrite, the model takes any candidate: the code's order is one of      *)
(* them.  A pass that goes round until nothing is left may be cut by the   *)
(* cap on its rounds (16, 8, 15, 12 or 400) with candidates left.  Type    *)
(* inference and common subexpressions, which run between these passes,    *)
(* and the constant folding of an inlined expression are left out.         *)
(***************************************************************************)
EXTENDS IrMeaning

CONSTANTS Locals,        \* the recovered locals and temps, in the order of their names
          MaxRounds      \* the cap on the rounds of a pass (the code's: 8 to 400)

VARIABLES prog,          \* the blocks
          pass,          \* index in Passes of the running pass
          rounds,        \* the rewrites it has done
          meaning        \* the behaviours of the program the passes were given

vars == <<prog, pass, rounds, meaning>>

\* The order of run(); copy_propagate runs a second time after the cse passes.
Passes == <<"local_dse", "dse", "copy_propagate", "local_dse", "dse", "global_dse",
            "demote_void", "unused_calls", "canonicalize", "const_branches", "copy_propagate",
            "coalesce", "invariant_temps", "local_loads", "return_temps", "dead_block_temps">>

LocalNames == {Locals[i] : i \in DOMAIN Locals}
RemoveStmt(p, pl) == [p EXCEPT ![pl[1]].stmts = RemoveAt(@, pl[2])]
KeepStmts(p, Keep(_)) ==
  [i \in DOMAIN p |->
     [p[i] EXCEPT !.stmts = FlattenSeq([k \in DOMAIN @ |-> IF Keep(<<i, k>>) THEN <<@[k]>> ELSE <<>>])]]

(***************************************************************************)
(* Dead stores                                                             *)
(***************************************************************************)
\* Overwritten later in the block, and read by no statement up to there.
OverwrittenUnread(ss, k) ==
  \E j \in k + 1..Len(ss) :
    /\ Defines(ss[j], ss[k].lhs.n)
    /\ \A m \in k + 1..j : ss[k].lhs.n \notin StmtReads(ss[m])

local_dead_store_elim(p) ==
  KeepStmts(p, LAMBDA pl : LET s == At(p, pl)
                           IN ~(/\ DefinesVar(s) /\ ~has_call(s.rhs)
                                /\ OverwrittenUnread(p[pl[1]].stmts, pl[2])))

dead_store_elim(p) ==
  KeepStmts(p, LAMBDA pl : LET s == At(p, pl)
                           IN ~(DefinesVar(s) /\ ~has_impure_call(s.rhs) /\ s.lhs.n \notin Reads(p)))

\* What is live before a statement, given what is live after it.
Transfer(s, after) ==
  IF DefinesVar(s) THEN (after \ {s.lhs.n}) \union var_names(s.rhs)
  ELSE after \union var_names(s.rhs) \union var_names(s.lhs)
RECURSIVE LiveBefore(_, _, _)
LiveBefore(ss, k, end) ==
  IF k > Len(ss) THEN end ELSE Transfer(ss[k], LiveBefore(ss, k + 1, end))

RECURSIVE LiveIn(_, _)
LiveIn(p, in) ==
  LET out(i) == UNION {in[s] : s \in Succ(p, i)}
      next == [i \in DOMAIN p |-> LiveBefore(p[i].stmts, 1, out(i) \union TerminalReads(p[i]))]
  IN IF next = in THEN in ELSE LiveIn(p, next)
LiveOut(p, i) == UNION {LiveIn(p, [j \in DOMAIN p |-> {}])[s] : s \in Succ(p, i)}

\* The scan that decides what to drop starts from fewer terminal fields than
\* the liveness before it: neither ret_raw nor tail_call.
DropScanFields == {"cond", "ret_value", "switch_var"}

global_dead_store_elim(p) ==
  LET end(i) == LiveOut(p, i) \union UNION {var_names(p[i][fld]) : fld \in DropScanFields}
      ends == [i \in DOMAIN p |-> end(i)]
  IN KeepStmts(p, LAMBDA pl :
       LET s == At(p, pl) IN
       ~(/\ DefinesVar(s) /\ ~has_call(s.rhs)
         /\ s.lhs.n \in LocalNames \ collect_addr_taken(p)
         /\ s.lhs.n \notin LiveBefore(p[pl[1]].stmts, pl[2] + 1, ends[pl[1]])))

(***************************************************************************)
(* Moving a definition to its only use                                     *)
(***************************************************************************)
\* Mutant: stores between definition and use are overlooked.
BlocksButStores(s, rhs) ==
  s.k # "assign" \/ has_call(s.rhs) \/ (DefinesVar(s) /\ reads_named_var(rhs, s.lhs.n))

\* A statement between definition and use that the value must not cross.
Blocks(s, rhs) ==
  \/ s.k # "assign"
  \/ has_call(s.rhs)
  \/ (StoresMem(s) /\ (reads_mem(rhs) \/ has_impure_call(rhs)))
  \/ (has_impure_call(rhs) /\ reads_mem(s.rhs))
  \/ (DefinesVar(s) /\ reads_named_var(rhs, s.lhs.n))
Hazard(ss, k, use) == \E j \in k + 1..use - 1 : Blocks(ss[j], ss[k].rhs)

\* Mutant: a call may join any expression.
CallJoinsAnywhere(es, v) == TRUE

\* An impure call may join the expressions es only where nothing can overtake it.
CallMayNest(es, v) ==
  LET calls == MapThenSumSet(LAMBDA i : count_impure_calls(es[i]), DOMAIN es)
  IN \/ calls = 0
     \/ calls = 1 /\ \A i \in DOMAIN es : ~reads_var_outside_call_args(es[i], v)

Uses(ss, k) == {j \in k + 1..Len(ss) : ss[k].lhs.n \in StmtReads(ss[j])}

(* The program after copy_propagate inlined the definition at pl, if it may. *)
CopyInto(p, pl) ==
  LET b == p[pl[1]]
      def == At(p, pl)
      v == def.lhs.n
      use == Min(Uses(b.stmts, pl[2]))
      fields == {fld \in TerminalFields : v \in var_names(b[fld])}
      call == has_impure_call(def.rhs)
  IN IF Uses(b.stmts, pl[2]) # {}
     THEN IF call /\ ~CallMayNest(<<b.stmts[use].rhs, b.stmts[use].lhs>>, v) THEN {}
          ELSE IF Hazard(b.stmts, pl[2], use) THEN {}
          ELSE {RemoveStmt([p EXCEPT ![pl[1]].stmts[use] = SubstStmt(@, v, def.rhs)], pl)}
     ELSE IF Hazard(b.stmts, pl[2], Len(b.stmts) + 1) THEN {}
     ELSE {RemoveStmt([p EXCEPT ![pl[1]][fld] = subst_var(@, v, def.rhs)], pl) :
             fld \in {g \in fields : call => CallMayNest(<<b[g]>>, v)}}

CopyPropagations(p) ==
  UNION {CopyInto(p, pl) : pl \in {q \in Places(p) :
           LET s == At(p, q) IN
           /\ DefinesVar(s) /\ s.lhs.n \in LocalNames \ collect_addr_taken(p)
           /\ total_writes(p, s.lhs.n) = 1 /\ total_reads(p, s.lhs.n) = 1}}

(* A call whose result nobody reads becomes a call statement. *)
simplify_unused_call_temps(p) ==
  [i \in DOMAIN p |->
     [p[i] EXCEPT !.stmts = [k \in DOMAIN @ |->
        IF DefinesVar(@[k]) /\ has_call(@[k].rhs) /\ total_reads(p, @[k].lhs.n) = 0
        THEN CallStmt(@[k].rhs) ELSE @[k]]]]

(* When every return gives the result of a void call or a constant, the
   function is void and the values are forgotten. *)
demote_void_call_returns(p) ==
  LET raw == {p[i].ret_raw : i \in DOMAIN p} \ {Nil}
      defs(v) == {At(p, pl).rhs : pl \in {q \in Places(p) : Defines(At(p, q), v)}}
      rets == UNION {IF e.k = "var" /\ defs(e.n) # {} THEN defs(e.n) ELSE {e} : e \in raw}
      void(e) == e.k = "call" /\ e.n \in VoidCallees
  IN IF (\E e \in rets : void(e)) /\ (\A e \in rets : void(e) \/ e.k = "const")
     THEN [i \in DOMAIN p |-> [p[i] EXCEPT !.ret_value = Nil, !.ret_raw = Nil]]
     ELSE p

(* A branch that repeats the expression just assigned tests the variable. *)
canonicalize_branch_after_assign(p) ==
  [i \in DOMAIN p |->
     LET ss == p[i].stmts
         s == ss[Len(ss)]
     IN IF /\ p[i].cond # Nil /\ ss # <<>>
           /\ DefinesVar(s) /\ s.rhs.k \notin {"var", "const"} /\ ~has_call(s.rhs)
        THEN [p[i] EXCEPT !.cond = replace_subexpr(@, s.rhs, s.lhs.n)]
        ELSE p[i]]

simplify_const_branches(p) ==
  [i \in DOMAIN p |->
     IF const_cond(p[i].cond) # 0 /\ Len(p[i].succ) = 2
     THEN [p[i] EXCEPT !.cond = Nil, !.succ = <<@[const_cond(p[i].cond)]>>] ELSE p[i]]

(***************************************************************************)
(* Coalescing: bare copies between locals whose lives do not interfere.    *)
(***************************************************************************)
CopyPairs(p) ==
  LET ok == LocalNames \ collect_addr_taken(p)
      pair(pl) == <<At(p, pl).lhs.n, At(p, pl).rhs.n>>
      copies == {pl \in Places(p) : /\ DefinesVar(At(p, pl)) /\ At(p, pl).rhs.k = "var"
                                    /\ pair(pl)[1] # pair(pl)[2]
                                    /\ {pair(pl)[1], pair(pl)[2]} \subseteq ok}
  IN {pair(pl) : pl \in copies}

\* A definition interferes with all that is live after it, but for what it copies.
Interferes(p) ==
  LET end == [i \in DOMAIN p |-> LiveOut(p, i) \union TerminalReads(p[i])]
      clash(pl) == LET s == At(p, pl) IN
        {{s.lhs.n, v} : v \in LiveBefore(p[pl[1]].stmts, pl[2] + 1, end[pl[1]])
                              \ {s.lhs.n, IF s.rhs.k = "var" THEN s.rhs.n ELSE ""}}
  IN UNION {clash(pl) : pl \in {q \in Places(p) : DefinesVar(At(p, q))}}

ClassOf(classes, v) == CHOOSE c \in classes : v \in c

\* The copies are taken one by one; two classes merge when no two members clash.
RECURSIVE Merge(_, _, _)
Merge(classes, pairs, clash) ==
  IF pairs = {} THEN classes
  ELSE LET xy == CHOOSE xy \in pairs : TRUE
           a == ClassOf(classes, xy[1])
           b == ClassOf(classes, xy[2])
           free == \A u \in a, v \in b : {u, v} \notin clash
       IN Merge(IF free THEN (classes \ {a, b}) \union {a \union b} ELSE classes,
                pairs \ {xy}, clash)

\* Locals lists the v's before the t's, each by number: the first one names the class.
NameOf(class) == Locals[Min({i \in DOMAIN Locals : Locals[i] \in class})]

RECURSIVE Rename(_, _)
Rename(e, classes) ==
  IF e.k = "var" /\ e.n \in UNION classes THEN Var(NameOf(ClassOf(classes, e.n)))
  ELSE [e EXCEPT !.a = [i \in DOMAIN e.a |-> Rename(e.a[i], classes)]]

coalesce_locals(p) ==
  LET names == UNION {{xy[1], xy[2]} : xy \in CopyPairs(p)}
      classes == Merge({{v} : v \in names}, CopyPairs(p), Interferes(p))
      renamed == [i \in DOMAIN p |-> [fld \in DOMAIN p[i] |->
        CASE fld \in TerminalFields -> Rename(p[i][fld], classes)
          [] fld = "stmts" -> [k \in DOMAIN p[i].stmts |->
               [p[i].stmts[k] EXCEPT !.lhs = Rename(@, classes), !.rhs = Rename(@, classes)]]
          [] OTHER -> p[i][fld]]]
  IN KeepStmts(renamed, LAMBDA pl : ~(DefinesVar(At(renamed, pl)) /\ At(renamed, pl).lhs = At(renamed, pl).rhs))

(***************************************************************************)
(* Recomputing a definition at its uses                                    *)
(***************************************************************************)
\* The definition substituted into every statement but itself, and removed.
SubstEverywhere(p, pl) ==
  LET v == At(p, pl).lhs.n
      rhs == At(p, pl).rhs
      block(i) == SubstTerminals([p[i] EXCEPT !.stmts =
                    [k \in DOMAIN @ |-> IF <<i, k>> = pl THEN @[k] ELSE SubstStmt(@[k], v, rhs)]], v, rhs)
  IN RemoveStmt([i \in DOMAIN p |-> block(i)], pl)

SingleDef(p, pl) ==
  /\ DefinesVar(At(p, pl)) /\ At(p, pl).lhs.n \in LocalNames \ collect_addr_taken(p)
  /\ total_writes(p, At(p, pl).lhs.n) = 1

UsedIn(p, i, pl) ==
  LET v == At(p, pl).lhs.n
  IN v \in TerminalReads(p[i]) \/ \E k \in DOMAIN p[i].stmts : <<i, k>> # pl /\ v \in StmtReads(p[i].stmts[k])

\* Built from parameters nothing assigns, and defined in a block that dominates the uses.
Invariant(p, pl) ==
  LET rhs == At(p, pl).rhs IN
  /\ ~has_call(rhs) /\ ~reads_mem(rhs) /\ node_count(rhs) <= 8
  /\ \A v \in var_names(rhs) : /\ v \notin LocalNames
                               /\ total_writes(p, v) = 0 /\ v \notin collect_addr_taken(p)
  /\ \A i \in DOMAIN p : UsedIn(p, i, pl) => dominates(p, pl[1], i)
inline_invariant_temps(p) ==
  {SubstEverywhere(p, pl) : pl \in {q \in Places(p) : SingleDef(p, q) /\ Invariant(p, q)}}

\* Used in its own block only, and nothing it reads changes up to the last use.
LoadMovable(p, pl) ==
  LET ss == p[pl[1]].stmts
      s == At(p, pl)
      at_end == s.lhs.n \in TerminalReads(p[pl[1]])
      last == IF at_end THEN Len(ss) + 1 ELSE Max(Uses(ss, pl[2]))
      hazard(t) == \/ DefinesVar(t) /\ t.lhs.n \in var_names(s.rhs)
                   \/ reads_mem(s.rhs) /\ (has_call(t.rhs) \/ StoresMem(t))
  IN /\ ~has_call(s.rhs) /\ node_count(s.rhs) <= 14
     /\ \A v \in var_names(s.rhs) : total_writes(p, v) <= 1 /\ v \notin collect_addr_taken(p)
     /\ \A i \in DOMAIN p \ {pl[1]} : ~UsedIn(p, i, pl)
     /\ at_end \/ Uses(ss, pl[2]) # {}
     /\ \A j \in pl[2] + 1..last - 1 : ~hazard(ss[j])

\* Only the uses after the definition are replaced.
SubstAfter(p, pl) ==
  LET v == At(p, pl).lhs.n
      rhs == At(p, pl).rhs
      b == SubstTerminals([p[pl[1]] EXCEPT !.stmts =
             [k \in DOMAIN @ |-> IF k <= pl[2] THEN @[k] ELSE SubstStmt(@[k], v, rhs)]], v, rhs)
  IN RemoveStmt([p EXCEPT ![pl[1]] = b], pl)
inline_local_loads(p) ==
  {SubstAfter(p, pl) : pl \in {q \in Places(p) : SingleDef(p, q) /\ LoadMovable(p, q)}}

(***************************************************************************)
(* Temps of the return, and temps that die with their block                *)
(***************************************************************************)
\* v is read by the return alone, once in ret_value; ret_raw only mirrors it.
ReturnFoldable(p, pl) ==
  LET s == At(p, pl)
      b == p[pl[1]]
      v == s.lhs.n
      hazard(t) == \/ t.k # "assign"
                   \/ (reads_mem(s.rhs) \/ has_impure_call(s.rhs)) /\ (has_call(t.rhs) \/ StoresMem(t))
                   \/ has_impure_call(s.rhs) /\ reads_mem(t.rhs)
                   \/ DefinesVar(t) /\ reads_named_var(s.rhs, t.lhs.n)
  IN /\ SingleDef(p, pl)
     /\ count_var_reads(b.ret_value, v) = 1
     /\ total_reads(p, v) = 1 + count_var_reads(b.ret_raw, v)
     /\ \A j \in pl[2] + 1..Len(b.stmts) : ~hazard(b.stmts[j])
     /\ has_impure_call(s.rhs) => CallMayNest(<<b.ret_value>>, v)

\* One fold per block, the blocks in order.
FoldReturnIn(p, i) ==
  LET ks == {k \in DOMAIN p[i].stmts : ReturnFoldable(p, <<i, k>>)}
      s == p[i].stmts[Min(ks)]
      ret == subst_var(p[i].ret_value, s.lhs.n, s.rhs)
  IN IF ks = {} THEN p
     ELSE RemoveStmt([p EXCEPT ![i].ret_value = ret, ![i].ret_raw = ret], <<i, Min(ks)>>)
fold_return_temps(p) == FoldLeftDomain(FoldReturnIn, p, p)

\* What the blocks behind a block read (the code keeps what it found before the
\* first fold; folding only takes reads away, so fewer folds are open to it).
ReachReads(p, i) == UNION {BlockReads(p[j]) : j \in ReachAvoiding(p, Succ(p, i), {})}

\* The uses of this definition, up to the next one; Len + 1 stands for the terminal fields.
UsesOfDef(b, k) ==
  LET v == b.stmts[k].lhs.n
      redefs == {j \in k + 1..Len(b.stmts) : Defines(b.stmts[j], v)}
      next == IF redefs = {} THEN Len(b.stmts) + 1 ELSE Min(redefs)
  IN {j \in k + 1..next - 1 : v \in StmtReads(b.stmts[j])}
       \union (IF redefs = {} /\ v \in TerminalReads(b) THEN {next} ELSE {})

DeadBlockFolds(p, reach) ==
  LET foldable(pl) ==
        LET s == At(p, pl)
            b == p[pl[1]]
            uses == UsesOfDef(b, pl[2])
            hazard(t) == \/ DefinesVar(t) /\ t.lhs.n \in var_names(s.rhs)
                         \/ reads_mem(s.rhs) /\ (has_call(t.rhs) \/ StoresMem(t))
        IN /\ DefinesVar(s) /\ s.lhs.n \in LocalNames \ collect_addr_taken(p)
           /\ s.lhs.n \notin reach[pl[1]]
           /\ ~has_impure_call(s.rhs) /\ node_count(s.rhs) <= 16
           /\ Cardinality(uses) = 1
           /\ \A j \in pl[2] + 1..Min(uses) - 1 : ~hazard(b.stmts[j])
      fold(pl) ==
        LET s == At(p, pl)
            b == p[pl[1]]
            use == Min(UsesOfDef(b, pl[2]))
        IN RemoveStmt(IF use > Len(b.stmts)
                      THEN [p EXCEPT ![pl[1]] = SubstTerminals(b, s.lhs.n, s.rhs)]
                      ELSE [p EXCEPT ![pl[1]].stmts[use] = SubstStmt(@, s.lhs.n, s.rhs)], pl)
  IN {fold(pl) : pl \in {q \in Places(p) : foldable(q)}}
fold_dead_block_temps(p) == DeadBlockFolds(p, [i \in DOMAIN p |-> ReachReads(p, i)])

(***************************************************************************)
(* The run of the passes                                                   *)
(***************************************************************************)
Running(name) == pass <= Len(Passes) /\ Passes[pass] = name

\* A pass over the whole function.
Once(name, result) ==
  /\ Running(name)
  /\ prog' = result /\ pass' = pass + 1 /\ rounds' = 0
  /\ UNCHANGED meaning

\* One that goes round until nothing is left to rewrite or the cap is reached.
\* A round rewrites at least once (copy_propagate once in every block it can),
\* so the cap cuts after MaxRounds rewrites or later.
Repeat(name, results) ==
  /\ Running(name)
  /\ \/ /\ prog' \in results \ {prog}
        /\ rounds' = Min({rounds + 1, MaxRounds}) /\ UNCHANGED pass
     \/ /\ results \ {prog} = {} \/ rounds = MaxRounds
        /\ pass' = pass + 1 /\ rounds' = 0 /\ UNCHANGED prog
  /\ UNCHANGED meaning

LocalDeadStoreElim == Once("local_dse", local_dead_store_elim(prog))
DeadStoreElim == Repeat("dse", {dead_store_elim(prog)})
CopyPropagate == Repeat("copy_propagate", CopyPropagations(prog))
GlobalDeadStoreElim == Repeat("global_dse", {global_dead_store_elim(prog)})
DemoteVoidCallReturns == Once("demote_void", demote_void_call_returns(prog))
SimplifyUnusedCallTemps == Once("unused_calls", simplify_unused_call_temps(prog))
CanonicalizeBranch == Once("canonicalize", canonicalize_branch_after_assign(prog))
SimplifyConstBranches == Once("const_branches", simplify_const_branches(prog))
CoalesceLocals == Once("coalesce", coalesce_locals(prog))
InlineInvariantTemps == Repeat("invariant_temps", inline_invariant_temps(prog))
InlineLocalLoads == Repeat("local_loads", inline_local_loads(prog))
FoldReturnTemps == Once("return_temps", fold_return_temps(prog))
FoldDeadBlockTemps == Repeat("dead_block_temps", fold_dead_block_temps(prog))

Next ==
  \/ LocalDeadStoreElim \/ DeadStoreElim \/ CopyPropagate \/ GlobalDeadStoreElim
  \/ DemoteVoidCallReturns \/ SimplifyUnusedCallTemps \/ CanonicalizeBranch
  \/ SimplifyConstBranches \/ CoalesceLocals \/ InlineInvariantTemps
  \/ InlineLocalLoads \/ FoldReturnTemps \/ FoldDeadBlockTemps

\* A local is assigned before it is read on every path: what lifting yields.
DefinedFirst(p) == LiveIn(p, [i \in DOMAIN p |-> {}])[1] \cap LocalNames \subseteq InMemory \union DOMAIN Alias

(***************************************************************************)
(* Properties                                                              *)
(***************************************************************************)
(* The variables range over what they should: every statement, successor   *)
(* and field of every block is one.                                        *)
TypeOK ==
  /\ pass \in 1..Len(Passes) + 1 /\ rounds \in 0..MaxRounds
  /\ \A i \in DOMAIN prog :
       /\ Succ(prog, i) \subseteq DOMAIN prog
       /\ prog[i].cond # Nil => Len(prog[i].succ) = 2
       /\ \A k \in DOMAIN prog[i].stmts : LET s == prog[i].stmts[k] IN
            \/ s.k = "assign" /\ s.lhs.k \in {"var", "mem"}
            \/ s.k = "call" /\ s.lhs = Nil /\ s.rhs.k = "call"

(* Whatever the passes remove, move or rename, the printed program can     *)
(* still behave in each way the lifted one does: same calls with the same  *)
(* arguments, same stores, branches on the same values, same result.       *)
MeaningKept == meaning \subseteq Behaviours(prog)

(* No order of evaluation of the printed expressions lets an effect        *)
(* overtake another: calls joined into one expression are nested, never    *)
(* side by side (the rules on impure calls of copy_propagate and           *)
(* fold_return_temps).                                                     *)
Shape(tr) == [i \in DOMAIN tr |-> <<tr[i].k, tr[i].n>>]
EffectsInOrder == {Shape(tr) : tr \in Behaviours(prog)} = {Shape(tr) : tr \in meaning}
===============================================================================
