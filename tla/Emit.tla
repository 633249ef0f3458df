--------------------------------- MODULE Emit ---------------------------------
(***************************************************************************)
(* From the blocks of a function to its text: the structurer               *)
(* (src/engine/analysis/decomp/19_emit_structure.inc, 20_loop_sinks.inc)   *)
(* under the driver of Decompiler::run.  At the end the text is executed,  *)
(* line by line.                                                           *)
(*                                                                         *)
(* The structurer is here without its loops.  The work meter trips at any  *)
(* step; the memo of failed trials only saves work and is left out.        *)
(***************************************************************************)
EXTENDS EmitDriver

CONSTANTS Atoms, Selectors,
          Calls,         \* the conditions that call a function
          MaxDepth,      \* kMaxEmitDepth
          DupMax         \* DS_DUP_MAX: lines of a copy

VARIABLES allowance,     \* the dup_budget of an attempt: 160, or 0 with DS_NO_DUP
          dup_budget,    \* blocks that may still be copied
          pc, sm,        \* where the execution of the text is; __state
          val

running == <<pc, sm, val>>
vars == <<driverVars, allowance, dup_budget, running>>

\* The visible step the execution is at.
at == IF phase # "run" THEN [k |-> "start", b |-> 0]
      ELSE IF pc \in DOMAIN body /\ body[pc].k \in {"stmts", "ret"}
           THEN [k |-> body[pc].k, b |-> blk[body[pc].b].addr]
           ELSE [k |-> "lost", b |-> 0]
W == INSTANCE Walk
Vals == W!Vals
Else == Line("else", 0, 0, <<>>)
If(b, c) == Line("if", b, 0, c)

negate_expr(c) ==
  [i \in DOMAIN c |-> IF c[i].k = "op" THEN [c[i] EXCEPT !.n = IF @ = "||" THEN "&&" ELSE "||"]
                      ELSE [c[i] EXCEPT !.neg = ~@]]

(***************************************************************************)
(* The graph                                                               *)
(***************************************************************************)
SuccSeq(b) ==
  LET x == blk[b]
      to == CASE x.ends = "ret" -> <<>>
              [] x.ends = "switch" -> Append(x.cases, x.default)
              [] x.ends = "jcc" -> <<x.taken, x.fall>>
              [] x.ends = "jmp" -> <<x.taken>>
              [] OTHER -> <<x.fall>>
  IN SelectSeq(to, LAMBDA t : t # 0)
Succs(b) == ToSet(SuccSeq(b))
RECURSIVE ReachedFrom(_, _)
ReachedFrom(from, cut) ==
  LET next == (from \union UNION {Succs(b) : b \in from}) \ cut
  IN IF next = from THEN from ELSE ReachedFrom(next, cut)
PostDoms(b) ==
  {p \in Blocks \ {b} : p \in ReachedFrom({b}, {}) /\ \A x \in ReachedFrom({b}, {p}) : Succs(x) # {}}
ipdom(b) ==
  LET ps == PostDoms(b)
  IN IF ps = {} THEN 0 ELSE CHOOSE p \in ps : ps \ {p} \subseteq PostDoms(p)
dominates(a, b) == b \in ReachedFrom({1}, {}) /\ b \notin ReachedFrom({1} \ {a}, {a})

\* The blocks in the order a depth-first walk leaves them.
RECURSIVE Visit(_, _)
Visit(b, w) ==
  IF b \in w.seen THEN w
  ELSE LET done == FoldLeft(LAMBDA v, t : Visit(t, v), [w EXCEPT !.seen = @ \union {b}], SuccSeq(b))
       IN [done EXCEPT !.post = Append(@, b)]
post == Visit(1, [seen |-> {}, post |-> <<>>]).post
\* Where the arms of b meet: the first such block in reverse post-order.
Meeting(b) ==
  LET met == ReachedFrom({blk[b].taken} \ {b}, {b}) \intersect ReachedFrom({blk[b].fall} \ {b}, {b})
      at_(i) == post[i] \in met
      last == {i \in DOMAIN post : at_(i) /\ \A j \in i + 1..Len(post) : ~at_(j)}
  IN IF last = {} THEN 0 ELSE post[CHOOSE i \in last : TRUE]

\* The joins of regions with no other exit: at least three ways lead there.
Region_(e, j) == {x \in Blocks \ {j} : dominates(e, x) /\ ~dominates(j, x) /\ j \in ReachedFrom({x}, {})}
Sink(j) ==
  LET preds == {x \in Blocks : j \in Succs(x)}
      common == {e \in Blocks : \A x \in preds : dominates(e, x)}
      near == {e \in common \ {j} : \A c \in common : dominates(c, e)}
  IN /\ Cardinality(preds) >= 3
     /\ Cardinality({x \in preds : blk[x].ends # "switch" /\ blk[x].taken = j}) >= 2
     /\ \E e \in near : /\ Cardinality(Region_(e, j)) \in 3..24
                        /\ \A x \in Region_(e, j) : Succs(x) \subseteq Region_(e, j) \union {j}

\* What is computed once for a function.
Flow ==
  [ipdom |-> [b \in Blocks |-> ipdom(b)],
   effective_join |-> [b \in Blocks |-> IF ipdom(b) # 0 THEN ipdom(b) ELSE IF blk[b].ends = "jcc" THEN Meeting(b) ELSE 0],
   reach |-> [b \in Blocks |-> ReachedFrom({b}, {})],
   fwd_sinks |-> {j \in Blocks : Sink(j)}]

(***************************************************************************)
(* The structurer.  s holds the text so far, the blocks done, the labels   *)
(* asked for, the meter, the dup_budget and cur_fwd_sink.                  *)
(***************************************************************************)
Out(s, t) == [s EXCEPT !.out = @ \o t]
Ask(s, b) == [s EXCEPT !.need = @ \union {b}]
\* goto a block that stays as it is; the driver emits it later.
Cut(b, s) == Out(Ask(s, b), Goto(b))
\* emit_restore: of a failed trial, only the work is left.
Restored(s, x) == [s EXCEPT !.meter = x.meter]
GotoFree(t) == \A i \in DOMAIN t : t[i].k \notin {"goto", "ifgoto"}
Then(b, c, t) == If(b, c) \o t \o Close
IfElse(b, t, e) == If(b, blk[b].cond) \o t \o Else \o e \o Close
\* An empty arm takes its half of the if along.
TwoArms(b, t, e) ==
  IF e = <<>> THEN Then(b, blk[b].cond, t)
  ELSE IF t = <<>> THEN Then(b, negate_expr(blk[b].cond), e) ELSE IfElse(b, t, e)

\* A straight chain of blocks that ends in a return is emitted at every use.
RECURSIVE ReturnChain(_, _)
ReturnChain(b, seen) ==
  LET next == IF blk[b].ends = "jmp" THEN blk[b].taken ELSE IF blk[b].ends = "ret" THEN 0 ELSE blk[b].fall
  IN IF blk[b].ends \in {"jcc", "switch"} \/ b \in ToSet(seen) \/ Len(seen) = 12 THEN <<>>
     ELSE IF next = 0 THEN Append(seen, b) ELSE ReturnChain(next, Append(seen, b))
Chain(b) == ReturnChain(b, <<>>)
Copy(chain) == FlattenSeq([i \in DOMAIN chain |-> emit_stmts(chain[i])]) \o ret_text(chain[Len(chain)])
try_emit_return_dup(b, s) == [Out(s, Copy(Chain(b))) EXCEPT !.structured = @ \union ToSet(Chain(b))]

\* A copy of the region from b to stop, without labels and without a trace in
\* structured.  dup_budget is negative when there is none.
NoCopy(s) == [s EXCEPT !.dup_budget = -1]
RECURSIVE emit_dup_region(_, _, _)
emit_dup_region(b, stop, s) ==
  IF b \in {0, stop} THEN s
  ELSE IF s.dup_budget = 0 \/ s.meter = 0 THEN NoCopy(s)
  ELSE LET x == blk[b]
           u == Out([s EXCEPT !.dup_budget = @ - 1, !.meter = @ - 1], emit_stmts(b))
           next == IF x.ends = "jmp" THEN x.taken ELSE x.fall
           t == emit_dup_region(x.taken, stop, [u EXCEPT !.out = <<>>])
           f == emit_dup_region(x.fall, stop, [t EXCEPT !.out = <<>>])
       IN CASE x.ends = "switch" -> NoCopy(u)
            [] x.ends = "ret" -> Out(u, ret_text(b))
            [] x.ends = "jcc" ->
                 IF t.dup_budget < 0 THEN t ELSE IF f.dup_budget < 0 THEN f
                 ELSE [f EXCEPT !.out = u.out \o TwoArms(b, t.out, f.out)]
            [] OTHER -> IF next = 0 THEN Out(u, ret_text(b)) ELSE emit_dup_region(next, stop, u)
Duplicate(b, stop, s) == emit_dup_region(b, stop, [s EXCEPT !.out = <<>>])

\* Every path from b returns without meeting stop or a block already emitted ...
Closed(region, s) == region \intersect s.structured = {} /\ \A x \in region : blk[x].ends # "switch"
region_terminates(b, stop, s) == stop \notin s.flow.reach[b] /\ Closed(s.flow.reach[b], s)
\* ... or through stop, which only returns.
is_return_epilogue(b) == b # 0 /\ blk[b].ends = "ret" /\ blk[b].guard = 0 /\ ~blk[b].stmts
region_returns_via_epilogue(b, stop, s) ==
  is_return_epilogue(stop) /\ b \notin s.structured /\ Closed(ReachedFrom({b} \ {stop}, {stop}), s)
Terminated(t) == t # <<>> /\ is_uncond_transfer_line(t[Len(t)])
\* Two texts that print alike: a copy of a block has its address.
SameText(t, u) ==
  /\ Len(t) = Len(u)
  /\ \A i \in DOMAIN t :
       \/ t[i] = u[i]
       \/ /\ 0 \notin {t[i].b, u[i].b} /\ blk[t[i].b].addr = blk[u[i].b].addr
          /\ [t[i] EXCEPT !.b = 0] = [u[i] EXCEPT !.b = 0]
has_call(c) == \E i \in DOMAIN c : c[i].n \in Calls

RECURSIVE emit_region(_, _, _, _), Region(_, _, _, _), emit_if_else(_, _, _, _), emit_cases(_, _, _, _, _),
          GuardClause(_, _, _, _), Reconverge(_, _, _, _, _), Joined_(_, _, _, _), Terminating(_, _, _, _),
          Epilogue(_, _, _, _), PlainIf(_, _, _, _), SharedArm(_, _, _, _), EffectiveJoin(_, _, _, _)
\* A region in a text of its own.
Apart(b, stop, s, d) == emit_region(b, stop, [s EXCEPT !.out = <<>>], d + 1)
\* On with block b, behind the text of s and t.
Go(b, stop, x, s, t, d) == emit_region(b, stop, [x EXCEPT !.out = s.out \o t], d + 1)
emit_region(b, stop, s, d) ==
  IF b \notin {0, stop} /\ d > MaxDepth THEN Cut(b, s) ELSE Region(b, stop, s, d)

emit_switch(b, stop, s, d) ==
  LET x == blk[b]
      join == s.flow.ipdom[b]
      targets == ToSet(x.cases) \ {0}
      arms == SetToSortSeq(targets, <) \o (IF x.default \in targets \union {0} THEN <<>> ELSE <<x.default>>)
      e == Out(emit_cases(b, arms, join, Out(s, Switch(b)), d), Close)
  IN IF join = 0 THEN e ELSE emit_region(join, stop, e, d + 1)
emit_cases(b, arms, join, s, d) ==
  IF arms = <<>> THEN s
  ELSE LET tgt == arms[1]
           cases == FlattenSeq([i \in DOMAIN blk[b].cases |-> IF blk[b].cases[i] = tgt THEN Case(i) ELSE <<>>])
           head == IF cases = <<>> THEN Line("default", 0, 0, <<>>) ELSE cases
           arm == IF tgt \notin s.structured \/ cases = <<>> THEN Apart(tgt, join, s, d)
                  ELSE IF Chain(tgt) # <<>> THEN try_emit_return_dup(tgt, [s EXCEPT !.out = <<>>])
                  ELSE Cut(tgt, [s EXCEPT !.out = <<>>])
           text == arm.out \o (IF Terminated(arm.out) THEN <<>> ELSE Break)
       IN emit_cases(b, Tail(arms), join, [arm EXCEPT !.out = s.out \o head \o text], d)

RECURSIVE thread_target(_, _)
thread_target(b, s) ==   \* through empty blocks that only jump
  IF b \notin s.structured /\ ~blk[b].stmts /\ blk[b].ends = "jmp" /\ blk[b].taken # 0
  THEN thread_target(blk[b].taken, s) ELSE b

(***************************************************************************)
(* A two-way branch: the forms are tried in this order.                    *)
(***************************************************************************)
taken(b) == blk[b].taken
fall(b) == blk[b].fall
cond(b) == blk[b].cond
nots(b) == negate_expr(blk[b].cond)

\* Both arms fall through to a forward sink, which is emitted once.
emit_if_else(b, stop, s, d) ==
  LET j == s.flow.ipdom[b]
      t == Apart(taken(b), j, [s EXCEPT !.sink = j], d)
      f == Apart(fall(b), j, t, d)
  IN IF j \in s.flow.fwd_sinks \ ({b, stop, s.sink} \union s.structured)
     THEN Go(j, stop, [f EXCEPT !.sink = s.sink], s, TwoArms(b, t.out, f.out), d)
     ELSE GuardClause(b, stop, s, d)

\* An arm that is a chain to a return.
GuardClause(b, stop, s, d) ==
  LET t == thread_target(taken(b), s)
      f == thread_target(fall(b), s)
      Return(arm, c, other) ==
        LET x == try_emit_return_dup(arm, [s EXCEPT !.out = <<>>]) IN Go(other, stop, x, s, Then(b, c, x.out), d)
  IN IF t \notin {f, stop} /\ Chain(t) # <<>> THEN Return(t, cond(b), fall(b))
     ELSE IF f \notin {t, stop} /\ Chain(f) # <<>> THEN Return(f, nots(b), taken(b))
     ELSE Reconverge(b, stop, s, d, TRUE)

\* One arm is where the other one leads: the other is tried as the body of an
\* if, and that arm follows.
Reconverge(b, stop, s, d, first) ==
  LET follow == IF first THEN taken(b) ELSE fall(b)
      other == IF first THEN fall(b) ELSE taken(b)
      join == s.flow.ipdom[b]
      on(u) == IF first THEN Reconverge(b, stop, u, d, FALSE) ELSE Joined_(b, stop, u, d)
      x == Apart(other, follow, s, d)
  IN IF \/ follow \in {stop, join, b, other} \/ other \in {join, b}
        \/ join # 0 /\ join \in s.flow.reach[other] \intersect s.flow.reach[follow]
        \/ {follow, other} \intersect s.structured # {}
        \/ follow \notin s.flow.reach[other]
     THEN on(s)
     ELSE IF GotoFree(x.out) /\ x.out # <<>>
     THEN Go(follow, stop, x, s, Then(b, IF first THEN nots(b) ELSE cond(b), x.out), d)
     ELSE on(Restored(s, x))

\* Both arms up to their join, each with the return if that is all there is.
BothArms(b, join, stop, s, d) ==
  LET guard(arm) == arm \notin s.structured /\ region_terminates(arm, join, s)
      t_epi == region_returns_via_epilogue(taken(b), join, s)
      f_epi == region_returns_via_epilogue(fall(b), join, s)
      x == Apart(taken(b), join, s, d)
      y == Apart(fall(b), join, x, d)
      t == x.out
      f == y.out
      ret == ret_text(join)
      Consumed(text) == [y EXCEPT !.out = s.out \o text, !.structured = @ \union {join}]
      form ==
        IF f = <<>> /\ t # <<>> THEN Then(b, cond(b), t)
        ELSE IF t = <<>> /\ f # <<>> THEN Then(b, nots(b), f)
        ELSE IF guard(taken(b)) /\ t # <<>> THEN Then(b, cond(b), t) \o f
        ELSE IF guard(fall(b)) /\ f # <<>> THEN Then(b, nots(b), f) \o t
        ELSE IF t # <<>> /\ ~has_call(cond(b)) /\ SameText(t, f) THEN t
        ELSE IfElse(b, t, f)
  IN IF t_epi /\ f_epi /\ t # <<>> /\ f # <<>> THEN Consumed(IfElse(b, t \o ret, f \o ret))
     ELSE IF t_epi /\ t # <<>> /\ ~f_epi THEN Go(join, stop, y, s, Then(b, cond(b), t \o ret) \o f, d)
     ELSE IF f_epi /\ f # <<>> /\ ~t_epi THEN Go(join, stop, y, s, Then(b, nots(b), f \o ret) \o t, d)
     ELSE IF join # stop /\ Terminated(t) /\ Terminated(f) THEN Consumed(form)
     ELSE Go(join, stop, y, s, form, d)

\* The arms join at the immediate post-dominator, or one of them is it.
Joined_(b, stop, s, d) ==
  LET join == s.flow.ipdom[b]
      Single(arm, c) ==
        LET x == Apart(arm, join, s, d)
        IN Go(join, stop, x, s, IF x.out = <<>> THEN <<>> ELSE Then(b, c, x.out), d)
  IN IF join = fall(b) /\ join # taken(b) THEN Single(taken(b), cond(b))
     ELSE IF join = taken(b) /\ join # fall(b) THEN Single(fall(b), nots(b))
     ELSE IF join \notin {0, taken(b), fall(b)} THEN BothArms(b, join, stop, s, d)
     ELSE Terminating(b, stop, s, d)

\* An arm that always returns.
Terminating(b, stop, s, d) ==
  LET x == Apart(taken(b), stop, s, d)
      u == IF region_terminates(taken(b), stop, s) THEN [x EXCEPT !.out = s.out] ELSE s
      y == Apart(fall(b), stop, u, d)
      v == IF region_terminates(fall(b), stop, u) THEN [y EXCEPT !.out = s.out] ELSE u
  IN IF region_terminates(taken(b), stop, s) /\ x.out # <<>> THEN Go(fall(b), stop, x, s, Then(b, cond(b), x.out), d)
     ELSE IF region_terminates(fall(b), stop, u) /\ y.out # <<>> THEN Go(taken(b), stop, y, s, Then(b, nots(b), y.out), d)
     ELSE Epilogue(b, stop, v, d)

\* An arm that returns through stop: the return comes along.
Epilogue(b, stop, s, d) ==
  LET Early(arm, c, other) ==
        LET x == Apart(arm, stop, s, d) IN Go(other, stop, x, s, Then(b, c, x.out \o ret_text(stop)), d)
  IN IF region_returns_via_epilogue(taken(b), stop, s) THEN Early(taken(b), cond(b), fall(b))
     ELSE IF region_returns_via_epilogue(fall(b), stop, s) THEN Early(fall(b), nots(b), taken(b))
     ELSE PlainIf(b, stop, s, d)

\* Two arms that have nothing to do with each other.
PlainIf(b, stop, s, d) ==
  LET x == Apart(taken(b), stop, s, d)
      y == Apart(fall(b), stop, x, d)
      text == IF Terminated(x.out) THEN Then(b, cond(b), x.out) \o y.out ELSE IfElse(b, x.out, y.out)
  IN IF taken(b) = fall(b) \/ {taken(b), fall(b)} \intersect s.structured # {} THEN SharedArm(b, stop, s, d)
     ELSE IF GotoFree(x.out \o y.out) /\ <<>> \notin {x.out, y.out} THEN [y EXCEPT !.out = s.out \o text]
     ELSE SharedArm(b, stop, Restored(s, y), d)

\* The taken arm was emitted elsewhere: a copy of it.
SharedArm(b, stop, s, d) ==
  LET x == Duplicate(taken(b), stop, s)
  IN IF taken(b) \notin s.structured \/ taken(b) = stop THEN EffectiveJoin(b, stop, s, d)
     ELSE IF x.dup_budget >= 0 /\ x.out # <<>> THEN Go(fall(b), stop, x, s, Then(b, cond(b), x.out), d)
     ELSE EffectiveJoin(b, stop, Restored(s, x), d)

\* No usable join.
GuardedGoto(b, stop, s, d) ==
  LET e == emit_region(fall(b), stop, Out(Ask(s, taken(b)), IfGoto(b, taken(b))), d + 1)
  IN IF taken(b) \in e.structured THEN e ELSE emit_region(taken(b), stop, e, d + 1)

\* The arms up to where their paths that go on meet.
EffectiveJoin(b, stop, s, d) ==
  LET j == s.flow.effective_join[b]
      arm == IF j = taken(b) THEN fall(b) ELSE taken(b)
      x == Apart(arm, j, s, d)
      t == Apart(taken(b), j, s, d)
      f == Apart(fall(b), j, t, d)
  IN IF j \in {0, b, stop} \union s.structured THEN GuardedGoto(b, stop, s, d)
     ELSE IF j \in {taken(b), fall(b)}
     THEN IF arm \in {0, stop} \union s.structured THEN GuardedGoto(b, stop, s, d)
          ELSE IF GotoFree(x.out)
          THEN Go(j, stop, x, s, IF x.out = <<>> THEN <<>> ELSE Then(b, IF j = taken(b) THEN nots(b) ELSE cond(b), x.out), d)
          ELSE GuardedGoto(b, stop, Restored(s, x), d)
     ELSE IF {taken(b), fall(b)} \intersect s.structured # {} THEN GuardedGoto(b, stop, s, d)
     ELSE IF GotoFree(t.out \o f.out)
     THEN Go(j, stop, f, s, IF t.out \o f.out = <<>> THEN <<>> ELSE TwoArms(b, t.out, f.out), d)
     ELSE GuardedGoto(b, stop, Restored(s, f), d)

(***************************************************************************)
(* A region, from b up to stop                                             *)
(***************************************************************************)
\* A block that is in the text already: copied, or gone to.
Again(b, stop, s) ==
  LET x == Duplicate(b, stop, s)
  IN IF blk[b].shared THEN Cut(b, s)
     ELSE IF Chain(b) # <<>> THEN try_emit_return_dup(b, s)
     ELSE IF x.dup_budget >= 0 /\ Len(x.out) <= DupMax THEN [x EXCEPT !.out = s.out \o @]
     ELSE Cut(b, Restored(s, x))

Region(b, stop, s, d) ==
  LET x == blk[b]
      spent == [s EXCEPT !.meter = @ - 1]
      label == IF b \in s.need THEN Label(b) ELSE <<>>
      u == Out([spent EXCEPT !.structured = @ \union {b}], label \o emit_stmts(b))
      next == IF x.ends = "jmp" THEN x.taken ELSE IF x.ends = "ret" THEN 0 ELSE x.fall
  IN IF b \in {0, stop} THEN s
     ELSE IF s.meter = 0 THEN Cut(b, s)
     ELSE IF b = s.sink THEN spent
     ELSE IF b \in s.structured THEN Again(b, stop, spent)
     ELSE IF x.guard \notin {0} \union s.structured THEN Region(x.guard, stop, u, d)
     ELSE CASE x.ends = "switch" -> emit_switch(b, stop, u, d)
            [] x.ends = "jcc" -> emit_if_else(b, stop, u, d)
            [] OTHER -> IF next = 0 THEN Out(u, ret_text(b)) ELSE Region(next, stop, u, d)

(***************************************************************************)
(* The execution of the text: line n, __state m                            *)
(***************************************************************************)
Lost == [pc |-> 0, sm |-> 0]
Where(k, n) == {i \in DOMAIN body : body[i].k = k /\ body[i].n = n}
\* The switch around line n.
Around(n) == Max({i \in 1..n - 1 : body[i].k \in {"switch", "dispatch"} /\ CloseOf(body, i) >= n})
\* Where an if goes when it does not hold: its else, or behind its end.
NextArm(n) ==
  Min({m \in n + 1..CloseOf(body, n) :
         \/ m = CloseOf(body, n)
         \/ body[m].k \in {"else", "elif"} /\ Depth(body, n, m) = (IF body[n].k = "if" THEN 1 ELSE 0)})
RECURSIVE IfTo(_, _)
IfTo(n, v) ==
  IF W!Holds(body[n].c, v, W!Size(body[n].b)) THEN n + 1
  ELSE IF body[NextArm(n)].k = "elif" THEN IfTo(NextArm(n), v) ELSE NextArm(n) + 1
SwitchTo(n, v) ==
  LET arms == {i \in n + 1..CloseOf(body, n) : Depth(body, n, i) = 1 /\ body[i].k \in {"case", "default"}}
      hit == {i \in arms : body[i].k = "case" /\ body[i].n = v.sel}
      default == {i \in arms : body[i].k = "default"}
  IN IF hit # {} THEN Min(hit) ELSE IF default # {} THEN Min(default) ELSE CloseOf(body, n)

\* Up to the next visible line; fuel bounds the lines on the way.
RECURSIVE Run(_, _, _, _)
Run(n, m, v, fuel) ==
  IF n \notin DOMAIN body \/ fuel = 0 THEN Lost
  ELSE LET x == body[n]
           on(i) == Run(i, m, v, fuel - 1)
           any(ps) == IF ps = {} THEN Lost ELSE on(Min(ps))
       IN CASE x.k \in {"stmts", "ret"} -> [pc |-> n, sm |-> m]
            [] x.k \in {"label", "case", "default", "state"} -> on(n + 1)
            [] x.k = "end" -> LET o == {i \in 1..n - 1 : body[i].k = "dispatch" /\ CloseOf(body, i) = n}
                              IN IF o = {} THEN on(n + 1) ELSE on(Min(o))
            [] x.k \in {"else", "elif"} -> on(CloseOf(body, n) + 1)
            [] x.k = "if" -> on(IfTo(n, v))
            [] x.k = "goto" -> any(Where("label", x.n))
            [] x.k = "ifgoto" -> IF W!Holds(x.c, v, W!Size(x.b)) THEN any(Where("label", x.n)) ELSE on(n + 1)
            [] x.k = "switch" -> on(SwitchTo(n, v))
            [] x.k = "break" -> IF body[Around(n)].k = "dispatch" THEN on(Around(n))
                                ELSE on(CloseOf(body, Around(n)) + 1)
            [] x.k = "dispatch" -> any(Where("state", m))
            [] x.k = "set" -> Run(n + 1, x.n, v, fuel - 1)
            [] x.k = "choose" ->
                 Run(n + 1, IF W!Holds(x.c, v, W!Size(x.b)) THEN blk[x.b].taken ELSE blk[x.b].fall, v, fuel - 1)
Fuel == 60

(***************************************************************************)
(* The driver with the structurer                                          *)
(***************************************************************************)
RECURSIVE Leftovers(_, _)
Leftovers(b, s) ==
  IF b > Len(blk) \/ s.meter = 0 THEN s
  ELSE Leftovers(b + 1, IF b \in s.structured \/ blk[b].synthetic THEN s ELSE emit_region(b, 0, Ask(s, b), 0))
Begin(text, done, labels, dups) ==
  [out |-> text, structured |-> done, need |-> labels, meter |-> meter, dup_budget |-> dups, sink |-> 0, flow |-> Flow]
Attempt(labels) ==   \* reset_emit, then the entry and all that it leaves
  Leftovers(1, emit_region(1, 0, Begin(<<>>, merged, labels, allowance), 0))
RECURSIVE RepairAll(_, _)
RepairAll(ids, s) ==
  IF ids = <<>> THEN s
  ELSE RepairAll(Tail(ids), emit_region(ids[1], 0, Ask([s EXCEPT !.structured = @ \ {ids[1]}], ids[1]), 0))

RepairOrder == SetToSortSeq(dangling_label_blocks(body), LAMBDA x, y : blk[x].addr < blk[y].addr)

\* An emission, and what it leaves of the budget for the repair.
Emits(s, Stage(_)) == Stage(s) /\ dup_budget' = s.dup_budget

Emitting ==
  /\ \/ phase = "discover" /\ Emits(Attempt(W!Handlers), Discover)
     \/ phase = "pass2" /\ Emits(Attempt(need), Pass2)
     \/ phase = "repair" /\ Emits(RepairAll(RepairOrder, Begin(body, structured, need, dup_budget)), Repair)
     \/ phase = "judge" /\ Emits(Attempt(need), JudgeAgain)
     \/ (RepairEnds \/ JudgeEnds \/ Settle \/ Clean) /\ UNCHANGED dup_budget
  /\ UNCHANGED <<allowance, running>>

Enter ==
  /\ Execute
  /\ UNCHANGED <<allowance, dup_budget>>
  /\ val' \in Vals
  /\ \E n \in {1} \union {i \in DOMAIN body : body[i].k = "label" /\ body[i].n \in extern_entry_labels} :
       LET r == Run(n, 1, val', Fuel) IN pc' = r.pc /\ sm' = r.sm

Step ==
  /\ phase = "run" /\ at.k = "stmts"
  /\ val' \in Vals
  /\ LET r == Run(pc + 1, sm, val', Fuel) IN pc' = r.pc /\ sm' = r.sm
  /\ UNCHANGED <<driverVars, allowance, dup_budget>>

Init == Start /\ dup_budget = 0 /\ pc = 0 /\ sm = 0 /\ val = CHOOSE v \in Vals : TRUE
Next == Emitting \/ Enter \/ Step

(***************************************************************************)
(* Properties                                                              *)
(***************************************************************************)
Lines == {"label", "stmts", "goto", "ifgoto", "if", "elif", "else", "end", "switch", "case", "default",
          "break", "ret", "dispatch", "state", "set", "choose"}
\* Every block is emitted or asked for by its number, and what opens closes.
TypeOK ==
  /\ phase \in {"discover", "pass2", "repair", "judge", "settle", "clean", "ready", "run"}
  /\ need \subseteq Blocks /\ structured \subseteq Blocks /\ meter \in Nat /\ retry \in 0..MaxRetry
  /\ \A i \in DOMAIN body : body[i].k \in Lines
  /\ body # <<>> => Depth(body, 1, Len(body)) = 0

\* decompiler.cpp 5639-5641, of every handler: "their regions are emitted with a
\* real label and survive the dead-code passes".
EveryHandlerLabelled ==
  phase \in {"ready", "run"} /\ (\A i \in DOMAIN body : body[i].k # "dispatch") =>
    \A h \in Blocks : blk[h].eh /\ blk[h].stmts => LabelLeadsTo(h)

\* Executing the text walks the blocks of the function, whatever was cut,
\* repaired, stripped, merged or turned into a state machine.
WalksTheBlocks == W!Spec

\* The comments at 2015-2019 of decompiler.cpp and 972-986 of 19_emit_structure.inc:
\* a trip cuts the remainder loose and keeps the structure already recovered.
CutKeepsStructure ==
  [][phase = "pass2" /\ tripped =>
       \A i \in DOMAIN body : body[i].k \in {"if", "switch"} => \E j \in DOMAIN body' : body'[j] = body[i]]_vars

\* The structurer keeps its side of the driver's proofs: the labels asked for
\* only grow, nothing is emitted that is not a block, and handlers are labelled.
KeepsContract ==
  [][phase' # "settle" /\ phase \in {"discover", "pass2", "repair", "judge"} =>
       LET s == [out |-> body', need |-> need', structured |-> structured', meter |-> meter']
       IN Emission(s) /\ HandlerEmission(s)]_vars
===============================================================================
