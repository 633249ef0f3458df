------------------------------ MODULE EmitDriver ------------------------------
(***************************************************************************)
(* What Decompiler::run does with the texts the structurer gives it        *)
(* (src/engine/analysis/decompiler.cpp, 5604-5939): it discovers labels,   *)
(* emits again, repairs, keeps the best attempt, strips what is dead, adds *)
(* the blocks a spent budget has cut loose, judges, falls back to gotos,   *)
(* and cleans up.  A text is a sequence of lines.                          *)
(*                                                                         *)
(* The structurer is a parameter: an action takes what one emission has    *)
(* returned, and Emit supplies it.                                         *)
(***************************************************************************)
EXTENDS Integers, Sequences, FiniteSets, SequencesExt, FiniteSetsExt

CONSTANT MaxRetry        \* rounds of emission after the repair: 24

VARIABLES blk,           \* the blocks, 1 is the entry; 0 stands for no block
          merged,        \* merged_blocks
          force,         \* DS_FORCE_SM
          meter,         \* steps left before budget_tripped
          phase,         \* where the driver is
          need,          \* need_label
          structured,    \* blocks emitted
          body,          \* the text: a sequence of lines
          best,          \* best_body and best_dang
          retry          \* rounds done

input == <<blk, merged, force>>
driverVars == <<blk, merged, force, meter, phase, need, structured, body, best, retry>>

Blocks == DOMAIN blk
tripped == meter = 0
extern_entry_labels == {blk[b].addr : b \in {h \in Blocks : blk[h].eh}}
\* Where the blocks of the function lead.
Targets == UNION {{blk[b].taken, blk[b].fall, blk[b].default} \union ToSet(blk[b].cases) : b \in Blocks}
\* The handlers that only the unwinder enters, and that have something to lose.
Entered == {h \in Blocks \ Targets : blk[h].eh /\ blk[h].stmts}

\* The ways out of a block lead to blocks.
Graph ==
  /\ Len(blk) \in Nat \ {0} /\ Blocks = 1..Len(blk)
  /\ \A b \in Blocks :
       /\ blk[b].addr \in Nat
       /\ {blk[b].taken, blk[b].fall, blk[b].default} \subseteq Blocks \union {0}
       /\ blk[b].cases \in Seq(Blocks \union {0})

(***************************************************************************)
(* Lines                                                                   *)
(***************************************************************************)
Line(k, b, n, c) == <<[k |-> k, b |-> b, n |-> n, c |-> c]>>
IsText(t) == t \in Seq(ToSet(t)) /\ \A x \in ToSet(t) : x = [k |-> x.k, b |-> x.b, n |-> x.n, c |-> x.c]
block_label(b) == blk[b].addr
Label(b) == Line("label", b, block_label(b), <<>>)
Goto(b) == Line("goto", b, block_label(b), <<>>)
IfGoto(b, t) == Line("ifgoto", b, block_label(t), blk[b].cond)
Close == Line("end", 0, 0, <<>>)
Switch(b) == Line("switch", b, 0, <<>>)
Case(i) == Line("case", 0, i - 1, <<>>)
Break == Line("break", 0, 0, <<>>)
ret_text(b) == Line("ret", b, 0, <<>>)
emit_stmts(b) == IF blk[b].stmts THEN Line("stmts", b, 0, <<>>) ELSE <<>>

Opens == {"if", "switch", "dispatch"}
Depth(t, i, j) == Cardinality({m \in i..j : t[m].k \in Opens}) - Cardinality({m \in i..j : t[m].k = "end"})
\* The brace that closes what line i opens (an else continues its if).
Closes(t, i) ==
  LET open == IF t[i].k \in Opens THEN 0 ELSE 1
  IN {m \in i + 1..Len(t) : t[m].k = "end" /\ open + Depth(t, i, m) = 0}
CloseOf(t, i) == Min(Closes(t, i))

(***************************************************************************)
(* Labels                                                                  *)
(***************************************************************************)
defined(t) == {t[i].n : i \in {j \in DOMAIN t : t[j].k = "label"}}
referenced(t) == {t[i].n : i \in {j \in DOMAIN t : t[j].k \in {"goto", "ifgoto"}}}
has_duplicate_label_defs(t) ==
  \E i, j \in DOMAIN t : i # j /\ t[i].k = "label" /\ t[j].k = "label" /\ t[i].n = t[j].n
labels_consistent(t) == referenced(t) \subseteq defined(t) /\ ~has_duplicate_label_defs(t)
\* The last block with a label stands for it.
dangling_label_blocks(t) ==
  {Max({b \in Blocks : block_label(b) = n}) : n \in referenced(t) \ defined(t)}

Filter(t, Keep(_)) == FlattenSeq([i \in DOMAIN t |-> IF Keep(i) THEN <<t[i]>> ELSE <<>>])
dedupe_label_defs(t) ==
  Filter(t, LAMBDA i : ~(t[i].k = "label" /\ \E j \in 1..i - 1 : t[j].k = "label" /\ t[j].n = t[i].n))
prune_dead_labels(t) ==
  Filter(t, LAMBDA i : t[i].k = "label" => t[i].n \in referenced(t) \union extern_entry_labels)

is_uncond_transfer_line(x) == x.k \in {"goto", "ret", "break"}
Brace(x) == x.k \in Opens \union {"end", "else", "elif"}
\* Mutant: the handlers the unwinder enters do not end a dead run.
TargetByGotoOnly(t, x) == x.k \in {"case", "default"} \/ (x.k = "label" /\ x.n \in referenced(t))

is_reachable_target(t, x) ==
  x.k \in {"case", "default"} \/ (x.k = "label" /\ x.n \in referenced(t) \union extern_entry_labels)

\* A line is dropped when a transfer precedes it and nothing in between lets control in.
strip_unreachable_after_terminator(t) ==
  Filter(t, LAMBDA i :
    \A j \in 1..i - 1 : is_uncond_transfer_line(t[j]) =>
      \E m \in j + 1..i : Brace(t[m]) \/ is_reachable_target(t, t[m]))

(***************************************************************************)
(* The emitters without structure                                          *)
(***************************************************************************)
Before(x, y) == blk[x].addr < blk[y].addr \/ (blk[x].addr = blk[y].addr /\ x < y)
ByAddress(bs) ==
  [i \in 1..Cardinality(bs) |-> CHOOSE b \in bs : Cardinality({a \in bs : Before(a, b)}) = i - 1]
JumpTo(b, nxt) == IF b = nxt THEN <<>> ELSE Goto(b)

\* How a block ends in goto form; open is emitted where it has no way on.
Transfer(b, nxt, open) ==
  LET x == blk[b]
      cases == FlattenSeq([i \in DOMAIN x.cases |-> IF x.cases[i] = 0 THEN <<>> ELSE Case(i) \o Goto(x.cases[i])])
  IN CASE x.ends = "ret" -> ret_text(b)
       [] x.ends = "switch" -> Switch(b) \o cases \o Close \o (IF x.default = 0 THEN open ELSE Goto(x.default))
       [] x.ends = "jcc" -> (IF x.taken = 0 THEN <<>> ELSE IfGoto(b, x.taken))
                              \o (IF x.fall = 0 THEN open ELSE JumpTo(x.fall, nxt))
       [] x.ends = "jmp" -> IF x.taken = 0 THEN ret_text(b) ELSE JumpTo(x.taken, nxt)
       [] OTHER -> IF x.fall = 0 THEN ret_text(b) ELSE JumpTo(x.fall, nxt)
After(order, i) == IF i = Len(order) THEN 0 ELSE order[i + 1]

emit_goto_cfg ==
  LET order == ByAddress(Blocks)
  IN FlattenSeq([i \in DOMAIN order |->
       Label(order[i]) \o emit_stmts(order[i]) \o Transfer(order[i], After(order, i), <<>>)])

\* Mutant: the fall-through is elided against the next block by address.
TailByAddress(left) ==
  LET order == ByAddress(left)
      all == ByAddress(Blocks)
      next(b) == After(all, CHOOSE i \in DOMAIN all : all[i] = b)
  IN FlattenSeq([i \in DOMAIN order |->
       Label(order[i]) \o emit_stmts(order[i]) \o Transfer(order[i], next(order[i]), ret_text(order[i]))])

emit_unstructured_tail(left) ==
  LET order == ByAddress(left)
  IN FlattenSeq([i \in DOMAIN order |->
       Label(order[i]) \o emit_stmts(order[i]) \o Transfer(order[i], After(order, i), ret_text(order[i]))])

Set(b) == Line("set", 0, b, <<>>)
\* The block after b in a state machine.
NextState(b) ==
  LET x == blk[b]
      cases == FlattenSeq([i \in DOMAIN x.cases |->
                 IF x.cases[i] = 0 THEN <<>> ELSE Case(i) \o Set(x.cases[i]) \o Break])
      default == IF x.default = 0 THEN <<>> ELSE Line("default", 0, 0, <<>>) \o Set(x.default) \o Break
      goes(t) == IF t = 0 THEN <<>> ELSE Set(t) \o Break
  IN CASE x.ends = "ret" -> ret_text(b)
       [] x.ends = "switch" -> Switch(b) \o cases \o default \o Close \o Break
       [] x.ends = "jcc" /\ 0 \notin {x.taken, x.fall} -> Line("choose", b, 0, x.cond) \o Break
       [] x.ends = "jmp" -> IF x.taken = 0 THEN ret_text(b) ELSE goes(x.taken)
       [] OTHER -> IF x.fall = 0 THEN ret_text(b) ELSE goes(x.fall)
emit_state_machine ==
  LET order == ByAddress(Blocks \ merged)
  IN Line("dispatch", 0, 0, <<>>)
       \o FlattenSeq([i \in DOMAIN order |->
            Line("state", 0, order[i], <<>>) \o emit_stmts(order[i]) \o NextState(order[i])])
       \o Close

(***************************************************************************)
(* The last changes to the text.  A condition is a sequence of tokens, as  *)
(* Walk reads them.                                                        *)
(***************************************************************************)
Op(n) == <<[k |-> "op", n |-> n, neg |-> FALSE]>>
Paren(c) == <<[k |-> "paren", n |-> "", a |-> c, neg |-> FALSE]>>
wrap(c) == IF \E i \in DOMAIN c : c[i].n = "||" THEN Paren(c) ELSE c
Without(t, drop) == Filter(t, LAMBDA i : i \notin drop)
\* The brace of line i + 1 is the line before the brace of line i.
SoleChild(t, i) ==
  /\ Closes(t, i) # {} /\ Closes(t, i + 1) # {}
  /\ CloseOf(t, i + 1) = CloseOf(t, i) - 1
\* if (A) { if (B) { ... } } without any else
AndGuards(t) ==
  {i \in 1..Len(t) - 1 :
     /\ t[i].k = "if" /\ t[i + 1].k = "if"
     /\ SoleChild(t, i)
     /\ \A o \in {i, i + 1} : \A m \in o + 1..CloseOf(t, o) :
          t[m].k \in {"else", "elif"} => Depth(t, o, m) > 1}
JoinGuards(t, i) ==
  LET c == wrap(t[i].c) \o Op("&&") \o wrap(t[i + 1].c)
  IN Without([t EXCEPT ![i].c = c], {i + 1, CloseOf(t, i + 1)})
\* else { if (C) { ... } }
ElseIfs(t) == {i \in 1..Len(t) - 1 : t[i].k = "else" /\ t[i + 1].k = "if" /\ SoleChild(t, i)}
JoinElseIf(t, i) == Without([t EXCEPT ![i] = [t[i + 1] EXCEPT !.k = "elif"]], {i + 1, CloseOf(t, i)})
\* The first place is joined until there is none; every join takes one if away.
Joined(t, Places(_), Join(_, _)) ==
  LET joined[n \in 0..Cardinality({i \in DOMAIN t : t[i].k = "if"})] ==
        IF n = 0 THEN t
        ELSE LET last == joined[n - 1]
             IN IF Places(last) = {} THEN last ELSE Join(last, Min(Places(last)))
  IN joined[Cardinality({i \in DOMAIN t : t[i].k = "if"})]
collapse_and_guards(t) == Joined(t, AndGuards, JoinGuards)
collapse_else_if(t) == Joined(t, ElseIfs, JoinElseIf)

(***************************************************************************)
(* The driver.  s is what an emission returns: the text, the blocks done,  *)
(* the labels asked for, which only grow, and what is left of the meter.   *)
(***************************************************************************)
Emission(s) ==
  /\ IsText(s.out)
  /\ need \subseteq s.need /\ s.need \subseteq Blocks
  /\ s.structured \subseteq Blocks
  /\ s.meter \in 0..meter

Take(s) == /\ body' = s.out /\ structured' = s.structured
           /\ need' = s.need /\ meter' = s.meter

Discover(s) ==
  /\ phase = "discover"
  /\ Take(s) /\ phase' = IF s.meter > 0 /\ labels_consistent(s.out) THEN "repair" ELSE "pass2"
  /\ UNCHANGED <<input, best, retry>>

Pass2(s) ==
  /\ phase = "pass2" /\ phase' = "repair"
  /\ Take(s)
  /\ UNCHANGED <<input, best, retry>>

\* A round of the repair; it ends when nothing dangles.
Repaired == tripped \/ dangling_label_blocks(body) = {}
Repair(s) ==
  /\ phase = "repair" /\ ~Repaired
  /\ Take(s)
  /\ UNCHANGED <<input, phase, best, retry>>
RepairEnds ==
  /\ phase = "repair" /\ Repaired /\ phase' = "judge"
  /\ UNCHANGED <<input, body, structured, need, meter, best, retry>>

LabelsFixed == retry > 0 /\ need = best.need
\* The best attempt is kept; emitted again while the labels grow.
BestSoFar ==
  LET d == Cardinality(dangling_label_blocks(body))
  IN IF retry = 0 \/ d < best.dang THEN [body |-> body, dang |-> d, need |-> need]
     ELSE [best EXCEPT !.need = need]
LastRound == labels_consistent(body) \/ tripped \/ retry = MaxRetry \/ LabelsFixed
JudgeAgain(s) ==
  /\ phase = "judge" /\ ~LastRound
  /\ Take(s) /\ best' = BestSoFar
  /\ retry' = retry + 1 /\ phase' = "repair"
  /\ UNCHANGED input
JudgeEnds ==
  /\ phase = "judge" /\ LastRound /\ phase' = "settle"
  /\ body' = IF ~labels_consistent(body) /\ Cardinality(dangling_label_blocks(body)) > BestSoFar.dang
             THEN BestSoFar.body ELSE body
  /\ UNCHANGED <<input, structured, need, meter, best, retry>>

Emitted(b) == b \in structured \/ blk[b].synthetic
\* Mutant: a body with a dangling label is kept.
KeepAnyBody(t, covered) == covered

ok_struct(t, covered) == labels_consistent(t) /\ covered

Settle ==
  /\ phase = "settle" /\ phase' = "clean"
  /\ LET left == {b \in Blocks : ~Emitted(b)}
         stripped == strip_unreachable_after_terminator(body)
         t == dedupe_label_defs(IF tripped THEN stripped \o emit_unstructured_tail(left) ELSE stripped)
     IN body' = IF ok_struct(t, tripped \/ left = {}) THEN t ELSE emit_goto_cfg
  /\ UNCHANGED <<input, structured, need, meter, best, retry>>

Clean ==
  /\ phase = "clean" /\ phase' = "ready"
  /\ LET t == dedupe_label_defs(prune_dead_labels(body))
         u == IF force /\ referenced(t) # {} THEN emit_state_machine ELSE t
     IN body' = IF tripped THEN u ELSE collapse_else_if(collapse_and_guards(u))
  /\ UNCHANGED <<input, structured, need, meter, best, retry>>

\* The text is done: what runs is it.
Execute ==
  /\ phase = "ready" /\ phase' = "run"
  /\ UNCHANGED <<input, structured, need, meter, body, best, retry>>

Start ==
  /\ phase = "discover" /\ need = {} /\ structured = {} /\ body = <<>>
  /\ best = [body |-> <<>>, dang |-> 0, need |-> {}] /\ retry = 0

\* Any graph, any budget, any emissions.
DriverInit == Graph /\ meter \in Nat /\ force \in BOOLEAN /\ merged \subseteq Blocks /\ Start
DriverNext ==
  \/ \E s : Emission(s) /\ (Discover(s) \/ Pass2(s) \/ Repair(s) \/ JudgeAgain(s))
  \/ RepairEnds \/ JudgeEnds \/ Settle \/ Clean \/ Execute
DriverSpec == DriverInit /\ [][DriverNext]_driverVars

\* What an emission does for the handlers: a handler's label stands before its
\* statements, a handler that was emitted has one, and only a trip leaves a
\* handler out.
Leads(t, h) ==
  \A i \in DOMAIN t : t[i].k = "label" /\ t[i].n = block_label(h) =>
    i + 1 \in DOMAIN t /\ t[i + 1].k = "stmts" /\ t[i + 1].b = h
HandlerEmission(s) ==
  \A h \in Entered :
    /\ Leads(s.out, h)
    /\ h \in s.structured => block_label(h) \in defined(s.out)
    /\ s.meter > 0 => h \in s.structured
\* A handler is a block of its own: not merged into another one, not a copy,
\* not left without an address.
HandlersApart ==
  \A h \in Entered :
    h \notin merged /\ ~blk[h].synthetic /\ \A b \in Blocks : block_label(b) = block_label(h) => b = h

HandlerNext ==
  \/ \E s : Emission(s) /\ HandlerEmission(s) /\ (Discover(s) \/ Pass2(s) \/ Repair(s) \/ JudgeAgain(s))
  \/ RepairEnds \/ JudgeEnds \/ Settle \/ Clean \/ Execute
HandlerSpec == DriverInit /\ HandlersApart /\ [][HandlerNext]_driverVars

(***************************************************************************)
(* Properties                                                              *)
(***************************************************************************)
\* The text compiles: every goto has one label ("guarantee no duplicate label
\* survives -> always compiles"; the gate of labels_consistent).
Compiles == phase \in {"ready", "run"} => labels_consistent(body)

\* A handler entered by the unwinder only keeps its label, and its code behind it
\* ("an unwinder entry point is reachable even with no goto").
LabelLeadsTo(h) == \E i \in DOMAIN body : body[i].k = "label" /\ body[i].n = block_label(h) /\ body[i + 1].b = h
HandlersKept ==
  phase \in {"ready", "run"} /\ (\A i \in DOMAIN body : body[i].k # "dispatch") => \A h \in Entered : LabelLeadsTo(h)

\* Another round only with a larger set of labels: the rounds converge
\* ("Each round can only add labels, so it converges").
RoundsAddLabels ==
  [][phase = "judge" /\ phase' = "repair" /\ retry > 0 => Cardinality(need) > Cardinality(best.need)]_driverVars
===============================================================================
