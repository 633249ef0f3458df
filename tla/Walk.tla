--------------------------------- MODULE Walk ---------------------------------
(***************************************************************************)
(* What the decompiled text of a function has to do: walk its blocks.      *)
(* A step is visible when it executes the statements of a block or         *)
(* returns; blocks without statements are passed silently.  The blocks are *)
(* those of struct Block in src/engine/analysis/decompiler.cpp.            *)
(***************************************************************************)
EXTENDS Integers, Sequences, FiniteSets

CONSTANTS Atoms,         \* the simple conditions that branches test
          Selectors      \* the values of a switch variable

VARIABLES blk,           \* the blocks, 1 is the entry; 0 stands for no block
          at,            \* the visible step the walk is at
          val            \* the values that decided its branches

Vals == [truth : [Atoms -> BOOLEAN], sel : IF \E b \in DOMAIN blk : blk[b].ends = "switch" THEN Selectors ELSE {0}]

(***************************************************************************)
(* A condition is a sequence of tokens, as it is printed: atoms, the       *)
(* operators "||" and "&&", and parentheses around a condition.            *)
(***************************************************************************)
Atom(n) == <<[k |-> "atom", n |-> n, neg |-> FALSE]>>
Op(n) == <<[k |-> "op", n |-> n, neg |-> FALSE]>>
Paren(c) == <<[k |-> "paren", n |-> "", a |-> c, neg |-> FALSE]>>

\* "&&" binds tighter than "||"; "over" is the range check before a switch.
RECURSIVE Holds(_, _, _)
Holds(c, v, cases) ==
  LET or == {i \in DOMAIN c : c[i].k = "op" /\ c[i].n = "||"}
      segment(i) == {j \in DOMAIN c : \A m \in or : (m < i) <=> (m < j)}
      true(j) == LET x == c[j] IN
        CASE x.k = "op" -> TRUE
          [] x.k = "paren" -> Holds(x.a, v, cases) # x.neg
          [] OTHER -> (IF x.n = "over" THEN v.sel >= cases ELSE v.truth[x.n]) # x.neg
  IN \E i \in DOMAIN c \ or : \A j \in segment(i) : true(j) \/ j \in or

Size(b) == IF blk[b].guard # 0 THEN Len(blk[blk[b].guard].cases) ELSE Len(blk[b].cases)

\* The block after b, 0 when the function returns.
To(b, v) ==
  LET x == blk[b]
      i == v.sel + 1
  IN CASE x.ends = "ret" -> 0
       [] x.ends = "switch" -> IF i \in DOMAIN x.cases /\ x.cases[i] # 0 THEN x.cases[i] ELSE x.default
       [] x.ends = "jcc" -> IF Holds(x.cond, v, Size(b)) THEN x.taken ELSE x.fall
       [] x.ends = "jmp" -> x.taken
       [] OTHER -> x.fall

RECURSIVE Arrive(_, _)
After(b, v) == IF To(b, v) = 0 THEN [k |-> "ret", b |-> blk[b].addr] ELSE Arrive(To(b, v), v)
Arrive(b, v) == IF blk[b].stmts THEN [k |-> "stmts", b |-> blk[b].addr] ELSE After(b, v)

Handlers == {b \in DOMAIN blk : blk[b].eh}

Init == at = [k |-> "start", b |-> 0] /\ val \in Vals
\* The function is called, or the unwinder enters one of its handlers.
Enter == at.k = "start" /\ \E b \in {1} \union Handlers : at' = Arrive(b, val')
\* A copy of a block has its address and its statements.
Move == at.k = "stmts" /\ \E b \in DOMAIN blk : blk[b].addr = at.b /\ at' = After(b, val')
Next == val' \in Vals /\ (Enter \/ Move) /\ UNCHANGED blk
Spec == Init /\ [][Next]_<<blk, at, val>>
===============================================================================
