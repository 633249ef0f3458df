-------------------------------- MODULE MCEmit --------------------------------
EXTENDS Emit

p == W!Atom("p")
q == W!Atom("q")
New(b) == [addr |-> b, stmts |-> TRUE, ends |-> "fall", cond |-> <<>>, taken |-> 0, fall |-> 0,
           cases |-> <<>>, default |-> 0, guard |-> 0, synthetic |-> FALSE, eh |-> FALSE, shared |-> FALSE]
Ret(b) == [New(b) EXCEPT !.ends = "ret"]
Fall(b) == [New(b) EXCEPT !.fall = b + 1]
Jmp(b, t) == [New(b) EXCEPT !.ends = "jmp", !.taken = t]
Jcc(b, c, t) == [New(b) EXCEPT !.ends = "jcc", !.cond = c, !.taken = t, !.fall = b + 1]
Silent(x) == [x EXCEPT !.stmts = FALSE]
Handler(x) == [x EXCEPT !.eh = TRUE]
Dispatch(b, cases, default) == [New(b) EXCEPT !.ends = "switch", !.cases = cases, !.default = default]

\* Every way to connect five blocks forwards; p || q is a merged condition.
Ends(b, c, n) == {Ret(b), Fall(b)} \union {Jmp(b, t) : t \in b + 2..n} \union {Jcc(b, c, t) : t \in b + 2..n}
Forward == {<<w, x, y, z, Ret(5)>> : w \in Ends(1, p \o W!Op("||") \o q, 5), x \in Ends(2, q, 5),
                                     y \in Ends(3, p, 5), z \in Ends(4, q, 5)}
\* Branches that cross: their joins are entered from the middle of other arms.
Crossing == {<<Jcc(1, p, t), Jcc(2, q, u), Jcc(3, p, v), x, y, Ret(6)>> : t \in 3..6, u \in 4..6, v \in 5..6,
               x \in Ends(4, q, 6), y \in Ends(5, p, 6)}
\* Blocks without statements: conditions nest directly.
Nested == {<<Jcc(1, p, t), Silent(Jcc(2, p \o W!Op("||") \o q, u)), x, Silent(y), Ret(5)>> :
             t \in 3..5, u \in 4..5, x \in Ends(3, q, 5), y \in Ends(4, q, 5)}
  \union {<<Jcc(1, p, 3), Silent(Jcc(2, p \o W!Op("||") \o q, 6)), Jcc(3, q, 5), x, Ret(5), Jmp(6, 3)>> : x \in Ends(4, p, 5)}
\* Two blocks that jump to each other, entered at both.
Irreducible == {<<Jcc(1, p, 3), Jcc(2, q, t), u, Ret(4)>> : t \in 3..4, u \in {Jmp(3, 2), Jcc(3, p, 2)}}
Loops == {<<Fall(1), x, y, Ret(4)>> : x \in Ends(2, q, 4), y \in {Jmp(3, 2), Jmp(3, 1), Jcc(3, p, 2), Jcc(3, q, 1)}}
\* What the unwinder enters lies behind a return.
Handlers == {<<w, x, Handler(y), z, Ret(5)>> : w \in {Jcc(1, p, 4), Fall(1)}, x \in {Ret(2), Jmp(2, 4)},
                y \in {Fall(3), Jmp(3, 5), Ret(3), Jcc(3, q, 5)}, z \in Ends(4, p, 5)}
\* Branches around that code lead to it too; its return is copied to them.
Reached == {<<Jcc(1, p, 3), x, Handler(y), z, Ret(5)>> : x \in {Ret(2), Jmp(2, 4), Jcc(2, q, 4)},
              y \in {Fall(3), Jmp(3, 5), Jcc(3, q, 5)}, z \in Ends(4, p, 5)}
\* The last block only returns, or stands for several that were alike.
Tails == {<<w, x, y, z, e>> : w \in Ends(1, p, 5) \ {Ret(1)}, x \in Ends(2, q, 5) \ {Ret(2)}, y \in Ends(3, p, 5),
            z \in Ends(4, q, 5), e \in {Silent(Ret(5)), [Ret(5) EXCEPT !.shared = TRUE]}}
\* Block 3 was split: 7 is its copy, for one of the blocks that lead to it.
Split == {<<Jcc(1, p, t), Jcc(2, q, u), Jcc(3, p, v), x, y, Ret(6), [Jcc(3, p, v) EXCEPT !.fall = 4]>> :
            t \in {4, 5, 7}, u \in {4, 5, 7}, v \in 5..6, x \in Ends(4, q, 6) \union {Jmp(4, 7), Jcc(4, q, 3)}, y \in Ends(5, p, 6) \union {Jmp(5, 2), Jmp(5, 7)}}

\* A range check before a table of three slots; slot 1 repeats another target.
Table(d, hs) == {<<[Jcc(1, W!Atom("over"), d) EXCEPT !.guard = 2], Silent(Dispatch(2, <<3, h, 4>>, d)), x, y, z, Ret(6)>> :
                   h \in hs, x \in {Fall(3), Jmp(3, 6), Ret(3)}, z \in {Fall(5), Ret(5)},
                   y \in {Fall(4), Jmp(4, 6), Jmp(4, 3), Jcc(4, p, 6)}}
Tables == Table(5, {0, 3, 4, 6}) \union Table(6, {0, 3, 4})

Given(g, m, f) == blk \in g /\ meter \in m /\ force \in f /\ merged = {} /\ allowance \in (IF meter = 30 THEN {0, 2, 160} ELSE {160})
Acyclic == Given(Forward, {0, 2, 3, 4, 30}, {FALSE}) \/ Given(Nested \union Handlers \union Tables, {0, 4, 30}, {FALSE})
Crossed == Given(Crossing, {4, 6, 8, 9, 10, 11, 12, 30}, {FALSE})
Ending == Given(Tails \union Reached, {30}, {FALSE})
Copied == Given(Split, {9, 30}, {FALSE})
Cyclic == Given(Irreducible, 3..9 \union {30}, {FALSE}) \/ Given(Loops, {0}, {FALSE})
Forced == Given(Forward \union Irreducible \union Tables, {30}, {TRUE}) \/ Given(Loops, {0}, {TRUE})
MCInit == (Acyclic \/ Crossed \/ Ending \/ Copied \/ Cyclic \/ Forced) /\ Init
MCSpec == MCInit /\ [][Next]_vars

\* The slot repeats the default.
DefaultSpec == Given(Table(6, {6}), {30}, {FALSE}) /\ Init /\ [][Next]_vars
===============================================================================
