----------------------------- MODULE MCSymbols ------------------------------
(***************************************************************************)
(* Listings of four functions of four instructions each for Symbols.       *)
(* Function 1 is the helper to which the others may report; the last may   *)
(* be a second one.  21 and 22 are slots in the IAT.                       *)
(***************************************************************************)
EXTENDS Symbols, TLC

Do(op) == Insn(op, 0, "none")
Lit(t) == Insn("lea_rcx", 30, t)
At(k) == 4 * k - 3
Call(k) == Insn("call", At(k), "none")
Jump(a) == Insn("jmp", a, "none")
Touch(op, g) == Insn(op, g, "none")

\* A report, one whose literal is overwritten, one a branch may skip, a
\* dispatcher, accessors, thunks, a stub and a plain function.
Bodies(k) ==
    {<<Lit(t), Do("other"), Call(h), Do("ret")>> : t \in {"acos", "asin"}, h \in {1, 4} \ {k}}
    \cup {<<Lit("acos"), Lit("tan"), Call(1), Do("ret")>>,
          <<Lit("asin"), Do("set_rcx"), Call(1), Do("ret")>>,
          <<Lit("asin"), Do("branch"), Call(1), Do("ret")>>,
          <<Lit("acos"), Call(1), Lit("asin"), Call(1)>>,
          <<Touch("get", 31), Do("ret"), Do("other"), Do("other")>>,
          <<Touch("get", 31), Do("other"), Do("ret"), Do("other")>>,
          <<Jump(21), Do("other"), Do("other"), Do("other")>>,
          <<Do("cookie"), Do("branch"), Do("ret"), Do("other")>>,
          <<Do("other"), Do("other"), Do("other"), Do("ret")>>}
    \cup {<<Jump(At(t)), Do("other"), Do("other"), Do("other")>> : t \in (1..4) \ {k}}

Helpers ==
    {<<Do("other"), Do("other"), Do("other"), Do("ret")>>,
     <<Jump(At(3)), Do("other"), Do("other"), Do("other")>>}

\* Seeded symbols and entry point: none, an entry, a reporter with a symbol,
\* a symbol that another function reports, one that is like a thunk's name.
Tables ==
    {[symbols |-> <<>>, entry |-> 0], [symbols |-> 5 :> <<"word", "acos">>, entry |-> 0],
     [symbols |-> 13 :> <<"word", "asin">>, entry |-> 9],
     [symbols |-> 1 :> <<"j", <<"word", "acos">>>>, entry |-> 0]}

Listings ==
    {[insns |-> h \o a \o b \o c, size |-> [f \in {1, 5, 9, 13} |-> 4],
      symbols |-> t.symbols, entry |-> t.entry] :
        h \in Helpers, a \in Bodies(2), b \in Bodies(3), c \in Bodies(4), t \in Tables}

\* One listing of one function, for the behaviours that are not about names.
Unnamed == [insns |-> <<Do("ret")>>, size |-> [f \in {1} |-> 1], symbols |-> <<>>, entry |-> 0]

MCImports == 21 :> "alloc"
=============================================================================
