------------------------------ MODULE Symbols -------------------------------
(***************************************************************************)
(* The names of the functions (ds_engine_resolve_symbols, symbols.cpp).    *)
(* First each gets the best name it has of its own; then three passes      *)
(* replace placeholders: a name a function reports to a helper, the shape  *)
(* of an accessor, the target of a thunk.                                  *)
(*                                                                         *)
(* An instruction takes one address, so the listing is a sequence and an   *)
(* address a position of it.  A name is a pair of what it is made by and   *)
(* what it is made of; two functions with one name are two definitions of  *)
(* one C symbol.                                                           *)
(***************************************************************************)
EXTENDS Integers, Sequences, FiniteSets, FiniteSetsExt

CONSTANTS
    Window,      \* WIN: the instructions between a literal and its call
    Quorum,      \* QUORUM: the callers, and the names, a helper must have
    ImportNames, \* slots in the IAT (beyond the code) to the import's name
    Programs     \* the listings: [insns, size, symbols, entry]

VARIABLES
    listing,     \* the listing: [op, to, text]
    size,        \* the functions' addresses to their sizes
    symbols,     \* addresses to the names of the seeded symbols
    entry,       \* the entry point, or 0
    name,        \* the names given so far
    cursor       \* [pass, at]: the pass and the next function or helper of it

symbVars == <<listing, size, symbols, entry, name, cursor>>

\* A listing has finitely many functions, and at least one: with none there
\* is nothing to name.
Listed(p) ==
    /\ p.insns \in Seq([op : STRING, to : Nat, text : STRING])
    /\ DOMAIN p.size \subseteq Nat \ {0}
    /\ DOMAIN p.size # {} /\ IsFiniteSet(DOMAIN p.size)

ASSUME SymbolsAssumption ==
    /\ Window \in Nat \ {0} /\ Quorum \in Nat \ {0}
    /\ DOMAIN ImportNames \subseteq Nat \ {0}
    /\ \A p \in Programs : Listed(p)

Insn(op, to, text) == [op |-> op, to |-> to, text |-> text]

Starts(programs) ==
    /\ \E p \in programs :
        /\ listing = p.insns /\ size = p.size
        /\ symbols = p.symbols /\ entry = p.entry
    /\ name = <<>>
    /\ cursor = [pass |-> "own", at |-> Min(DOMAIN size)]

-----------------------------------------------------------------------------
Funcs == DOMAIN size

Is(a, op) == a \in DOMAIN listing /\ listing[a].op = op

is_placeholder(n) == n[1] = "fun"

\* Is the name already one of another function?
name_taken(n, skip, given) == \E g \in DOMAIN given \ {skip} : given[g] = n

\* Mutant: two functions may report, or look like, the same.
may_take_used(f, n) == is_placeholder(name[f])

\* Only a placeholder is replaced, and never by a name in use.
may_take(f, n) == is_placeholder(name[f]) /\ ~name_taken(n, f, name)

\* The single jump through the IAT.
import_thunk_name(f) == IF Is(f, "jmp") /\ listing[f].to \in DOMAIN ImportNames
                          THEN {ImportNames[listing[f].to]} ELSE {}

\* The seeded symbol, the entry point, the import thunk, the stub of the
\* runtime, the address: the first that applies.
OwnName(f) ==
    IF f \in DOMAIN symbols THEN symbols[f]
    ELSE IF f = entry THEN <<"word", "start">>
    ELSE IF import_thunk_name(f) # {} THEN <<"j", <<"word", CHOOSE i \in import_thunk_name(f) : TRUE>>>>
    ELSE IF Is(f, "cookie") THEN <<"word", "__security_check_cookie">>
    ELSE <<"fun", f>>

-----------------------------------------------------------------------------
(* Names reported to a helper (recover_string_names).                      *)

\* The function whose body covers a, if any: the last that starts up to a.
func_containing(a) ==
    {f \in Funcs : f <= a /\ a < f + size[f] /\ \A g \in Funcs : f < g => a < g}

\* Where the call after a literal is looked for: to the end of the function
\* or of the window.
Near(a, f) == (a + 1)..Min({Len(listing), a + Window, f + size[f] - 1})

\* The first call decides, unless rcx is written again or control leaves.
Decides(op) == op \in {"call", "calli", "jmp", "branch", "ret", "set_rcx", "lea_rcx"}

ConsumerOf(a, f) ==
    LET deciding == {b \in Near(a, f) : Decides(listing[b].op)} IN
    IF deciding = {} THEN 0
    ELSE LET b == Min(deciding) IN
         IF listing[b].op = "call" /\ listing[b].to \in Funcs \ DOMAIN ImportNames THEN listing[b].to ELSE 0

\* The literals each caller hands to helper h; a text that is no identifier
\* is none.
Reported(h) ==
    LET sites == {a \in DOMAIN listing : listing[a].op = "lea_rcx" /\ listing[a].text # "none"}
        of(f) == {listing[a].text : a \in {b \in sites : f \in func_containing(b) /\ ConsumerOf(b, f) = h}}
    IN  [f \in {g \in Funcs : of(g) # {}} |-> of(f)]

\* Callers with one literal each: one that hands over two walks a table.
Reporters(h) == {f \in DOMAIN Reported(h) : Cardinality(Reported(h)[f]) = 1}

\* A routine that reports its caller's name has enough callers that report
\* different names.
Accepted(h) ==
    /\ Cardinality(Reporters(h)) >= Quorum
    /\ Cardinality(UNION {Reported(h)[f] : f \in Reporters(h)}) >= Quorum

-----------------------------------------------------------------------------
(* Names by shape (recover_heuristic_names).                               *)

\* {one access to a global; ret}.
AccessorName(f) ==
    IF f \in DOMAIN listing /\ Is(f + 1, "ret") /\ listing[f].op \in {"get", "set", "ptr"}
      THEN {<<listing[f].op, listing[f].to>>} ELSE {}

ThunkName(f) ==
    IF Is(f, "jmp") /\ listing[f].to \in Funcs \ DOMAIN ImportNames
      THEN {<<"j", name[listing[f].to]>>} ELSE {}

-----------------------------------------------------------------------------
(* One function, or one helper, at a time, in the order of the addresses.  *)

Passes == <<"own", "reported", "accessors", "thunks", "done">>

InPass(pass) == cursor.pass = pass /\ UNCHANGED <<listing, size, symbols, entry>>

Advance ==
    LET later == {f \in Funcs : f > cursor.at}
        next == CHOOSE i \in 1..Len(Passes) : Passes[i] = cursor.pass
    IN  cursor' = IF later # {} THEN [cursor EXCEPT !.at = Min(later)]
                  ELSE [pass |-> Passes[next + 1], at |-> Min(Funcs)]

GiveOwnName ==
    /\ InPass("own")
    /\ name' = [f \in DOMAIN name \cup {cursor.at} |-> IF f = cursor.at THEN OwnName(f) ELSE name[f]]
    /\ Advance

\* The reporters of a helper take their names in the order of their
\* addresses: of two that report one name the first that may has it.
Word(f, h) == <<"word", CHOOSE t \in Reported(h)[f] : TRUE>>

Named(h) ==
    LET takers == {f \in Reporters(h) : may_take(f, Word(f, h))}
    IN  {f \in takers : \A g \in takers : g < f => Word(g, h) # Word(f, h)}

GiveReportedNames ==
    /\ InPass("reported")
    /\ LET h == cursor.at IN
       name' = IF Accepted(h)
                 THEN [f \in DOMAIN name |-> IF f \in Named(h) THEN Word(f, h) ELSE name[f]]
                 ELSE name
    /\ Advance

\* The name is from a set of at most one.
GiveShapeName(shape) ==
    LET n == CHOOSE n \in shape : TRUE
    IN  name' = IF shape # {} /\ may_take(cursor.at, n) THEN [name EXCEPT ![cursor.at] = n] ELSE name

GiveAccessorName == InPass("accessors") /\ GiveShapeName(AccessorName(cursor.at)) /\ Advance

\* A thunk is named after the name its target has by now.
GiveThunkName == InPass("thunks") /\ GiveShapeName(ThunkName(cursor.at)) /\ Advance

SymbNext == GiveOwnName \/ GiveReportedNames \/ GiveAccessorName \/ GiveThunkName

SymbSpec == Starts(Programs) /\ [][SymbNext]_symbVars

-----------------------------------------------------------------------------
(* Properties.                                                             *)

\* The upgrades "only ever upgrade the fun_ fallback, never a real symbol"
\* and "can never introduce a duplicate C symbol": two functions share a name
\* only if both have it of their own.  And "a reported name outranks a shape
\* name": who reports a name to an accepted helper has it, unless the name is
\* another function's or its own name was better (recover_string_names,
\* recover_heuristic_names).
NamesHold ==
    cursor.pass # "own" =>
        /\ \A f \in Funcs : ~is_placeholder(OwnName(f)) => name[f] = OwnName(f)
        /\ \A f, g \in Funcs :
              f # g /\ name[f] = name[g] => name[f] = OwnName(f) /\ name[g] = OwnName(g)
        /\ cursor.pass = "done" =>
              \A h \in Funcs : Accepted(h) =>
                  \A f \in Reporters(h) : \A t \in Reported(h)[f] :
                      \/ ~is_placeholder(OwnName(f))
                      \/ name[f][1] = "word"
                      \/ name_taken(<<"word", t>>, f, name)
=============================================================================
