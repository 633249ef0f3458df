---------------------------- MODULE MCDecompiler ----------------------------
(***************************************************************************)
(* What the decompiler does to the table of all functions' signatures      *)
(* (Signatures), to the statements of a function (DataFlow) and to its     *)
(* expressions (MagicDivision).  The three share no state, so they are     *)
(* checked side by side and not in product: the part a behaviour is about  *)
(* is chosen once, and the others stay as they begin.                      *)
(***************************************************************************)
EXTENDS MCSignatures, TLC

CONSTANTS
    Parts,    \* the parts to check, and families that break a property
    Locals, MaxRounds, Alias, InMemory, VoidCallees, Fuel,  \* DataFlow
    Width, DLimit                                           \* MagicDivision

VARIABLES
    part,                            \* the part this is about
    prog, running, rounds, meaning,  \* DataFlow
    source, program, rewriting       \* MagicDivision

Flow == INSTANCE MCDataFlow WITH pass <- running

Idioms == INSTANCE MCIdioms WITH stage <- rewriting

MCLocals == <<"v1", "v2", "v9", "t1", "t2">>
MCAlias == [v \in {"v2"} |-> "a2"]   \* int v2 = a2

\* 21 is an import that returns a handle, 22 one that returns a string and
\* takes three arguments, 23 and 24 are lock primitives.
MCApiType == (21 :> "HANDLE") @@ (22 :> "LPSTR") @@ (23 :> "none") @@ (24 :> "none")
MCApiArity == (21 :> 1) @@ (22 :> 3) @@ (23 :> 1) @@ (24 :> 1)
MCApiLock == (21 :> "none") @@ (22 :> "none") @@ (23 :> "acquire") @@ (24 :> "release")

ASSUME DecompilerAssumption ==
    Idioms!MagicAssumption /\ SignaturesAssumption /\ FamiliesAssumption

passVars == <<prog, running, rounds, meaning>>

idiomVars == <<source, program, rewriting>>

PassesWait == Flow!Starts({<<Flow!Block(<<>>, <<>>)>>})

IdiomsWait == Idioms!Starts({Idioms!Ret(Idioms!X(FALSE))})

SignaturesWait == SigStarts({<<>>})

DecompilerInit ==
    /\ part \in Parts
    /\ IF part = "passes" THEN Flow!MCInit ELSE PassesWait
    /\ CASE part = "idioms" -> Idioms!MCInit
         [] part = "narrowed" -> Idioms!Starts(Idioms!Narrowed)
         [] OTHER -> IdiomsWait
    /\ CASE part = "signatures" -> MCInit
         [] part = "sequencers" -> SigStarts(Sequencers)
         [] part = "mixed" -> SigStarts(Mixed)
         [] OTHER -> SignaturesWait

PassStep == part = "passes" /\ Flow!Next /\ UNCHANGED <<part, idiomVars, sigVars>>

IdiomStep ==
    /\ part \in {"idioms", "narrowed"}
    /\ Idioms!Next
    /\ UNCHANGED <<part, passVars, sigVars>>

SignatureStep ==
    /\ part \in {"signatures", "sequencers", "mixed"}
    /\ SigNext
    /\ UNCHANGED <<part, passVars, idiomVars>>

DecompilerNext == PassStep \/ IdiomStep \/ SignatureStep

DecompilerSpec ==
    DecompilerInit /\ [][DecompilerNext]_<<part, passVars, idiomVars, sigVars>>

-----------------------------------------------------------------------------
(* The properties of the two other modules.                                *)

\* A rewrite of a pass keeps what the program can do (Decompiler::run).
MeaningKept == Flow!MeaningKept

\* Its effects happen in the order of the lifted program (Decompiler::run).
EffectsInOrder == Flow!EffectsInOrder

\* The quotient, remainder or range test found is the expression it replaces
\* (recognize_magic_div, recognize_idioms).
RecognitionKept == Idioms!RecognitionKept

\* "Recognition can never change behavior", without premises
\* (recognize_magic_div).
NeverChangesBehavior == Idioms!NeverChangesBehavior
=============================================================================
