------------------------------ MODULE MCEngine ------------------------------
(***************************************************************************)
(* The engine: the sweep, the functions and the cross references of every  *)
(* small image (Cfg), the names of the functions of small listings         *)
(* (Symbols), and what the decompiler does before it prints                *)
(* (MCDecompiler).  They share no state and are checked side by side.      *)
(***************************************************************************)
EXTENDS Cfg, MCSymbols, MCDecompiler

MCSegments == <<[rva |-> 1, size |-> 4, exec |-> TRUE],
                [rva |-> 5, size |-> 1, exec |-> FALSE],
                [rva |-> 6, size |-> 1, exec |-> TRUE]>>

Short == [size : {1}, kind : {"plain", "frame", "ret", "trap"}, target : {0}]

Long(k, T) == [size : {2}, kind : {k}, target : T]

MCInsns == Short \cup Long("jmp", {1, 3, 6}) \cup Long("branch", {2, 4})
           \cup Long("call", {0, 3, 5, 6}) \cup Long("table", {4})

MCSeeds == {<<>>, <<5, 2>>}

Init ==
    /\ DecompilerInit
    /\ EngineInit /\ (part # "image" => seeds = <<>>)
    /\ Starts(IF part = "names" THEN Programs ELSE {Unnamed})

ImageStep ==
    /\ part = "image"
    /\ EngineNext
    /\ UNCHANGED <<part, symbVars, passVars, idiomVars, sigVars>>

NameStep ==
    /\ part = "names"
    /\ SymbNext
    /\ UNCHANGED <<part, engineVars, passVars, idiomVars, sigVars>>

RewriteStep == DecompilerNext /\ UNCHANGED <<engineVars, symbVars>>

Next == ImageStep \/ NameStep \/ RewriteStep

Spec == Init /\ [][Next]_<<part, engineVars, symbVars, passVars, idiomVars, sigVars>>
=============================================================================
