---------------------------- MODULE Annotations -----------------------------
(***************************************************************************)
(* The user's names, comments and variable types, and the sidecar file     *)
(* that carries them from one build of a binary to the next                *)
(* (analysis/annotations.cpp).                                             *)
(*                                                                         *)
(* A record is kept under the address it was made at and the hash of the   *)
(* function that was there; ds_anno_resolve binds it to a function of the  *)
(* binary that is open now.  A hash stands for the stream it is taken of:  *)
(* two streams never share one.  The text of the file is abstracted to its *)
(* entries: what is written parses back to the same entries, a file that   *)
(* was cut does not parse, and a hand-written one may hold an entry of the *)
(* wrong kind.                                                             *)
(***************************************************************************)
EXTENDS Integers, Sequences, FiniteSets, SequencesExt

CONSTANTS
    Images,      \* the builds of the binary: address -> instructions of a function
    Names,       \* what a function is renamed to and what is said of it
    Locals,      \* display names of variables
    Types,       \* types a variable is given
    MaxEdits     \* bound: edits in a behaviour

\* A binary has finitely many functions, none of them at address 0; a rename
\* or a comment to an empty text does nothing.
ASSUME AnnotationsAssumption ==
    /\ MaxEdits \in Nat
    /\ \A i \in Images : IsFiniteSet(DOMAIN i) /\ DOMAIN i \subseteq Nat \ {0}
    /\ "" \notin Names

VARIABLES
    image,       \* the build that is open
    funcs,       \* e->funcs: {} before the analysis, or {the functions}
    annos,       \* e->annos
    annoVars,    \* e->anno_vars
    sidecar,     \* the file: [state, functions]
    edits,       \* edits so far
    asked        \* {} or {the type override asked for in the last step}

noteVars == <<image, funcs, annos, annoVars, sidecar, edits, asked>>

FuncRvas == UNION {DOMAIN i : i \in Images}

NoHash == <<>>

Unbound == 0

-----------------------------------------------------------------------------
(* The identity of a function.                                             *)

\* hash_func: mnemonic and length of every instruction, then the kind of
\* reference or, when it refers to nothing, its bytes.  A function without
\* instructions has no identity.
FuncHash(body) ==
    [i \in 1..Len(body) |->
        <<body[i].op, IF body[i].ref = "none" THEN body[i].bytes ELSE body[i].ref>>]

Listing == IF funcs = {} THEN <<>> ELSE CHOOSE f \in funcs : TRUE

\* Mutant: the first function with the hash is taken.
BindFirst(hash, rva) ==
    LET twins == {f \in DOMAIN Listing : hash # NoHash /\ FuncHash(Listing[f]) = hash} IN
    IF twins # {} THEN CHOOSE f \in twins : \A g \in twins : f <= g
    ELSE IF rva \in DOMAIN Listing THEN rva ELSE Unbound

\* Where a recorded identity is now: the one function with its hash, else the
\* function at its address unless both hashes are known and differ.
Bind(hash, rva) ==
    LET twins == {f \in DOMAIN Listing : hash # NoHash /\ FuncHash(Listing[f]) = hash} IN
    IF Cardinality(twins) = 1 THEN CHOOSE f \in twins : TRUE
    ELSE IF /\ rva \in DOMAIN Listing
            /\ \/ NoHash \in {hash, FuncHash(Listing[rva])}
               \/ hash = FuncHash(Listing[rva])
         THEN rva
         ELSE Unbound

\* ds_anno_resolve: of two records that claim a function the first keeps it;
\* a function has any number of variables.
Resolved(store) ==
    LET claim(r) == Bind(r.hash, r.rva)
        taken(i) == \E j \in 1..(i - 1) : claim(store.annos[j]) = claim(store.annos[i])
    IN  [store EXCEPT
            !.annos = [i \in DOMAIN @ |->
                [store.annos[i] EXCEPT
                    !.bound = IF taken(i) THEN Unbound ELSE claim(store.annos[i])]],
            !.annoVars = [i \in DOMAIN @ |->
                [store.annoVars[i] EXCEPT !.bound = claim(store.annoVars[i])]]]

\* The identity of the function at an address, when there is one.
HashAt(rva, otherwise) ==
    IF rva \in DOMAIN Listing THEN FuncHash(Listing[rva]) ELSE otherwise

-----------------------------------------------------------------------------
(* The records.                                                            *)

NewAnno(rva) == [rva |-> rva, hash |-> NoHash, name |-> "", comment |-> "", bound |-> Unbound]

\* anno_upsert looks for the address the record was made at.
WithAnno(list, rva) ==
    IF \E i \in DOMAIN list : list[i].rva = rva THEN list ELSE Append(list, NewAnno(rva))

\* A name or comment is written when it is not empty; what is empty stays.
Said(list, rva, hash, name, comment) ==
    LET at == CHOOSE i \in DOMAIN list :
                  list[i].rva = rva /\ \A j \in 1..(i - 1) : list[j].rva # rva
    IN  [list EXCEPT
            ![at].hash = hash,
            ![at].name = IF name = "" THEN @ ELSE name,
            ![at].comment = IF comment = "" THEN @ ELSE comment,
            ![at].bound = Unbound]

\* anno_var_upsert: the record of the variable at this address, bound at once.
WithLocal(list, rva, local) ==
    LET new == [rva |-> rva, hash |-> NoHash, from |-> local, to |-> "", type |-> "",
                bound |-> Unbound]
        known == \E i \in DOMAIN list : list[i].rva = rva /\ list[i].from = local
        at(l) == CHOOSE i \in DOMAIN l : l[i].rva = rva /\ l[i].from = local
        grown == IF known THEN list ELSE Append(list, new)
    IN  [i \in DOMAIN grown |->
            IF i = at(grown)
              THEN [grown[i] EXCEPT
                      !.hash = HashAt(rva, NoHash),
                      !.bound = IF rva \in DOMAIN Listing THEN rva ELSE Unbound]
              ELSE grown[i]]

SetLocal(list, rva, local, field, text) ==
    LET grown == WithLocal(list, rva, local) IN
    [i \in DOMAIN grown |->
        IF grown[i].rva = rva /\ grown[i].from = local
          THEN [grown[i] EXCEPT ![field] = text] ELSE grown[i]]

\* ds_engine_get_var_types and load_user_types: the overrides of a function,
\* of which the last one for a variable is used; "" is the recovered type.
TypeOf(rva, local) ==
    LET given == SelectSeq(annoVars, LAMBDA v :
                     v.bound = rva /\ v.from = local /\ v.type # "")
    IN  IF given = <<>> THEN "" ELSE Last(given).type

-----------------------------------------------------------------------------
(* The sidecar file.                                                       *)

NoSidecar == [state |-> "absent", functions |-> <<>>]

Key(r) == [hash |-> r.hash, rva |-> r.rva]

\* The records of a list that are in S, in their order (SelectSeq, as a
\* function that proofs can expand).
Picked(list, S) ==
    LET upTo[i \in 0..Len(list)] ==
            IF i = 0 THEN <<>>
            ELSE IF list[i] \in S THEN Append(upTo[i - 1], list[i]) ELSE upTo[i - 1]
    IN  upTo

Those(list, S) == Picked(list, S)[Len(list)]

\* key_index: each identity once, in the order of its first record.
Keys(list) ==
    LET first == Those([i \in DOMAIN list |-> i],
                       {i \in DOMAIN list : \A j \in 1..(i - 1) : Key(list[j]) # Key(list[i])})
    IN  [n \in DOMAIN first |-> Key(list[first[n]])]

Spoken(store) == {a \in ToSet(store.annos) : a.name # "" \/ a.comment # ""}

VarsOf(store, k) == Those(store.annoVars, {v \in ToSet(store.annoVars) : Key(v) = k})

\* Mutant: variables are written with the record of their function only.
WrittenNamed(store) ==
    [state |-> "v1",
     functions |-> [i \in DOMAIN store.annos |->
        [ok |-> TRUE, key |-> Key(store.annos[i]),
         name |-> store.annos[i].name, comment |-> store.annos[i].comment,
         vars |-> VarsOf(store, Key(store.annos[i]))]]]

\* ds_engine_save_annotations: one entry per recorded identity, those of the
\* records that say something first.
Written(store) ==
    LET keys == Keys(Those(store.annos, Spoken(store)) \o store.annoVars)
        of(k) == Those(store.annos, {a \in Spoken(store) : Key(a) = k})
    IN  [state |-> "v1",
         functions |-> [i \in DOMAIN keys |->
            [ok |-> TRUE,
             key |-> keys[i],
             name |-> IF of(keys[i]) = <<>> THEN "" ELSE Last(of(keys[i])).name,
             comment |-> IF of(keys[i]) = <<>> THEN "" ELSE Last(of(keys[i])).comment,
             vars |-> VarsOf(store, keys[i])]]]

\* One entry of the file read into the store.  A variable without an original
\* name, or with nothing to say of it, is skipped.
ReadEntry(store, fn) ==
    IF store.failed \/ ~fn.ok THEN [store EXCEPT !.failed = TRUE]
    ELSE [store EXCEPT
            !.annos = IF fn.name = "" /\ fn.comment = "" THEN @
                      ELSE Said(WithAnno(@, fn.key.rva), fn.key.rva, fn.key.hash,
                                fn.name, fn.comment),
            !.annoVars = @ \o
                LET kept == Those(fn.vars, {v \in ToSet(fn.vars) : v.to # "" \/ v.type # ""}) IN
                [i \in DOMAIN kept |->
                    [rva |-> fn.key.rva, hash |-> fn.key.hash, from |-> kept[i].from,
                     to |-> kept[i].to, type |-> kept[i].type, bound |-> Unbound]]]

\* A file that was cut is no JSON object.
Parses(f) == f.state \notin {"absent", "cut"}

Empty == [annos |-> <<>>, annoVars |-> <<>>, failed |-> FALSE]

\* ds_engine_load_annotations after the text has parsed: the store is replaced
\* entry by entry.  A malformed entry stops it, with what was read before and
\* nothing bound.
ReadUpTo(functions) ==
    LET upTo[i \in 0..Len(functions)] ==
            IF i = 0 THEN Empty ELSE ReadEntry(upTo[i - 1], functions[i])
    IN  upTo

Read(functions) ==
    LET store == ReadUpTo(functions)[Len(functions)] IN
    IF store.failed THEN store ELSE Resolved(store)

-----------------------------------------------------------------------------
NotesInit ==
    /\ image \in Images
    /\ funcs = {}
    /\ annos = <<>>
    /\ annoVars = <<>>
    /\ sidecar = NoSidecar
    /\ edits = 0
    /\ asked = {}

Edited == edits < MaxEdits /\ edits' = edits + 1

\* The functions are recovered; nothing is resolved then.
Analyse ==
    /\ funcs = {}
    /\ funcs' = {image}
    /\ asked' = {}
    /\ UNCHANGED <<image, annos, annoVars, sidecar, edits>>

\* ds_engine_set_func_annotation, from the rename and comment requests.
SetFunc(rva, name, comment) ==
    /\ Edited
    /\ LET grown == WithAnno(annos, rva)
           old == CHOOSE a \in {grown[i] : i \in DOMAIN grown} : a.rva = rva
       IN  annos' = Said(grown, rva, HashAt(rva, old.hash), name, comment)
    /\ asked' = {}
    /\ UNCHANGED <<image, funcs, annoVars, sidecar>>

\* ds_engine_set_var_annotation.
SetVar(rva, local, to) ==
    /\ Edited
    /\ annoVars' = SetLocal(annoVars, rva, local, "to", to)
    /\ asked' = {}
    /\ UNCHANGED <<image, funcs, annos, sidecar>>

\* ds_engine_set_var_type: "" clears the override.
SetVarType(rva, local, type) ==
    /\ Edited
    /\ annoVars' = SetLocal(annoVars, rva, local, "type", type)
    /\ asked' = {[rva |-> rva, local |-> local, type |-> type]}
    /\ UNCHANGED <<image, funcs, annos, sidecar>>

\* The file is truncated and written; a write that fails leaves a part of it.
Save ==
    /\ sidecar' = Written([annos |-> annos, annoVars |-> annoVars])
    /\ asked' = {}
    /\ UNCHANGED <<image, funcs, annos, annoVars, edits>>

SidecarFails ==
    /\ sidecar' = [state |-> "cut", functions |-> <<>>]
    /\ asked' = {}
    /\ UNCHANGED <<image, funcs, annos, annoVars, edits>>

\* The user edits the file: an entry of the wrong kind
\* (bound: one), or another version.
HandEdit ==
    /\ sidecar.state = "v1"
    /\ \A i \in DOMAIN sidecar.functions : sidecar.functions[i].ok
    /\ \/ \E i \in 0..Len(sidecar.functions) :
            sidecar' = [sidecar EXCEPT !.functions =
                        SubSeq(@, 1, i) \o
                        <<[ok |-> FALSE, key |-> [hash |-> NoHash, rva |-> 0],
                           name |-> "", comment |-> "", vars |-> <<>>]>> \o
                        SubSeq(@, i + 1, Len(@))]
       \/ sidecar' = [sidecar EXCEPT !.state = "v2"]
    /\ asked' = {}
    /\ UNCHANGED <<image, funcs, annos, annoVars, edits>>

\* ds_engine_load_annotations: a file that is missing, does not parse or has
\* another version is refused before anything is replaced.
Load ==
    /\ Parses(sidecar) /\ sidecar.state = "v1"
    /\ annos' = Read(sidecar.functions).annos
    /\ annoVars' = Read(sidecar.functions).annoVars
    /\ asked' = {}
    /\ UNCHANGED <<image, funcs, sidecar, edits>>

\* The binary is built again and opened in a new engine.
RebuildBinary ==
    /\ image' \in Images
    /\ funcs' = {}
    /\ annos' = <<>>
    /\ annoVars' = <<>>
    /\ asked' = {}
    /\ UNCHANGED <<sidecar, edits>>

NotesNext ==
    \/ Analyse \/ Save \/ SidecarFails \/ HandEdit \/ Load \/ RebuildBinary
    \/ \E rva \in FuncRvas, name \in Names : SetFunc(rva, name, "") \/ SetFunc(rva, "", name)
    \/ \E rva \in FuncRvas, local \in Locals :
          \/ \E name \in Names : SetVar(rva, local, name)
          \/ \E type \in Types \cup {""} : SetVarType(rva, local, type)

NotesSpec == NotesInit /\ [][NotesNext]_noteVars

-----------------------------------------------------------------------------
(* Properties.                                                             *)

Records == {annos[i] : i \in DOMAIN annos} \cup {annoVars[i] : i \in DOMAIN annoVars}

\* "an rva match is declined when both hashes are known and differ", "only
\* when the hash picks out exactly one current function", "a function takes at
\* most one annotation": whatever was edited, saved, rebuilt and loaded, a
\* record is bound to a function that is what it was made for, as far as the
\* two hashes tell, an ambiguous hash binds where it was made, and no function
\* has two names.
NeverOnOtherCode ==
    /\ \A r \in Records : r.bound # Unbound =>
          /\ r.bound \in DOMAIN Listing
          /\ LET now == FuncHash(Listing[r.bound]) IN
             /\ NoHash \in {r.hash, now} \/ r.hash = now
             /\ (\E f \in DOMAIN Listing \ {r.bound} : FuncHash(Listing[f]) = now)
                   => r.bound = r.rva
    /\ \A i, j \in DOMAIN annos :
          i # j /\ annos[i].bound # Unbound => annos[i].bound # annos[j].bound

\* What is saved and loaded again is what was there: every name and comment,
\* and every variable that has a new name or a type, under the same identity.
RoundTrip ==
    LET back == Read(Written([annos |-> annos, annoVars |-> annoVars]).functions)
        said(list) == {[list[i] EXCEPT !.bound = Unbound] : i \in DOMAIN list}
    IN  /\ said(back.annos) = said(annos)
        /\ said(back.annoVars) = {v \in said(annoVars) : v.to # "" \/ v.type # ""}

\* "NULL or an empty string clears the override and restores the recovered
\* type": the type asked for last is the type the next decompilation uses.
ClearRestores == \A q \in asked : q.rva \in DOMAIN Listing => TypeOf(q.rva, q.local) = q.type
=============================================================================
