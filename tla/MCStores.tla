------------------------------ MODULE MCStores ------------------------------
(***************************************************************************)
(* What outlives or crosses a window: the saved decompilation cache, the   *)
(* project file, the sidecar of annotations and the messages between a     *)
(* page and the host.  The four share no state, so they are checked side   *)
(* by side and not in product: the part a behaviour is about is chosen     *)
(* once, and the others stay as they begin.                                *)
(***************************************************************************)
EXTENDS SavedAnalysis, Project, Ipc, Annotations

CONSTANT Parts   \* the parts to check

VARIABLE part    \* the part this is about

\* Three builds of a binary: a function that is rebuilt at another address
\* with another displacement, other code where it was, two equal thunks and a
\* function whose instructions are not known.
Parse(to) ==
    <<[op |-> "mov3", ref |-> "none", bytes |-> "b1"], [op |-> "call5", ref |-> "call", bytes |-> to]>>

Check == <<[op |-> "mov3", ref |-> "none", bytes |-> "b2"]>>

Thunk(to) == <<[op |-> "jmp5", ref |-> "jump", bytes |-> to]>>

Builds == {<<Parse("d7"), Thunk("d5")>>, <<Check, Parse("d9"), Thunk("d4")>>, <<Thunk("d1"), Thunk("d2"), <<>>>>}

ASSUME StoresAssumption == SavedAssumption /\ ProjectAssumption /\ IpcAssumption

vars == <<part, savedVars, docVars, wireVars, noteVars>>

Init ==
    /\ part \in Parts
    /\ SavedInit
    /\ DocInit
    /\ WireInit
    /\ NotesInit

CacheStep == part = "cache" /\ SavedNext /\ UNCHANGED <<part, docVars, wireVars, noteVars>>

DocStep == part = "doc" /\ DocNext /\ UNCHANGED <<part, savedVars, wireVars, noteVars>>

WireStep == part = "wire" /\ WireNext /\ UNCHANGED <<part, savedVars, docVars, noteVars>>

NoteStep == part = "notes" /\ NotesNext /\ UNCHANGED <<part, savedVars, docVars, wireVars>>

Next == CacheStep \/ DocStep \/ WireStep \/ NoteStep

Spec == Init /\ [][Next]_vars /\ WireFairness

=============================================================================
