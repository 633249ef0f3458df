------------------------------ MODULE Project -------------------------------
(***************************************************************************)
(* A .dsproj project: the document in memory, shared by the project window *)
(* and the disassembly windows of its binaries, and the file it is saved   *)
(* to on every edit (crates/shell/src/dsproj.rs, the project commands of   *)
(* ipc.rs, and the Manager of main.rs that owns the documents).            *)
(*                                                                         *)
(* One document: the Manager keys documents by the spelling of the path,   *)
(* and a file open under two spellings has two of them.  An edit holds the *)
(* document's lock until its save is over.  fs::write truncates the file   *)
(* and then fills it.                                                      *)
(***************************************************************************)
EXTENDS Integers, FiniteSets

CONSTANTS
    Rvas,         \* addresses that get annotated
    Texts,        \* comment texts, trimmed and not empty
    MaxId,        \* bound: the highest binary id
    Edits,        \* which of the edits below the user makes
    Faults        \* which of the faults below happen

AllEdits == {"add", "remove", "comment", "mark", "open"}

AllFaults == {"crash_in_save", "save_error"}

ProjectAssumption ==
    /\ MaxId \in Nat
    /\ Edits \subseteq AllEdits
    /\ Faults \subseteq AllFaults

VARIABLES
    memory,   \* Manager.projects: {} or {document}
    disk,     \* the file: {} when it does not parse, or {document}
    saving,   \* {} or the edit whose save is under way
    windows,  \* open disassembly windows: the binary they captured
    given,    \* ids the document in memory has ever given
    durable,  \* {} or {the last completed save}; {} once another was cut or failed
    acked     \* the edit that has just been answered with ok

docVars == <<memory, disk, saving, windows, given, durable, acked>>

Ids == 1..MaxId

\* Per binary: comments by address, and marked addresses (Vec::sort + dedup).
Annotations == [comments : UNION {[D -> Texts] : D \in SUBSET Rvas}, marks : SUBSET Rvas]

Document == [next : 0..(MaxId + 1), binaries : UNION {[D -> Annotations] : D \in SUBSET Ids}]

NoMap == [x \in {} |-> 0]

\* DsProj::default(), and the document `create` writes.
DefaultDocument == [next |-> 0, binaries |-> NoMap]

NewDocument == [next |-> 1, binaries |-> NoMap]

\* What an edit asks for; `by` is the thread that saves it.  An add is saved
\* by the dialog's thread, everything else by the UI thread.
Edit == [by : {"ui", "dialog"}, id : 0..MaxId, rva : Rvas \cup {0}, text : Texts \cup {"", "none"}]

Plain(thread) == [by |-> thread, id |-> 0, rva |-> 0, text |-> "none"]

DocInit ==
    /\ memory = {}
    /\ disk = {NewDocument}
    /\ saving = {}
    /\ windows = {}
    /\ given = {}
    /\ durable = {NewDocument}
    /\ acked = {}

DocTypeOK ==
    /\ memory \in {{}} \cup {{d} : d \in Document}
    /\ disk \in {{}} \cup {{d} : d \in Document}
    /\ saving \in {{}} \cup {{e} : e \in Edit}
    /\ windows \subseteq Ids
    /\ given \subseteq Ids
    /\ durable \in {{}} \cup {{d} : d \in Document}
    /\ acked \subseteq Edit

UiBusy == \E e \in saving : e.by = "ui"

\* The edited document is in memory and the file is truncated; the lock stays.
\* An empty file parses as the default document with next_id put at 1.
BeginSave(doc, edit) ==
    /\ memory' = {doc}
    /\ saving' = {edit}
    /\ disk' = {NewDocument}
    /\ acked' = {}
    /\ UNCHANGED durable

-----------------------------------------------------------------------------
(* The Manager.                                                            *)

\* Mutant: marks and comments are skipped when the file is read.
OpenBare ==
    /\ ~UiBusy
    /\ memory = {}
    /\ memory' =
        {[d EXCEPT !.binaries =
            [b \in DOMAIN d.binaries |-> [comments |-> NoMap, marks |-> {}]]] : d \in disk}
    /\ given' = UNION {DOMAIN d.binaries : d \in disk}
    /\ acked' = {}
    /\ UNCHANGED <<disk, saving, windows, durable>>

\* project_arc: the document already open, or what the file holds; a file
\* that does not parse gives the default document.
OpenProject ==
    /\ ~UiBusy
    /\ memory = {}
    /\ memory' = IF disk = {} THEN {DefaultDocument} ELSE disk
    /\ given' = UNION {DOMAIN d.binaries : d \in disk}
    /\ acked' = {}
    /\ UNCHANGED <<disk, saving, windows, durable>>

\* open_binary: a disassembly window that captures the document and the id.
OpenBinary(id) ==
    /\ "open" \in Edits
    /\ ~UiBusy
    /\ saving = {}
    /\ \E doc \in memory : id \in DOMAIN doc.binaries
    /\ windows' = windows \cup {id}
    /\ acked' = {}
    /\ UNCHANGED <<memory, disk, saving, given, durable>>

CloseBinary(id) ==
    /\ ~UiBusy
    /\ id \in windows
    /\ windows' = windows \ {id}
    /\ acked' = {}
    /\ UNCHANGED <<memory, disk, saving, given, durable>>

-----------------------------------------------------------------------------
(* The edits.                                                              *)

\* The id of a new binary.  Mutants: the id is the number of binaries plus
\* one; next_id is not put right after a default document.
IdByCount(doc) == Cardinality(DOMAIN doc.binaries) + 1

IdAsRead(doc) == doc.next

FreshId(doc) == IF doc.next = 0 THEN 1 ELSE doc.next

\* add_binary, on the thread of the file dialog.  (Beyond the bound MaxId no
\* binary is added; the code's counter saturates at 2^64 - 1.)
AddBinary ==
    /\ "add" \in Edits
    /\ saving = {}
    /\ \E doc \in memory :
          LET id == FreshId(doc) IN
          /\ id <= MaxId
          /\ BeginSave(
                [next |-> id + 1,
                 binaries |-> [b \in DOMAIN doc.binaries \cup {id} |->
                     IF b = id THEN [comments |-> NoMap, marks |-> {}] ELSE doc.binaries[b]]],
                Plain("dialog"))
          /\ given' = given \cup {id}
    /\ UNCHANGED windows

\* remove_binary does not look for windows that show the binary, and saves
\* also when the id is gone already.
RemoveBinary(id) ==
    /\ "remove" \in Edits
    /\ ~UiBusy
    /\ saving = {}
    /\ \E doc \in memory :
          BeginSave(
                [doc EXCEPT !.binaries = [b \in DOMAIN doc.binaries \ {id} |-> doc.binaries[b]]],
                Plain("ui"))
    /\ UNCHANGED <<windows, given>>

\* Mutant: the change goes to a copy.
AnnotateCopy(doc, id, new) == doc

\* A document with the annotations of one binary changed, if it is there.
Annotate(doc, id, new) ==
    IF id \in DOMAIN doc.binaries THEN [doc EXCEPT !.binaries[id] = new] ELSE doc

\* ProjectState::set_comment: an empty text deletes the comment.
Commented(ann, rva, text) ==
    [ann EXCEPT !.comments =
        IF text = "" THEN [x \in DOMAIN @ \ {rva} |-> ann.comments[x]]
                     ELSE [x \in DOMAIN @ \cup {rva} |-> IF x = rva THEN text ELSE ann.comments[x]]]

\* Mutant: the comment stays in memory.
SetCommentUnsaved(id, rva, text) ==
    /\ "comment" \in Edits
    /\ ~UiBusy
    /\ id \in windows
    /\ saving = {}
    /\ \E doc \in memory :
          memory' = {Annotate(doc, id, Commented(doc.binaries[id], rva, text))}
    /\ acked' = {}
    /\ UNCHANGED <<disk, saving, windows, given, durable>>

\* set_comment of a disassembly window.
SetComment(id, rva, text) ==
    /\ "comment" \in Edits
    /\ ~UiBusy
    /\ id \in windows
    /\ saving = {}
    /\ \E doc \in memory :
          BeginSave(
              Annotate(doc, id, Commented(doc.binaries[id], rva, text)),
              [by |-> "ui", id |-> id, rva |-> rva, text |-> text])
    /\ UNCHANGED <<windows, given>>

\* ProjectState::toggle_mark.
Marked(ann, rva) ==
    [ann EXCEPT !.marks = IF rva \in @ THEN @ \ {rva} ELSE @ \cup {rva}]

\* toggle_mark of a disassembly window.
ToggleMark(id, rva) ==
    /\ "mark" \in Edits
    /\ ~UiBusy
    /\ id \in windows
    /\ saving = {}
    /\ \E doc \in memory :
          BeginSave(
              Annotate(doc, id, Marked(doc.binaries[id], rva)),
              Plain("ui"))
    /\ UNCHANGED <<windows, given>>

\* The text is written; the lock is released and the page gets its ok.
SaveDone ==
    /\ saving # {}
    /\ disk' = memory
    /\ durable' = memory
    /\ acked' = saving
    /\ saving' = {}
    /\ UNCHANGED <<memory, windows, given>>

\* The write stops short (no space) and the page gets an error; the document
\* in memory keeps the edit.
SaveFails ==
    /\ "save_error" \in Faults
    /\ saving # {}
    /\ disk' \in {{NewDocument}, {}}
    /\ saving' = {}
    /\ durable' = {}
    /\ acked' = {}
    /\ UNCHANGED <<memory, windows, given>>

-----------------------------------------------------------------------------
\* The process ends.  In the middle of a save the file is empty, cut short, or
\* just complete.
Restart ==
    /\ memory # {}
    /\ "crash_in_save" \in Faults \/ saving = {}
    /\ memory' = {}
    /\ saving' = {}
    /\ windows' = {}
    /\ given' = {}
    /\ IF saving # {}
         THEN /\ disk' \in {{NewDocument}, {}, memory}
              /\ durable' = {}
         ELSE UNCHANGED <<disk, durable>>
    /\ acked' = {}

DocNext ==
    \/ OpenProject \/ AddBinary \/ SaveDone \/ SaveFails
    \/ \E id \in Ids : OpenBinary(id) \/ RemoveBinary(id)
    \/ \E id \in windows :
          \/ CloseBinary(id)
          \/ \E rva \in Rvas :
                \/ ToggleMark(id, rva)
                \/ \E text \in Texts \cup {""} : SetComment(id, rva, text)
    \/ Restart

DocSpec == DocInit /\ [][DocNext]_docVars

-----------------------------------------------------------------------------
(* Properties.                                                             *)

\* An id is given once in the life of a document, so a window that outlives
\* its binary never annotates another one that was added later.
IdsNeverReused ==
    \A d \in memory :
        /\ DOMAIN d.binaries \subseteq given
        /\ \A id \in given : id < FreshId(d)

\* The file is the document whenever no save is under way and the last one
\* was completed: no edit is left in memory only.
FileIsCurrent == memory # {} /\ saving = {} /\ durable # {} => disk = memory

\* "annotations survive across restarts": a project is opened with the
\* binaries and annotations of the last completed save.  (A save that was cut
\* off or failed may leave nothing: the file was truncated first.)
SurvivesRestart ==
    [][memory = {} => \A d \in memory', e \in durable : d.binaries = e.binaries]_docVars

\* "comment/mark edits mutate the captured ProjectState and persist
\* immediately": a comment answered with ok is in the file, in every window
\* whose binary the project still has.
OkMeansStored ==
    \A e \in acked : \A d \in disk :
        e.text \in Texts /\ e.id \in DOMAIN d.binaries =>
            /\ e.rva \in DOMAIN d.binaries[e.id].comments
            /\ d.binaries[e.id].comments[e.rva] = e.text
=============================================================================
