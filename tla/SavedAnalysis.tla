--------------------------- MODULE SavedAnalysis ----------------------------
(***************************************************************************)
(* The decompilation cache on disk: save_decomp_cache and                  *)
(* load_decomp_cache (crates/shell/src/session.rs), save_analysis          *)
(* (crates/shell/src/ipc.rs) and the load step of run_analysis, with       *)
(* several windows of one binary in one process, write errors, crashes,    *)
(* rebuilds of the application and replacement of the binary.              *)
(*                                                                         *)
(* The file has a header (format, engine stamp, size and mtime of the      *)
(* binary, number of records) and one record per function.  fs::write      *)
(* truncates it and then writes a prefix that grows; anything can happen   *)
(* to the process in between, and another window may be reading.  A stamp  *)
(* stands for the version it was taken from: two versions of the binary or *)
(* of the application never share one.  The binary may be replaced at any  *)
(* time, also under the windows that show it.                              *)
(***************************************************************************)
EXTENDS Integers, FiniteSets

CONSTANTS
    Windows,            \* windows of the same binary
    Funcs,              \* its functions
    MaxBinaries,        \* bound: versions of the binary on disk
    MaxBuilds           \* bound: builds of the application

SavedAssumption ==
    /\ MaxBinaries \in Nat \ {0}
    /\ MaxBuilds \in Nat \ {0}

VARIABLES
    binary,    \* the version of the binary at the path
    build,     \* the version of the application (mtime of its executable)
    at,        \* where each window's analysis is
    content,   \* the version of the binary each window's run has read
    cache,     \* decomp_cache of each window
    file,      \* the saved file
    writing,   \* the UI thread is inside a save
    buffer,    \* the buffer of the last save begun: {} or {b}
    mixed,     \* history: windows whose loaded cache crossed a replacement
    mixedSave  \* history: so did the buffer

savedVars == <<binary, build, at, content, cache, file, writing, buffer, mixed, mixedSave>>

\* What a step that neither saves nor loads leaves alone.
saveVars == <<file, writing, buffer, mixedSave>>

Body == [bin : 1..MaxBinaries, app : 1..MaxBuilds]

CacheMaps == UNION {[D -> Body] : D \in SUBSET Funcs}

EmptyMap == [f \in {} |-> 0]

\* A buffer to write, and a file: the header once it is on disk, the records
\* so far.  The header's count is the number of records of the buffer.
Header == [app : 1..MaxBuilds, stamp : 1..MaxBinaries, count : 0..Cardinality(Funcs)]

Buffer == [head : Header, records : CacheMaps]

File == [head : {{}} \cup {{h} : h \in Header}, records : CacheMaps]

NoFile == [head |-> {}, records |-> EmptyMap]

Places == {"closed", "reading", "loading", "loaded", "decompiling"}

SavedTypeOK ==
    /\ binary \in 1..MaxBinaries
    /\ build \in 1..MaxBuilds
    /\ at \in [Windows -> Places]
    /\ content \in [Windows -> 1..MaxBinaries]
    /\ cache \in [Windows -> CacheMaps]
    /\ file \in File
    /\ writing \in BOOLEAN
    /\ buffer \in {{}} \cup {{b} : b \in Buffer}
    /\ mixed \subseteq Windows
    /\ mixedSave \in BOOLEAN

SavedInit ==
    /\ binary = 1
    /\ build = 1
    /\ at = [w \in Windows |-> "closed"]
    /\ content = [w \in Windows |-> 1]
    /\ cache = [w \in Windows |-> EmptyMap]
    /\ file = NoFile
    /\ writing = FALSE
    /\ buffer = {}
    /\ mixed = {}
    /\ mixedSave = FALSE

Open(w) == at[w] # "closed"

Committed(w) == at[w] \in {"loaded", "decompiling"}

-----------------------------------------------------------------------------
(* A window's analysis.                                                    *)

\* A disassembly window is opened on the UI thread and its run started.
OpenWindow(w) ==
    /\ at[w] = "closed"
    /\ ~writing
    /\ at' = [at EXCEPT ![w] = "reading"]
    /\ UNCHANGED <<binary, build, content, cache, mixed, saveVars>>

\* fs::read of the whole binary; everything later is computed from it.
ReadBinary(w) ==
    /\ at[w] = "reading"
    /\ content' = [content EXCEPT ![w] = binary]
    /\ at' = [at EXCEPT ![w] = "loading"]
    /\ UNCHANGED <<binary, build, cache, mixed, saveVars>>

\* Mutants: two of the three checks dropped in turn.
LoadableTorn == \E h \in file.head : h.app = build /\ h.stamp = binary

LoadableAnyBinary ==
    \E h \in file.head : h.app = build /\ Cardinality(DOMAIN file.records) = h.count

\* What load_decomp_cache accepts: a whole header with the stamps of this
\* executable and of the binary now on disk, and as many records as it says.
Loadable ==
    \E h \in file.head :
        /\ h.app = build
        /\ h.stamp = binary
        /\ Cardinality(DOMAIN file.records) = h.count

\* The binary has been replaced since window w read it.
Replaced(w) == content[w] # binary

\* Load the saved cache and commit it; no background pass follows.  The stamp
\* of the path says nothing of the bytes the run has read.
LoadSaved(w) ==
    /\ at[w] = "loading"
    /\ Loadable
    /\ cache' = [cache EXCEPT ![w] = file.records]
    /\ at' = [at EXCEPT ![w] = "loaded"]
    /\ mixed' = IF mixedSave \/ Replaced(w) THEN mixed \cup {w} ELSE mixed
    /\ UNCHANGED <<binary, build, content, saveVars>>

\* Nothing to load: commit with an empty cache and start the pass.
StartFresh(w) ==
    /\ at[w] = "loading"
    /\ ~Loadable
    /\ at' = [at EXCEPT ![w] = "decompiling"]
    /\ UNCHANGED <<binary, build, content, cache, mixed, saveVars>>

\* A body enters the cache, from the pass or, in a window that loaded its
\* cache, from a function the user opens.  save_analysis holds the session
\* lock only for its own window; the UI thread is busy meanwhile.
Cache(w, f) ==
    /\ Committed(w)
    /\ f \notin DOMAIN cache[w]
    /\ cache' = [cache EXCEPT ![w] =
                    [g \in DOMAIN cache[w] \cup {f} |->
                        IF g = f THEN [bin |-> content[w], app |-> build] ELSE cache[w][g]]]
    /\ UNCHANGED <<binary, build, at, content, mixed, saveVars>>

\* The session is dropped with its window.
CloseWindow(w) ==
    /\ Open(w)
    /\ ~writing
    /\ at' = [at EXCEPT ![w] = "closed"]
    /\ content' = [content EXCEPT ![w] = 1]
    /\ cache' = [cache EXCEPT ![w] = EmptyMap]
    /\ mixed' = mixed \ {w}
    /\ UNCHANGED <<binary, build, saveVars>>

-----------------------------------------------------------------------------
(* Ctrl+S.                                                                 *)

\* What a step of the save leaves alone.
windowVars == <<binary, build, at, content, cache, mixed>>

\* The buffer is made from the cache and from the stamps of this moment, the
\* binary's being that of the path now; the file is truncated.
BeginWrite(w) ==
    /\ Open(w)
    /\ ~writing
    /\ writing' = TRUE
    /\ buffer' = {[head |-> [app |-> build, stamp |-> binary, count |-> Cardinality(DOMAIN cache[w])],
                   records |-> cache[w]]}
    /\ mixedSave' = (w \in mixed \/ Replaced(w))
    /\ file' = NoFile
    /\ UNCHANGED windowVars

\* The prefix on disk grows: first the header, then one record at a time.
WriteHeader ==
    /\ writing
    /\ file.head = {}
    /\ file' = [file EXCEPT !.head = {b.head : b \in buffer}]
    /\ UNCHANGED <<windowVars, writing, buffer, mixedSave>>

WriteRecord(f) ==
    \E b \in buffer :
        /\ writing
        /\ file.head # {}
        /\ f \in DOMAIN b.records \ DOMAIN file.records
        /\ file' = [file EXCEPT !.records =
                        [g \in DOMAIN file.records \cup {f} |-> b.records[g]]]
        /\ UNCHANGED <<windowVars, writing, buffer, mixedSave>>

\* All is written, and the reply is sent; or the write fails (no space), and
\* the reply says so.
EndWrite ==
    /\ writing
    /\ file.head # {} /\ \A b \in buffer : DOMAIN file.records = DOMAIN b.records
    /\ writing' = FALSE
    /\ UNCHANGED <<windowVars, file, buffer, mixedSave>>

WriteFails ==
    /\ writing
    /\ writing' = FALSE
    /\ UNCHANGED <<windowVars, file, buffer, mixedSave>>

-----------------------------------------------------------------------------
(* The world around.                                                       *)

\* The process dies, or is quit: the windows are gone, the file stays as far
\* as it was written.
Crash ==
    /\ \E w \in Windows : Open(w)
    /\ at' = [w \in Windows |-> "closed"]
    /\ content' = [w \in Windows |-> 1]
    /\ cache' = [w \in Windows |-> EmptyMap]
    /\ mixed' = {}
    /\ writing' = FALSE
    /\ UNCHANGED <<binary, build, file, buffer, mixedSave>>

\* The application is rebuilt while it does not run.
Rebuild ==
    /\ build < MaxBuilds
    /\ \A w \in Windows : ~Open(w)
    /\ build' = build + 1
    /\ UNCHANGED <<binary, at, content, cache, mixed, saveVars>>

\* The binary at the path is replaced, by a linker for instance.
ReplaceBinary ==
    /\ binary < MaxBinaries
    /\ binary' = binary + 1
    /\ UNCHANGED <<build, at, content, cache, mixed, saveVars>>

Analysis(w) ==
    ReadBinary(w) \/ LoadSaved(w) \/ StartFresh(w) \/ \E f \in Funcs : Cache(w, f)

WriteFile == WriteHeader \/ (\E f \in Funcs : WriteRecord(f)) \/ EndWrite

SavedNext ==
    \/ \E w \in Windows : OpenWindow(w) \/ Analysis(w) \/ CloseWindow(w) \/ BeginWrite(w)
    \/ WriteFile \/ WriteFails
    \/ Crash \/ Rebuild \/ ReplaceBinary

SavedSpec == SavedInit /\ [][SavedNext]_savedVars

-----------------------------------------------------------------------------
(* Properties.                                                             *)

\* A file whose write was cut short, or is under way in another window, is
\* never taken for a saved analysis: what load_decomp_cache returns is, record
\* for record, the cache the last save was given.
LoadedWhole ==
    [][\A w \in Windows :
         at[w] = "loading" /\ at'[w] = "loaded"
         => buffer # {} /\ \A b \in buffer : cache'[w] = b.records]_savedVars

\* The bodies of a window come from the running build and from the bytes its
\* analysis read, unless they were loaded across a replacement: the binary was
\* replaced between a run's fs::read and the bin_stamp of its save or its load.
OwnBytes ==
    \A w \in Windows : Committed(w) =>
        \A f \in DOMAIN cache[w] :
            cache[w][f].app = build /\ (w \notin mixed => cache[w][f].bin = content[w])

\* What the comment of analysis_cache_path says, and the code does not do:
\* "validated on load against the binary's size + mtime so a changed binary
\* is re-analyzed, never stale".  A window's bodies come from the bytes its
\* analysis read.
NeverStale ==
    \A w \in Windows : Committed(w) =>
        \A f \in DOMAIN cache[w] : cache[w][f].bin = content[w]
=============================================================================
