----------------------------- MODULE StoresProofs -----------------------------
(***************************************************************************)
(* What outlives or crosses a window: the saved decompilation cache        *)
(* (SavedAnalysis), the project file (Project), the messages between a     *)
(* page and the host (Ipc) and the annotations with their sidecar file     *)
(* (Annotations).  The four share no state; each has its inductive         *)
(* invariant and its theorems in a part of its own.                        *)
(***************************************************************************)
EXTENDS SavedAnalysis, Project, Ipc, Annotations, FiniteSetTheorems, WellFoundedInduction, TLAPS

-----------------------------------------------------------------------------
(***************************************************************************)
(* The saved cache, for every set of windows and functions and any number  *)
(* of builds and versions, with replacements of the binary at any time:    *)
(* what is loaded is what was saved, and a body comes from the running     *)
(* engine and from the bytes the window has read, unless a replacement     *)
(* came between a run's reading of the binary and a stamp.                 *)
(***************************************************************************)
\* A binary has finitely many functions.
FiniteBinary == IsFiniteSet(Funcs)

\* All bodies of a map are of one build, or also of one version of the binary.
BuiltBy(map, engine) == \A f \in DOMAIN map : map[f].app = engine

ReadFrom(map, version) == \A f \in DOMAIN map : map[f].bin = version

\* Until a run commits, its window has no bodies and has loaded nothing.
EmptyWhileReading == \A w \in Windows : ~Committed(w) => cache[w] = EmptyMap /\ w \notin mixed

BodiesAreOwn ==
    \A w \in Windows :
        Committed(w) => BuiltBy(cache[w], build) /\ (w \notin mixed => ReadFrom(cache[w], content[w]))

\* The header of a buffer is true of its records, its stamp as far as no
\* replacement came before the save.
BufferIsTrue ==
    \A b \in buffer :
        /\ b.head.count = Cardinality(DOMAIN b.records)
        /\ BuiltBy(b.records, b.head.app)
        /\ ~mixedSave => ReadFrom(b.records, b.head.stamp)

\* The file is a prefix of the last buffer: no record before the header.
FileIsPrefix ==
    /\ file.head \subseteq {b.head : b \in buffer}
    /\ file.head = {} => DOMAIN file.records = {}
    /\ \A b \in buffer :
          \A f \in DOMAIN file.records : f \in DOMAIN b.records /\ file.records[f] = b.records[f]

SavedInv ==
    /\ SavedTypeOK
    /\ EmptyWhileReading
    /\ BodiesAreOwn
    /\ BufferIsTrue
    /\ FileIsPrefix

-----------------------------------------------------------------------------
(* Maps of bodies.                                                         *)

LEMMA EmptyIsMap == EmptyMap \in CacheMaps /\ DOMAIN EmptyMap = {}
<1>1. EmptyMap \in [{} -> Body] /\ DOMAIN EmptyMap = {}
  BY DEF EmptyMap
<1>2. QED
  BY <1>1 DEF CacheMaps

LEMMA EmptyIsAll == \A v : BuiltBy(EmptyMap, v) /\ ReadFrom(EmptyMap, v)
BY EmptyIsMap DEF BuiltBy, ReadFrom

LEMMA MapDomain ==
    ASSUME NEW m \in CacheMaps
    PROVE  DOMAIN m \subseteq Funcs /\ m \in [DOMAIN m -> Body]
BY DEF CacheMaps

LEMMA MapMade ==
    ASSUME NEW D \in SUBSET Funcs, NEW m \in [D -> Body]
    PROVE  m \in CacheMaps
BY DEF CacheMaps

LEMMA MapCount ==
    ASSUME FiniteBinary, NEW m \in CacheMaps
    PROVE  /\ IsFiniteSet(DOMAIN m)
           /\ Cardinality(DOMAIN m) \in 0..Cardinality(Funcs)
<1>1. DOMAIN m \subseteq Funcs
  BY MapDomain
<1>2. IsFiniteSet(DOMAIN m) /\ Cardinality(DOMAIN m) <= Cardinality(Funcs)
  BY <1>1, FS_Subset DEF FiniteBinary
<1>3. Cardinality(DOMAIN m) \in Nat /\ Cardinality(Funcs) \in Nat
  BY <1>2, FS_CardinalityType DEF FiniteBinary
<1>4. QED
  BY <1>2, <1>3

\* Two maps are equal when one extends the other by nothing.
LEMMA MapsEqual ==
    ASSUME NEW m \in CacheMaps, NEW n \in CacheMaps, DOMAIN m = DOMAIN n,
           \A f \in DOMAIN m : m[f] = n[f]
    PROVE  m = n
<1>1. m = [f \in DOMAIN m |-> m[f]] /\ n = [f \in DOMAIN n |-> n[f]]
  BY MapDomain
<1>2. QED
  BY <1>1

\* A file is a header, if any, and its records.
LEMMA FileParts ==
    ASSUME SavedInv
    PROVE  /\ file = [head |-> file.head, records |-> file.records]
           /\ file.head = {} \/ \E h \in Header : file.head = {h}
           /\ file.records \in CacheMaps
BY DEF SavedInv, SavedTypeOK, File

LEMMA NoFileIsFile ==
    /\ NoFile \in File
    /\ NoFile.head = {} /\ DOMAIN NoFile.records = {}
BY EmptyIsMap DEF NoFile, File

\* A file that load_decomp_cache accepts is the whole of the last buffer, with
\* the stamps of this build and of the binary at the path.
LEMMA LoadableIsWhole ==
    ASSUME SavedInv, FiniteBinary, Loadable
    PROVE  \E b \in Buffer : /\ buffer = {b} /\ file.records = b.records
                             /\ b.head.app = build /\ b.head.stamp = binary
<1>1. PICK h \in file.head : /\ h.app = build /\ h.stamp = binary
                             /\ Cardinality(DOMAIN file.records) = h.count
  BY DEF Loadable
<1>2. PICK b \in buffer : h = b.head
  BY <1>1 DEF SavedInv, FileIsPrefix
<1>3. b \in Buffer /\ buffer = {b} /\ b.records \in CacheMaps
  BY <1>2 DEF SavedInv, SavedTypeOK, Buffer
<1>4. file.records \in CacheMaps /\ \A f \in DOMAIN file.records :
                                       f \in DOMAIN b.records /\ file.records[f] = b.records[f]
  BY <1>2, FileParts DEF SavedInv, FileIsPrefix
<1>5. Cardinality(DOMAIN file.records) = Cardinality(DOMAIN b.records)
  BY <1>1, <1>2 DEF SavedInv, BufferIsTrue
<1>6. IsFiniteSet(DOMAIN b.records) /\ DOMAIN file.records \subseteq DOMAIN b.records
  BY <1>3, <1>4, MapCount
<1>7. DOMAIN file.records = DOMAIN b.records
  BY <1>5, <1>6, FS_Subset
<1>8. file.records = b.records
  BY <1>3, <1>4, <1>7, MapsEqual
<1>9. QED
  BY <1>1, <1>2, <1>3, <1>8

-----------------------------------------------------------------------------
(* The steps.                                                              *)

LEMMA InitEstablishesSaved ==
    ASSUME SavedAssumption, SavedInit
    PROVE  SavedInv
<1>1. 1 \in 1..MaxBinaries /\ 1 \in 1..MaxBuilds
  BY DEF SavedAssumption
<1>2. SavedTypeOK
  BY <1>1, EmptyIsMap, NoFileIsFile DEF SavedInit, SavedTypeOK, Places
<1>3. \A w \in Windows : at[w] = "closed" /\ cache[w] = EmptyMap /\ w \notin mixed
  BY DEF SavedInit
<1>4. FileIsPrefix /\ BufferIsTrue
  BY NoFileIsFile DEF SavedInit, FileIsPrefix, BufferIsTrue
<1>5. QED
  BY <1>2, <1>3, <1>4 DEF SavedInv, EmptyWhileReading, BodiesAreOwn, Committed

\* A step of a window leaves the file and the save alone.
LEMMA FileUnchanged ==
    ASSUME SavedInv, UNCHANGED saveVars
    PROVE  BufferIsTrue' /\ FileIsPrefix'
BY DEF SavedInv, BufferIsTrue, FileIsPrefix, saveVars

\* A step of the save leaves the windows alone.
LEMMA WindowsUnchanged ==
    ASSUME SavedInv, UNCHANGED windowVars
    PROVE  EmptyWhileReading' /\ BodiesAreOwn'
BY DEF SavedInv, EmptyWhileReading, BodiesAreOwn, Committed, windowVars

LEMMA OpenWindowKeeps ==
    ASSUME SavedInv, NEW w \in Windows, OpenWindow(w)
    PROVE  SavedInv'
<1>1. SavedTypeOK'
  BY DEF OpenWindow, SavedInv, SavedTypeOK, Places, saveVars
<1>2. \A v \in Windows : IF v = w THEN at[v] = "closed" /\ at'[v] = "reading" ELSE at'[v] = at[v]
  BY DEF OpenWindow, SavedInv, SavedTypeOK
<1>3. UNCHANGED <<binary, build, content, cache, mixed, saveVars>>
  BY DEF OpenWindow
<1>4. EmptyWhileReading' /\ BodiesAreOwn'
  BY <1>2, <1>3 DEF SavedInv, EmptyWhileReading, BodiesAreOwn, Committed
<1>5. QED
  BY <1>1, <1>3, <1>4, FileUnchanged DEF SavedInv

LEMMA ReadBinaryKeeps ==
    ASSUME SavedInv, NEW w \in Windows, ReadBinary(w)
    PROVE  SavedInv'
<1>1. SavedTypeOK'
  BY DEF ReadBinary, SavedInv, SavedTypeOK, Places, saveVars
<1>2. \A v \in Windows : IF v = w THEN at[v] = "reading" /\ at'[v] = "loading"
                         ELSE at'[v] = at[v] /\ content'[v] = content[v]
  BY DEF ReadBinary, SavedInv, SavedTypeOK
<1>3. UNCHANGED <<binary, build, cache, mixed, saveVars>>
  BY DEF ReadBinary
<1>4. EmptyWhileReading' /\ BodiesAreOwn'
  BY <1>2, <1>3 DEF SavedInv, EmptyWhileReading, BodiesAreOwn, Committed
<1>5. QED
  BY <1>1, <1>3, <1>4, FileUnchanged DEF SavedInv

LEMMA LoadSavedKeeps ==
    ASSUME SavedInv, FiniteBinary, NEW w \in Windows, LoadSaved(w)
    PROVE  SavedInv'
<1>1. PICK b \in Buffer : /\ buffer = {b} /\ file.records = b.records
                          /\ b.head.app = build /\ b.head.stamp = binary
  BY LoadableIsWhole DEF LoadSaved
<1>2. /\ at[w] = "loading" /\ at' = [at EXCEPT ![w] = "loaded"]
      /\ cache' = [cache EXCEPT ![w] = file.records]
      /\ mixed' = IF mixedSave \/ Replaced(w) THEN mixed \cup {w} ELSE mixed
      /\ UNCHANGED <<binary, build, content, saveVars>>
  BY DEF LoadSaved
<1>3. SavedTypeOK'
  BY <1>2, FileParts DEF SavedInv, SavedTypeOK, Places, saveVars
<1>4. \A v \in Windows :
        IF v = w THEN at'[v] = "loaded" /\ cache'[v] = file.records
        ELSE at'[v] = at[v] /\ cache'[v] = cache[v] /\ (v \in mixed' <=> v \in mixed)
  BY <1>2 DEF SavedInv, SavedTypeOK
<1>5. EmptyWhileReading'
  BY <1>4 DEF SavedInv, EmptyWhileReading, Committed
<1>6. BuiltBy(file.records, build)
  BY <1>1 DEF SavedInv, BufferIsTrue
<1>7. w \notin mixed' => ReadFrom(file.records, content[w])
  BY <1>1, <1>2 DEF SavedInv, BufferIsTrue, Replaced
<1>8. BodiesAreOwn'
  BY <1>2, <1>4, <1>6, <1>7 DEF SavedInv, BodiesAreOwn, Committed
<1>9. QED
  BY <1>2, <1>3, <1>5, <1>8, FileUnchanged DEF SavedInv

LEMMA StartFreshKeeps ==
    ASSUME SavedInv, NEW w \in Windows, StartFresh(w)
    PROVE  SavedInv'
<1>1. SavedTypeOK'
  BY DEF StartFresh, SavedInv, SavedTypeOK, Places, saveVars
<1>2. \A v \in Windows : IF v = w THEN at[v] = "loading" /\ at'[v] = "decompiling"
                         ELSE at'[v] = at[v]
  BY DEF StartFresh, SavedInv, SavedTypeOK
<1>3. UNCHANGED <<binary, build, content, cache, mixed, saveVars>>
  BY DEF StartFresh
<1>4. cache[w] = EmptyMap
  BY <1>2 DEF SavedInv, EmptyWhileReading, Committed
<1>5. EmptyWhileReading'
  BY <1>2, <1>3 DEF SavedInv, EmptyWhileReading, Committed
<1>6. BodiesAreOwn'
  BY <1>2, <1>3, <1>4, EmptyIsAll DEF SavedInv, BodiesAreOwn, Committed
<1>7. QED
  BY <1>1, <1>3, <1>5, <1>6, FileUnchanged DEF SavedInv

LEMMA CacheKeeps ==
    ASSUME SavedInv, NEW w \in Windows, NEW f \in Funcs, Cache(w, f)
    PROVE  SavedInv'
<1> DEFINE body == [bin |-> content[w], app |-> build]
           map == [g \in DOMAIN cache[w] \cup {f} |-> IF g = f THEN body ELSE cache[w][g]]
<1>1. /\ Committed(w)
      /\ cache' = [cache EXCEPT ![w] = map]
      /\ UNCHANGED <<binary, build, at, content, mixed, saveVars>>
  BY DEF Cache
<1>2. cache[w] \in CacheMaps
  BY DEF SavedInv, SavedTypeOK
<1>3. body \in Body /\ body.bin = content[w] /\ body.app = build
  BY DEF SavedInv, SavedTypeOK, Body
<1>4. /\ DOMAIN map = DOMAIN cache[w] \cup {f}
      /\ \A g \in DOMAIN map : map[g] = IF g = f THEN body ELSE cache[w][g]
  OBVIOUS
<1>5. map \in CacheMaps
  <2>1. DOMAIN cache[w] \cup {f} \in SUBSET Funcs
    BY <1>2, MapDomain
  <2>2. \A g \in DOMAIN cache[w] : cache[w][g] \in Body
    BY <1>2, MapDomain
  <2>3. map \in [DOMAIN cache[w] \cup {f} -> Body]
    BY <1>3, <2>2
  <2> HIDE DEF map
  <2>4. QED
    BY <2>1, <2>3, MapMade
<1>6. BuiltBy(map, build) /\ (w \notin mixed => ReadFrom(map, content[w]))
  <2>1. BuiltBy(cache[w], build) /\ (w \notin mixed => ReadFrom(cache[w], content[w]))
    BY <1>1 DEF SavedInv, BodiesAreOwn
  <2> HIDE DEF map, body
  <2>2. QED
    BY <1>3, <1>4, <2>1 DEF BuiltBy, ReadFrom
<1> HIDE DEF map, body
<1>7. SavedTypeOK'
  BY <1>1, <1>5 DEF SavedInv, SavedTypeOK, saveVars
<1>8. \A v \in Windows : cache'[v] = IF v = w THEN map ELSE cache[v]
  BY <1>1 DEF SavedInv, SavedTypeOK
<1>9. EmptyWhileReading'
  BY <1>1, <1>8 DEF SavedInv, EmptyWhileReading, Committed
<1>10. BodiesAreOwn'
  BY <1>1, <1>6, <1>8 DEF SavedInv, BodiesAreOwn, Committed
<1>11. QED
  BY <1>1, <1>7, <1>9, <1>10, FileUnchanged DEF SavedInv

LEMMA CloseWindowKeeps ==
    ASSUME SavedAssumption, SavedInv, NEW w \in Windows, CloseWindow(w)
    PROVE  SavedInv'
<1>1. 1 \in 1..MaxBinaries
  BY DEF SavedAssumption
<1>2. SavedTypeOK'
  BY <1>1, EmptyIsMap DEF CloseWindow, SavedInv, SavedTypeOK, Places, saveVars
<1>3. \A v \in Windows :
        IF v = w THEN at'[v] = "closed" /\ cache'[v] = EmptyMap /\ v \notin mixed'
        ELSE /\ at'[v] = at[v] /\ cache'[v] = cache[v] /\ content'[v] = content[v]
             /\ v \in mixed' <=> v \in mixed
  BY DEF CloseWindow, SavedInv, SavedTypeOK
<1>4. UNCHANGED <<binary, build, saveVars>>
  BY DEF CloseWindow
<1>5. EmptyWhileReading' /\ BodiesAreOwn'
  BY <1>3, <1>4 DEF SavedInv, EmptyWhileReading, BodiesAreOwn, Committed
<1>6. QED
  BY <1>2, <1>4, <1>5, FileUnchanged DEF SavedInv

LEMMA BeginWriteKeeps ==
    ASSUME SavedInv, FiniteBinary, NEW w \in Windows, BeginWrite(w)
    PROVE  SavedInv'
<1> DEFINE head == [app |-> build, stamp |-> binary, count |-> Cardinality(DOMAIN cache[w])]
           b == [head |-> head, records |-> cache[w]]
<1>1. /\ writing' = TRUE /\ buffer' = {b} /\ file' = NoFile
      /\ mixedSave' = (w \in mixed \/ Replaced(w))
      /\ UNCHANGED windowVars
  BY DEF BeginWrite
<1>2. cache[w] \in CacheMaps /\ Cardinality(DOMAIN cache[w]) \in 0..Cardinality(Funcs)
  BY MapCount DEF SavedInv, SavedTypeOK
<1>3. head \in Header
  BY <1>2 DEF Header, SavedInv, SavedTypeOK
<1>4. b \in Buffer /\ b.head = head /\ b.records = cache[w]
  BY <1>2, <1>3 DEF Buffer
<1>5. head.count = Cardinality(DOMAIN cache[w]) /\ head.app = build /\ head.stamp = binary
  OBVIOUS
<1>6. BuiltBy(cache[w], build) /\ (w \notin mixed /\ ~Replaced(w) => ReadFrom(cache[w], binary))
  BY EmptyIsAll DEF SavedInv, EmptyWhileReading, BodiesAreOwn, Replaced
<1> HIDE DEF head, b
<1>7. BufferIsTrue'
  BY <1>1, <1>4, <1>5, <1>6 DEF BufferIsTrue
<1>8. FileIsPrefix'
  BY <1>1, NoFileIsFile DEF FileIsPrefix
<1>9. SavedTypeOK'
  BY <1>1, <1>4, NoFileIsFile DEF SavedInv, SavedTypeOK, windowVars
<1>10. QED
  BY <1>1, <1>7, <1>8, <1>9, WindowsUnchanged DEF SavedInv

LEMMA WriteHeaderKeeps ==
    ASSUME SavedInv, WriteHeader
    PROVE  SavedInv'
<1>1. /\ file' = [file EXCEPT !.head = {b.head : b \in buffer}]
      /\ UNCHANGED <<windowVars, writing, buffer, mixedSave>>
  BY DEF WriteHeader
<1>2. /\ file' = [head |-> {b.head : b \in buffer}, records |-> file.records]
      /\ file'.head = {b.head : b \in buffer} /\ file'.records = file.records
  BY <1>1, FileParts
<1>3. {b.head : b \in buffer} \in {{}} \cup {{h} : h \in Header}
  BY DEF SavedInv, SavedTypeOK, Buffer
<1>4. file' \in File
  BY <1>2, <1>3, FileParts DEF File
<1>5. SavedTypeOK'
  BY <1>1, <1>4 DEF SavedInv, SavedTypeOK, windowVars
<1>6. DOMAIN file.records = {}
  BY DEF WriteHeader, SavedInv, FileIsPrefix
<1>7. FileIsPrefix'
  BY <1>1, <1>2, <1>6 DEF FileIsPrefix
<1>8. BufferIsTrue'
  BY <1>1 DEF SavedInv, BufferIsTrue
<1>9. QED
  BY <1>1, <1>5, <1>7, <1>8, WindowsUnchanged DEF SavedInv

LEMMA WriteRecordKeeps ==
    ASSUME SavedInv, NEW f \in Funcs, WriteRecord(f)
    PROVE  SavedInv'
<1>1. PICK b \in buffer :
        /\ file.head # {}
        /\ f \in DOMAIN b.records \ DOMAIN file.records
        /\ file' = [file EXCEPT !.records = [g \in DOMAIN file.records \cup {f} |-> b.records[g]]]
        /\ UNCHANGED <<windowVars, writing, buffer, mixedSave>>
  BY DEF WriteRecord
<1> DEFINE map == [g \in DOMAIN file.records \cup {f} |-> b.records[g]]
<1>2. file' = [head |-> file.head, records |-> map]
  BY <1>1, FileParts
<1>3. b.records \in CacheMaps /\ buffer = {b}
  BY <1>1 DEF SavedInv, SavedTypeOK, Buffer
<1>4. /\ file'.head = file.head /\ file'.records = map
      /\ DOMAIN map = DOMAIN file.records \cup {f}
      /\ \A g \in DOMAIN map : map[g] = b.records[g]
  BY <1>2
<1>5. \A g \in DOMAIN map : g \in DOMAIN b.records
  BY <1>1 DEF SavedInv, FileIsPrefix
<1>6. map \in CacheMaps
  <2>1. DOMAIN file.records \cup {f} \in SUBSET Funcs
    BY FileParts, MapDomain
  <2>2. \A g \in DOMAIN file.records \cup {f} : b.records[g] \in Body
    BY <1>3, <1>5, MapDomain
  <2>3. map \in [DOMAIN file.records \cup {f} -> Body]
    BY <2>2
  <2> HIDE DEF map
  <2>4. QED
    BY <2>1, <2>3, MapMade
<1> HIDE DEF map
<1>7. file' \in File
  BY <1>2, <1>6, FileParts DEF File
<1>8. SavedTypeOK'
  BY <1>1, <1>7 DEF SavedInv, SavedTypeOK, windowVars
<1>9. FileIsPrefix'
  BY <1>1, <1>3, <1>4, <1>5 DEF SavedInv, FileIsPrefix
<1>10. BufferIsTrue'
  BY <1>1 DEF SavedInv, BufferIsTrue
<1>11. QED
  BY <1>1, <1>8, <1>9, <1>10, WindowsUnchanged DEF SavedInv

\* The save ends, well or not: the file stays as far as it was written.
LEMMA SaveOver ==
    ASSUME SavedInv, UNCHANGED <<file, buffer, mixedSave>>
    PROVE  BufferIsTrue' /\ FileIsPrefix'
BY DEF SavedInv, BufferIsTrue, FileIsPrefix

LEMMA SaveEndsKeeps ==
    ASSUME SavedInv, EndWrite \/ WriteFails
    PROVE  SavedInv'
<1>1. writing' = FALSE /\ UNCHANGED <<windowVars, file, buffer, mixedSave>>
  BY DEF EndWrite, WriteFails
<1>2. SavedTypeOK'
  BY <1>1 DEF SavedInv, SavedTypeOK, windowVars
<1>3. QED
  BY <1>1, <1>2, SaveOver, WindowsUnchanged DEF SavedInv

LEMMA CrashKeeps ==
    ASSUME SavedAssumption, SavedInv, Crash
    PROVE  SavedInv'
<1>1. /\ at' = [w \in Windows |-> "closed"] /\ content' = [w \in Windows |-> 1]
      /\ cache' = [w \in Windows |-> EmptyMap] /\ mixed' = {} /\ writing' = FALSE
      /\ UNCHANGED <<binary, build, file, buffer, mixedSave>>
  BY DEF Crash
<1>2. 1 \in 1..MaxBinaries
  BY DEF SavedAssumption
<1>3. SavedTypeOK'
  BY <1>1, <1>2, EmptyIsMap DEF SavedInv, SavedTypeOK, Places
<1>4. EmptyWhileReading' /\ BodiesAreOwn'
  BY <1>1 DEF EmptyWhileReading, BodiesAreOwn, Committed
<1>5. QED
  BY <1>1, <1>3, <1>4, SaveOver DEF SavedInv

LEMMA RebuildKeeps ==
    ASSUME SavedAssumption, SavedInv, Rebuild
    PROVE  SavedInv'
<1>1. UNCHANGED <<binary, at, content, cache, mixed, saveVars>>
  BY DEF Rebuild
<1>2. build' \in 1..MaxBuilds
  BY DEF Rebuild, SavedInv, SavedTypeOK, SavedAssumption
<1>3. SavedTypeOK'
  BY <1>1, <1>2 DEF SavedInv, SavedTypeOK, saveVars
<1>4. \A w \in Windows : at'[w] = "closed"
  BY <1>1 DEF Rebuild, Open
<1>5. EmptyWhileReading' /\ BodiesAreOwn'
  BY <1>1, <1>4 DEF SavedInv, EmptyWhileReading, BodiesAreOwn, Committed
<1>6. QED
  BY <1>1, <1>3, <1>5, FileUnchanged DEF SavedInv

LEMMA ReplaceBinaryKeeps ==
    ASSUME SavedAssumption, SavedInv, ReplaceBinary
    PROVE  SavedInv'
<1>1. UNCHANGED <<build, at, content, cache, mixed, saveVars>>
  BY DEF ReplaceBinary
<1>2. binary' \in 1..MaxBinaries
  BY DEF ReplaceBinary, SavedInv, SavedTypeOK, SavedAssumption
<1>3. SavedTypeOK'
  BY <1>1, <1>2 DEF SavedInv, SavedTypeOK, saveVars
<1>4. EmptyWhileReading' /\ BodiesAreOwn'
  BY <1>1 DEF SavedInv, EmptyWhileReading, BodiesAreOwn, Committed
<1>5. QED
  BY <1>1, <1>3, <1>4, FileUnchanged DEF SavedInv

LEMMA StepKeepsSaved ==
    ASSUME SavedAssumption, FiniteBinary, SavedInv, [SavedNext]_savedVars
    PROVE  SavedInv'
<1>1. CASE \E w \in Windows : OpenWindow(w)
  BY <1>1, OpenWindowKeeps
<1>2. CASE \E w \in Windows : Analysis(w)
  BY <1>2, ReadBinaryKeeps, LoadSavedKeeps, StartFreshKeeps, CacheKeeps DEF Analysis
<1>3. CASE \E w \in Windows : CloseWindow(w)
  BY <1>3, CloseWindowKeeps
<1>4. CASE \E w \in Windows : BeginWrite(w)
  BY <1>4, BeginWriteKeeps
<1>5. CASE WriteFile
  BY <1>5, WriteHeaderKeeps, WriteRecordKeeps, SaveEndsKeeps DEF WriteFile
<1>6. CASE WriteFails
  BY <1>6, SaveEndsKeeps
<1>7. CASE Crash
  BY <1>7, CrashKeeps
<1>8. CASE Rebuild
  BY <1>8, RebuildKeeps
<1>9. CASE ReplaceBinary
  BY <1>9, ReplaceBinaryKeeps
<1>10. CASE UNCHANGED savedVars
  <2>1. UNCHANGED <<windowVars, saveVars>>
    BY <1>10 DEF savedVars, windowVars, saveVars
  <2>2. SavedTypeOK'
    BY <1>10 DEF savedVars, SavedInv, SavedTypeOK
  <2>3. QED
    BY <2>1, <2>2, FileUnchanged, WindowsUnchanged DEF SavedInv
<1>11. QED
  BY <1>1, <1>2, <1>3, <1>4, <1>5, <1>6, <1>7, <1>8, <1>9, <1>10 DEF SavedNext

-----------------------------------------------------------------------------
(* The theorems.                                                           *)

\* Whatever the windows, the saves, the faults, the rebuilds and the
\* replacements do, the file is a prefix of the last buffer, a buffer is true
\* of what it was made from, and the caches are of this build.
THEOREM SavedInvariant ==
    ASSUME SavedAssumption, FiniteBinary
    PROVE  SavedSpec => []SavedInv
<1>1. SavedInit => SavedInv
  BY InitEstablishesSaved
<1>2. SavedInv /\ [SavedNext]_savedVars => SavedInv'
  BY StepKeepsSaved
<1>3. QED
  BY <1>1, <1>2, PTL DEF SavedSpec

\* The bodies of a window come from the running engine and, unless they were
\* loaded across a replacement of the binary, from the bytes its analysis has
\* read (bin_stamp and engine_ver of load_decomp_cache).
THEOREM OwnBytesHolds ==
    ASSUME SavedAssumption, FiniteBinary
    PROVE  SavedSpec => []OwnBytes
<1>1. SavedInv => OwnBytes
  BY DEF SavedInv, BodiesAreOwn, BuiltBy, ReadFrom, OwnBytes
<1>2. QED
  BY <1>1, SavedInvariant, PTL

\* A torn file is never taken for a saved analysis: what is loaded is, record
\* for record, what the last save was given.
THEOREM LoadedWholeHolds ==
    ASSUME SavedAssumption, FiniteBinary
    PROVE  SavedSpec => LoadedWhole
<1> DEFINE Whole == \A w \in Windows :
                      at[w] = "loading" /\ at'[w] = "loaded"
                      => buffer # {} /\ \A b \in buffer : cache'[w] = b.records
<1>1. ASSUME SavedInv, [SavedNext]_savedVars, NEW w \in Windows,
             at[w] = "loading", at'[w] = "loaded"
      PROVE  buffer # {} /\ \A b \in buffer : cache'[w] = b.records
  <2>1. LoadSaved(w)
    <3>1. at' # at
      BY <1>1
    <3>2. PICK v \in Windows : OpenWindow(v) \/ ReadBinary(v) \/ LoadSaved(v) \/ StartFresh(v)
                                 \/ CloseWindow(v) \/ Crash
      BY <1>1, <3>1 DEF SavedNext, Analysis, WriteFile, Cache, BeginWrite, WriteHeader, WriteRecord,
                        EndWrite, WriteFails, Rebuild, ReplaceBinary, savedVars, windowVars
    <3>3. at \in [Windows -> Places]
      BY <1>1 DEF SavedInv, SavedTypeOK
    <3>4. QED
      BY <1>1, <3>2, <3>3 DEF OpenWindow, ReadBinary, LoadSaved, StartFresh, CloseWindow, Crash
  <2>2. cache'[w] = file.records
    BY <1>1, <2>1 DEF LoadSaved, SavedInv, SavedTypeOK
  <2>3. QED
    BY <1>1, <2>1, <2>2, LoadableIsWhole DEF LoadSaved
<1>2. SavedInv /\ [SavedNext]_savedVars => Whole
  BY <1>1
<1>3. SavedInv /\ [SavedNext]_savedVars => [Whole]_savedVars
  BY <1>2
<1>4. QED
  BY <1>3, SavedInvariant, PTL DEF SavedSpec, LoadedWhole

-----------------------------------------------------------------------------
(***************************************************************************)
(* What a .dsproj file promises, for every set of addresses, texts, edits  *)
(* and faults: the file is the document after every completed save, a      *)
(* restart loses nothing of it, and no binary gets the id of another one.  *)
(***************************************************************************)
\* The texts a comment can have are neither empty nor the mark of an edit
\* that is no comment.
TextsAreTexts == "" \notin Texts /\ "none" \notin Texts

\* The ids of a document are below the next one it gives.
Numbered(d) == \A id \in DOMAIN d.binaries : id < FreshId(d)

\* Between saves nothing is left in memory only.
NothingUnsaved ==
    saving = {} /\ durable # {} =>
        /\ disk = durable
        /\ memory # {} => memory = disk

\* The document in memory holds the comment that is being saved.
HasComment(d, e) ==
    e.text \in Texts /\ e.id \in DOMAIN d.binaries =>
        /\ e.rva \in DOMAIN d.binaries[e.id].comments
        /\ d.binaries[e.id].comments[e.rva] = e.text

ProjectInv ==
    /\ DocTypeOK
    /\ memory = {} => saving = {}
    /\ \A d \in memory \cup disk : Numbered(d)
    /\ IdsNeverReused
    /\ NothingUnsaved
    /\ \A e \in saving, d \in memory : HasComment(d, e)
    /\ OkMeansStored

-----------------------------------------------------------------------------
(* Documents.                                                              *)

LEMMA EmptyDocuments ==
    ASSUME ProjectAssumption
    PROVE  /\ NewDocument \in Document /\ DefaultDocument \in Document
           /\ DOMAIN NewDocument.binaries = {} /\ DOMAIN DefaultDocument.binaries = {}
<1>1. NoMap \in [{} -> Annotations] /\ DOMAIN NoMap = {}
  BY DEF NoMap
<1>2. NoMap \in UNION {[D -> Annotations] : D \in SUBSET Ids}
  BY <1>1
<1>3. 0 \in 0..(MaxId + 1) /\ 1 \in 0..(MaxId + 1)
  BY DEF ProjectAssumption
<1>4. QED
  BY <1>1, <1>2, <1>3 DEF NewDocument, DefaultDocument, Document

LEMMA DocumentParts ==
    ASSUME NEW d \in Document
    PROVE  /\ d = [next |-> d.next, binaries |-> d.binaries]
           /\ d.next \in 0..(MaxId + 1)
           /\ DOMAIN d.binaries \subseteq Ids
           /\ d.binaries \in [DOMAIN d.binaries -> Annotations]
BY DEF Document

LEMMA DocumentMade ==
    ASSUME NEW n \in 0..(MaxId + 1), NEW D \in SUBSET Ids, NEW b \in [D -> Annotations]
    PROVE  [next |-> n, binaries |-> b] \in Document
BY DEF Document

LEMMA CommentsReplaced ==
    ASSUME NEW a, NEW c, NEW m, NEW k, a = [comments |-> c, marks |-> m]
    PROVE  /\ [a EXCEPT !.comments = k] = [comments |-> k, marks |-> m]
           /\ a.comments = c
OBVIOUS

LEMMA CommentMade ==
    ASSUME NEW ann \in Annotations, NEW rva \in Rvas, NEW text \in Texts \cup {""}
    PROVE  /\ Commented(ann, rva, text) \in Annotations
           /\ text # "" => /\ rva \in DOMAIN Commented(ann, rva, text).comments
                           /\ Commented(ann, rva, text).comments[rva] = text
<1> DEFINE C == ann.comments
           K == IF text = "" THEN [x \in DOMAIN C \ {rva} |-> C[x]]
                ELSE [x \in DOMAIN C \cup {rva} |-> IF x = rva THEN text ELSE C[x]]
<1>1. PICK D \in SUBSET Rvas : C \in [D -> Texts]
  BY DEF Annotations
<1>2. ann = [comments |-> C, marks |-> ann.marks] /\ ann.marks \in SUBSET Rvas
  BY DEF Annotations
<1>3. Commented(ann, rva, text) = [comments |-> K, marks |-> ann.marks]
  <2>1. Commented(ann, rva, text) = [ann EXCEPT !.comments = K]
    BY Zenon DEF Commented
  <2> HIDE DEF K, C
  <2>2. [ann EXCEPT !.comments = K] = [comments |-> K, marks |-> ann.marks]
    BY <1>2, CommentsReplaced
  <2>3. QED
    BY <2>1, <2>2
<1>4. \E E \in SUBSET Rvas : K \in [E -> Texts]
  <2>1. CASE text = ""
    <3>1. K \in [D \ {rva} -> Texts]
      BY <1>1, <2>1
    <3>2. QED
      BY <3>1
  <2>2. CASE text # ""
    <3>1. K \in [D \cup {rva} -> Texts]
      BY <1>1, <2>2
    <3>2. QED
      BY <3>1
  <2>3. QED
    BY <2>1, <2>2
<1>5. text # "" => rva \in DOMAIN K /\ K[rva] = text
  OBVIOUS
<1> HIDE DEF K
<1>6. [comments |-> K, marks |-> ann.marks] \in Annotations
  BY <1>2, <1>4 DEF Annotations
<1>7. Commented(ann, rva, text).comments = K
  BY <1>3, CommentsReplaced, Zenon
<1>8. QED
  BY <1>3, <1>5, <1>6, <1>7, Zenon

LEMMA MarkMade ==
    ASSUME NEW ann \in Annotations, NEW rva \in Rvas
    PROVE  Marked(ann, rva) \in Annotations
BY DEF Annotations, Marked

LEMMA Annotated ==
    ASSUME NEW d \in Document, NEW id \in Ids, NEW new,
           id \in DOMAIN d.binaries => new \in Annotations
    PROVE  /\ Annotate(d, id, new) \in Document
           /\ Annotate(d, id, new).next = d.next
           /\ DOMAIN Annotate(d, id, new).binaries = DOMAIN d.binaries
           /\ id \in DOMAIN d.binaries => Annotate(d, id, new).binaries[id] = new
<1>1. CASE id \notin DOMAIN d.binaries
  BY <1>1 DEF Annotate
<1>2. CASE id \in DOMAIN d.binaries
  <2> DEFINE b == [d.binaries EXCEPT ![id] = new]
  <2>1. Annotate(d, id, new) = [next |-> d.next, binaries |-> b]
    BY <1>2, DocumentParts DEF Annotate
  <2>2. b \in [DOMAIN d.binaries -> Annotations] /\ b[id] = new
    BY <1>2, DocumentParts
  <2> HIDE DEF b
  <2>3. QED
    BY <2>1, <2>2, DocumentParts, DocumentMade
<1>3. QED
  BY <1>1, <1>2

LEMMA BinariesReplaced ==
    ASSUME NEW d \in Document, NEW D \in SUBSET Ids, NEW b \in [D -> Annotations]
    PROVE  /\ [d EXCEPT !.binaries = b] \in Document
           /\ [d EXCEPT !.binaries = b].next = d.next
           /\ [d EXCEPT !.binaries = b].binaries = b
<1>1. [d EXCEPT !.binaries = b] = [next |-> d.next, binaries |-> b]
  BY DocumentParts
<1>2. d.next \in 0..(MaxId + 1)
  BY DocumentParts
<1>3. QED
  BY <1>1, <1>2, DocumentMade

LEMMA NextStays ==
    ASSUME NEW d, NEW e, e.next = d.next, DOMAIN e.binaries \subseteq DOMAIN d.binaries
    PROVE  FreshId(e) = FreshId(d) /\ (Numbered(d) => Numbered(e))
BY DEF FreshId, Numbered

-----------------------------------------------------------------------------
(* The invariant.                                                          *)

LEMMA InitEstablishes ==
    ASSUME ProjectAssumption, DocInit
    PROVE  ProjectInv
<1>1. DocTypeOK
  BY EmptyDocuments DEF DocInit, DocTypeOK
<1>2. Numbered(NewDocument)
  BY EmptyDocuments DEF Numbered
<1>3. QED
  BY <1>1, <1>2 DEF DocInit, ProjectInv, IdsNeverReused, NothingUnsaved, OkMeansStored

\* An edit that begins to be saved: a document with the ids of the old one, or
\* with one it has just given.
LEMMA BeginSaveKeeps ==
    ASSUME ProjectAssumption, ProjectInv,
           NEW doc \in Document, NEW edit \in Edit, BeginSave(doc, edit),
           windows' = windows, given' \subseteq Ids,
           DOMAIN doc.binaries \subseteq given', \A id \in given' : id < FreshId(doc),
           HasComment(doc, edit)
    PROVE  ProjectInv'
<1>1. /\ memory' = {doc} /\ saving' = {edit} /\ disk' = {NewDocument}
      /\ acked' = {} /\ durable' = durable
  BY DEF BeginSave
<1>2. DocTypeOK'
  BY <1>1, EmptyDocuments DEF ProjectInv, DocTypeOK
<1>3. Numbered(doc) /\ Numbered(NewDocument)
  BY EmptyDocuments DEF Numbered
<1>4. IdsNeverReused'
  BY <1>1 DEF IdsNeverReused
<1>5. QED
  BY <1>1, <1>2, <1>3, <1>4 DEF ProjectInv, NothingUnsaved, OkMeansStored

\* The same for an edit that keeps the ids.
LEMMA EditKeeps ==
    ASSUME ProjectAssumption, ProjectInv,
           NEW old \in memory, NEW doc \in Document, NEW edit \in Edit, BeginSave(doc, edit),
           windows' = windows, given' = given,
           doc.next = old.next, DOMAIN doc.binaries \subseteq DOMAIN old.binaries,
           HasComment(doc, edit)
    PROVE  ProjectInv'
<1>1. given' \subseteq Ids
  BY DEF ProjectInv, DocTypeOK
<1>2. DOMAIN doc.binaries \subseteq given'
  BY DEF ProjectInv, IdsNeverReused
<1>3. \A id \in given' : id < FreshId(doc)
  BY NextStays DEF ProjectInv, IdsNeverReused
<1>4. QED
  BY <1>1, <1>2, <1>3, BeginSaveKeeps

LEMMA PlainIsEdit ==
    ASSUME ProjectAssumption, TextsAreTexts, NEW thread \in {"ui", "dialog"}, NEW doc
    PROVE  Plain(thread) \in Edit /\ HasComment(doc, Plain(thread))
<1>1. 0 \in 0..MaxId
  BY DEF ProjectAssumption
<1>2. QED
  BY <1>1 DEF Plain, Edit, HasComment, TextsAreTexts

LEMMA AddBinaryKeeps ==
    ASSUME ProjectAssumption, TextsAreTexts, ProjectInv, AddBinary
    PROVE  ProjectInv'
<1>1. PICK doc \in memory :
        LET id == FreshId(doc) IN
        /\ id <= MaxId
        /\ BeginSave(
              [next |-> id + 1,
               binaries |-> [b \in DOMAIN doc.binaries \cup {id} |->
                   IF b = id THEN [comments |-> NoMap, marks |-> {}] ELSE doc.binaries[b]]],
              Plain("dialog"))
        /\ given' = given \cup {id}
  BY DEF AddBinary
<1> DEFINE id == FreshId(doc)
           bins == [b \in DOMAIN doc.binaries \cup {id} |->
                      IF b = id THEN [comments |-> NoMap, marks |-> {}] ELSE doc.binaries[b]]
           new == [next |-> id + 1, binaries |-> bins]
<1>2. doc \in Document
  BY DEF ProjectInv, DocTypeOK
<1>3. id \in Ids /\ id + 1 \in 0..(MaxId + 1) /\ id + 1 # 0
  BY <1>1, <1>2, DocumentParts DEF FreshId, Ids, ProjectAssumption
<1>4. [comments |-> NoMap, marks |-> {}] \in Annotations
  <2>1. NoMap \in [{} -> Texts]
    BY DEF NoMap
  <2>2. NoMap \in UNION {[D -> Texts] : D \in SUBSET Rvas}
    BY <2>1
  <2>3. QED
    BY <2>2 DEF Annotations
<1>5. bins \in [DOMAIN doc.binaries \cup {id} -> Annotations]
  BY <1>2, <1>4, DocumentParts
<1>6. DOMAIN doc.binaries \cup {id} \in SUBSET Ids
  BY <1>2, <1>3, DocumentParts
<1>7. BeginSave(new, Plain("dialog")) /\ given' = given \cup {id}
  BY <1>1
<1>8. \A g \in given : g < id
  BY DEF ProjectInv, IdsNeverReused
<1>9. DOMAIN doc.binaries \subseteq given /\ given \subseteq Ids
  BY DEF ProjectInv, IdsNeverReused, DocTypeOK
<1>10. windows' = windows
  BY DEF AddBinary
<1> HIDE DEF bins, id
<1>11. new \in Document
  BY <1>3, <1>5, <1>6, DocumentMade
<1>12. /\ DOMAIN new.binaries = DOMAIN doc.binaries \cup {id}
       /\ new.next = id + 1
  BY <1>5
<1> HIDE DEF new
<1>13. FreshId(new) = id + 1
  BY <1>3, <1>12 DEF FreshId
<1>14. \A g \in given' : g < FreshId(new)
  BY <1>3, <1>7, <1>8, <1>9, <1>13 DEF Ids
<1>15. given' \subseteq Ids /\ DOMAIN new.binaries \subseteq given'
  BY <1>3, <1>7, <1>9, <1>12
<1>16. Plain("dialog") \in Edit /\ HasComment(new, Plain("dialog"))
  BY PlainIsEdit
<1>17. QED
  BY <1>7, <1>10, <1>11, <1>14, <1>15, <1>16, BeginSaveKeeps

LEMMA RemoveBinaryKeeps ==
    ASSUME ProjectAssumption, TextsAreTexts, ProjectInv, NEW id \in Ids, RemoveBinary(id)
    PROVE  ProjectInv'
<1>1. PICK doc \in memory :
        BeginSave(
          [doc EXCEPT !.binaries = [b \in DOMAIN doc.binaries \ {id} |-> doc.binaries[b]]],
          Plain("ui"))
  BY DEF RemoveBinary
<1> DEFINE bins == [b \in DOMAIN doc.binaries \ {id} |-> doc.binaries[b]]
           new == [doc EXCEPT !.binaries = bins]
<1>2. doc \in Document
  BY DEF ProjectInv, DocTypeOK
<1>3. /\ DOMAIN doc.binaries \ {id} \in SUBSET Ids
      /\ bins \in [DOMAIN doc.binaries \ {id} -> Annotations]
  BY <1>2, DocumentParts
<1>4. BeginSave(new, Plain("ui"))
  BY <1>1
<1>5. DOMAIN bins \subseteq DOMAIN doc.binaries
  OBVIOUS
<1> HIDE DEF bins
<1>6. new \in Document /\ new.next = doc.next /\ new.binaries = bins
  BY <1>2, <1>3, BinariesReplaced
<1> HIDE DEF new
<1>7. Plain("ui") \in Edit /\ HasComment(new, Plain("ui"))
  BY PlainIsEdit
<1>8. DOMAIN new.binaries \subseteq DOMAIN doc.binaries
  BY <1>5, <1>6
<1>9. windows' = windows /\ given' = given
  BY DEF RemoveBinary
<1>10. QED
  BY <1>4, <1>6, <1>7, <1>8, <1>9, EditKeeps

LEMMA IdsInRange ==
    ASSUME ProjectAssumption
    PROVE  Ids \subseteq 0..MaxId
BY DEF Ids, ProjectAssumption

LEMMA CommentEdit ==
    ASSUME ProjectAssumption, NEW id \in Ids, NEW rva \in Rvas, NEW text \in Texts \cup {""}
    PROVE  [by |-> "ui", id |-> id, rva |-> rva, text |-> text] \in Edit
<1>1. id \in 0..MaxId
  BY IdsInRange, Zenon
<1>2. QED
  BY <1>1 DEF Edit

LEMMA SetCommentKeeps ==
    ASSUME ProjectAssumption, TextsAreTexts, ProjectInv,
           NEW id \in Ids, NEW rva \in Rvas, NEW text \in Texts \cup {""}, SetComment(id, rva, text)
    PROVE  ProjectInv'
<1>1. PICK doc \in memory :
        BeginSave(Annotate(doc, id, Commented(doc.binaries[id], rva, text)),
                  [by |-> "ui", id |-> id, rva |-> rva, text |-> text])
  BY DEF SetComment
<1> DEFINE ann == Commented(doc.binaries[id], rva, text)
           new == Annotate(doc, id, ann)
           edit == [by |-> "ui", id |-> id, rva |-> rva, text |-> text]
<1>2. doc \in Document
  BY DEF ProjectInv, DocTypeOK
<1>3. id \in DOMAIN doc.binaries =>
        /\ ann \in Annotations
        /\ text # "" => rva \in DOMAIN ann.comments /\ ann.comments[rva] = text
  <2>1. id \in DOMAIN doc.binaries => doc.binaries[id] \in Annotations
    BY <1>2, DocumentParts
  <2>2. QED
    BY <2>1, CommentMade
<1>4. BeginSave(new, edit)
  BY <1>1
<1> HIDE DEF ann, new, edit
<1>5. /\ new \in Document /\ new.next = doc.next
      /\ DOMAIN new.binaries = DOMAIN doc.binaries
      /\ id \in DOMAIN doc.binaries => new.binaries[id] = ann
  <2>1. id \in DOMAIN doc.binaries => ann \in Annotations
    BY <1>3
  <2>2. /\ Annotate(doc, id, ann) \in Document /\ Annotate(doc, id, ann).next = doc.next
        /\ DOMAIN Annotate(doc, id, ann).binaries = DOMAIN doc.binaries
        /\ id \in DOMAIN doc.binaries => Annotate(doc, id, ann).binaries[id] = ann
    BY <1>2, <2>1, Annotated
  <2> QED BY <2>2 DEF new
<1>6. edit \in Edit
  BY CommentEdit DEF edit
<1>7. HasComment(new, edit)
  <2>1. edit.text = text /\ edit.id = id /\ edit.rva = rva
    BY DEF edit
  <2>2. text \in Texts => text # ""
    BY DEF TextsAreTexts
  <2>3. QED
    BY <1>3, <1>5, <2>1, <2>2 DEF HasComment
<1>8. windows' = windows /\ given' = given
  BY DEF SetComment
<1>9. QED
  BY <1>4, <1>5, <1>6, <1>7, <1>8, EditKeeps

LEMMA ToggleMarkKeeps ==
    ASSUME ProjectAssumption, TextsAreTexts, ProjectInv,
           NEW id \in Ids, NEW rva \in Rvas, ToggleMark(id, rva)
    PROVE  ProjectInv'
<1>1. PICK doc \in memory :
        BeginSave(Annotate(doc, id, Marked(doc.binaries[id], rva)), Plain("ui"))
  BY DEF ToggleMark
<1> DEFINE ann == Marked(doc.binaries[id], rva)
           new == Annotate(doc, id, ann)
<1>2. doc \in Document
  BY DEF ProjectInv, DocTypeOK
<1>3. id \in DOMAIN doc.binaries => ann \in Annotations
  BY <1>2, DocumentParts, MarkMade
<1>4. BeginSave(new, Plain("ui"))
  BY <1>1
<1> HIDE DEF ann
<1>5. new \in Document /\ new.next = doc.next /\ DOMAIN new.binaries = DOMAIN doc.binaries
  BY <1>2, <1>3, Annotated
<1> HIDE DEF new
<1>6. Plain("ui") \in Edit /\ HasComment(new, Plain("ui"))
  BY PlainIsEdit
<1>7. windows' = windows /\ given' = given
  BY DEF ToggleMark
<1>8. QED
  BY <1>4, <1>5, <1>6, <1>7, EditKeeps

LEMMA OpenProjectKeeps ==
    ASSUME ProjectAssumption, ProjectInv, OpenProject
    PROVE  ProjectInv'
<1>1. /\ memory = {} /\ saving = {} /\ acked' = {}
      /\ UNCHANGED <<disk, saving, windows, durable>>
  BY DEF OpenProject, ProjectInv
<1>2. given' = UNION {DOMAIN d.binaries : d \in disk}
  BY DEF OpenProject
<1>3. CASE disk = {}
  <2>1. memory' = {DefaultDocument} /\ given' = {}
    BY <1>2, <1>3 DEF OpenProject
  <2>2. Numbered(DefaultDocument)
    BY EmptyDocuments DEF Numbered
  <2>3. DocTypeOK'
    BY <1>1, <2>1, EmptyDocuments DEF ProjectInv, DocTypeOK
  <2>4. IdsNeverReused'
    BY <2>1, EmptyDocuments DEF IdsNeverReused
  <2>5. NothingUnsaved'
    BY <1>1, <1>3 DEF ProjectInv, NothingUnsaved
  <2>6. QED
    BY <1>1, <1>3, <2>1, <2>2, <2>3, <2>4, <2>5 DEF ProjectInv, OkMeansStored
<1>4. CASE disk # {}
  <2>1. PICK d \in Document : disk = {d}
    BY <1>4 DEF ProjectInv, DocTypeOK
  <2>2. memory' = {d} /\ given' = DOMAIN d.binaries
    BY <1>2, <1>4, <2>1 DEF OpenProject
  <2>3. Numbered(d)
    BY <2>1 DEF ProjectInv
  <2>4. DocTypeOK'
    BY <1>1, <2>2, DocumentParts DEF ProjectInv, DocTypeOK
  <2>5. IdsNeverReused'
    BY <2>2, <2>3 DEF IdsNeverReused, Numbered
  <2>6. NothingUnsaved'
    BY <1>1, <2>1, <2>2 DEF ProjectInv, NothingUnsaved
  <2>7. QED
    BY <1>1, <2>1, <2>2, <2>3, <2>4, <2>5, <2>6 DEF ProjectInv, OkMeansStored
<1>5. QED
  BY <1>3, <1>4

LEMMA WindowsKeep ==
    ASSUME ProjectInv, windows' \subseteq Ids, acked' = {},
           UNCHANGED <<memory, disk, saving, given, durable>>
    PROVE  ProjectInv'
<1>1. DocTypeOK'
  BY DEF ProjectInv, DocTypeOK
<1>2. QED
  BY <1>1 DEF ProjectInv, IdsNeverReused, NothingUnsaved, OkMeansStored

LEMMA SaveDoneKeeps ==
    ASSUME ProjectInv, SaveDone
    PROVE  ProjectInv'
<1>1. /\ disk' = memory /\ durable' = memory /\ acked' = saving /\ saving' = {}
      /\ UNCHANGED <<memory, windows, given>>
  BY DEF SaveDone
<1>2. DocTypeOK'
  BY <1>1 DEF ProjectInv, DocTypeOK
<1>3. OkMeansStored'
  BY <1>1 DEF ProjectInv, OkMeansStored, HasComment
<1>4. QED
  BY <1>1, <1>2, <1>3 DEF ProjectInv, IdsNeverReused, NothingUnsaved

LEMMA CutSaves ==
    ASSUME ProjectAssumption, ProjectInv, disk' \in {{NewDocument}, {}, memory, disk}
    PROVE  /\ disk' \in {{}} \cup {{d} : d \in Document}
           /\ \A d \in disk' : Numbered(d)
<1>1. Numbered(NewDocument)
  BY EmptyDocuments DEF Numbered
<1>2. QED
  BY <1>1, EmptyDocuments DEF ProjectInv, DocTypeOK

LEMMA SaveFailsKeeps ==
    ASSUME ProjectAssumption, ProjectInv, SaveFails
    PROVE  ProjectInv'
<1>1. /\ disk' \in {{NewDocument}, {}} /\ saving' = {} /\ durable' = {} /\ acked' = {}
      /\ UNCHANGED <<memory, windows, given>>
  BY DEF SaveFails
<1>2. DocTypeOK'
  BY <1>1, CutSaves DEF ProjectInv, DocTypeOK
<1>3. \A d \in memory' \cup disk' : Numbered(d)
  BY <1>1, CutSaves DEF ProjectInv
<1>4. QED
  BY <1>1, <1>2, <1>3 DEF ProjectInv, IdsNeverReused, NothingUnsaved, OkMeansStored

LEMMA RestartKeeps ==
    ASSUME ProjectAssumption, ProjectInv, Restart
    PROVE  ProjectInv'
<1>1. /\ memory' = {} /\ saving' = {} /\ windows' = {} /\ given' = {} /\ acked' = {}
  BY DEF Restart
<1>2. \/ saving # {} /\ disk' \in {{NewDocument}, {}, memory} /\ durable' = {}
      \/ saving = {} /\ UNCHANGED <<disk, durable>>
  BY DEF Restart
<1>3. /\ disk' \in {{}} \cup {{d} : d \in Document}
      /\ \A d \in disk' : Numbered(d)
  BY <1>2, CutSaves
<1>4. durable' \in {{}} \cup {{d} : d \in Document}
  BY <1>2 DEF ProjectInv, DocTypeOK
<1>5. DocTypeOK'
  BY <1>1, <1>3, <1>4 DEF DocTypeOK
<1>6. NothingUnsaved'
  BY <1>1, <1>2 DEF ProjectInv, NothingUnsaved
<1>7. QED
  BY <1>1, <1>3, <1>5, <1>6 DEF ProjectInv, IdsNeverReused, OkMeansStored

LEMMA StepKeeps ==
    ASSUME ProjectAssumption, TextsAreTexts, ProjectInv, [DocNext]_docVars
    PROVE  ProjectInv'
<1>1. CASE OpenProject
  BY <1>1, OpenProjectKeeps
<1>2. CASE AddBinary
  BY <1>2, AddBinaryKeeps
<1>3. CASE SaveDone
  BY <1>3, SaveDoneKeeps
<1>4. CASE SaveFails
  BY <1>4, SaveFailsKeeps
<1>5. CASE \E id \in Ids : OpenBinary(id)
  BY <1>5, WindowsKeep DEF OpenBinary, ProjectInv, DocTypeOK
<1>6. CASE \E id \in Ids : RemoveBinary(id)
  BY <1>6, RemoveBinaryKeeps
<1>7. windows \subseteq Ids
  BY DEF ProjectInv, DocTypeOK
<1>8. CASE \E id \in windows : CloseBinary(id)
  BY <1>7, <1>8, WindowsKeep DEF CloseBinary
<1>9. CASE \E id \in windows : \E rva \in Rvas : ToggleMark(id, rva)
  BY <1>7, <1>9, ToggleMarkKeeps
<1>10. CASE \E id \in windows : \E rva \in Rvas : \E text \in Texts \cup {""} :
                SetComment(id, rva, text)
  BY <1>7, <1>10, SetCommentKeeps
<1>11. CASE Restart
  BY <1>11, RestartKeeps
<1>12. CASE UNCHANGED docVars
  <2>1. DocTypeOK'
    BY <1>12 DEF ProjectInv, DocTypeOK, docVars
  <2>2. QED
    BY <1>12, <2>1 DEF ProjectInv, IdsNeverReused, NothingUnsaved, OkMeansStored, docVars
<1>13. QED
  BY <1>1, <1>2, <1>3, <1>4, <1>5, <1>6, <1>8, <1>9, <1>10, <1>11, <1>12 DEF DocNext

-----------------------------------------------------------------------------
(* The theorems.                                                           *)

\* Whatever the edits, the faults and their order, the documents stay well
\* formed and the parts of the invariant agree.
THEOREM ProjectInvariant ==
    ASSUME ProjectAssumption, TextsAreTexts
    PROVE  DocSpec => []ProjectInv
<1>1. DocInit => ProjectInv
  BY InitEstablishes
<1>2. ProjectInv /\ [DocNext]_docVars => ProjectInv'
  BY StepKeeps
<1>3. QED
  BY <1>1, <1>2, PTL DEF DocSpec

\* add_binary never gives an id again, in the life of a document and after the
\* ids were read back from the file.
THEOREM IdsNeverReusedHolds ==
    ASSUME ProjectAssumption, TextsAreTexts
    PROVE  DocSpec => []IdsNeverReused
<1>1. ProjectInv => IdsNeverReused
  BY DEF ProjectInv
<1>2. QED
  BY <1>1, ProjectInvariant, PTL

\* No edit is left in memory only once its save was completed.
THEOREM FileIsCurrentHolds ==
    ASSUME ProjectAssumption, TextsAreTexts
    PROVE  DocSpec => []FileIsCurrent
<1>1. ProjectInv => FileIsCurrent
  BY DEF ProjectInv, NothingUnsaved, FileIsCurrent
<1>2. QED
  BY <1>1, ProjectInvariant, PTL

\* A comment answered with ok is in the file.
THEOREM OkMeansStoredHolds ==
    ASSUME ProjectAssumption, TextsAreTexts
    PROVE  DocSpec => []OkMeansStored
<1>1. ProjectInv => OkMeansStored
  BY DEF ProjectInv
<1>2. QED
  BY <1>1, ProjectInvariant, PTL

\* A project is opened with what its last completed save held.
THEOREM SurvivesRestartHolds ==
    ASSUME ProjectAssumption, TextsAreTexts
    PROVE  DocSpec => SurvivesRestart
<1>1. ProjectInv /\ [DocNext]_docVars
        => [memory = {} => \A d \in memory', e \in durable : d.binaries = e.binaries]_docVars
  <2> SUFFICES ASSUME ProjectInv, [DocNext]_docVars, memory = {},
                      NEW d \in memory', NEW e \in durable
               PROVE  d.binaries = e.binaries
    OBVIOUS
  <2>1. saving = {} /\ disk = durable
    BY DEF ProjectInv, NothingUnsaved
  <2>2. CASE OpenProject
    <3>1. memory' = disk
      BY <2>1, <2>2 DEF OpenProject
    <3>2. d = e
      BY <2>1, <3>1 DEF ProjectInv, DocTypeOK
    <3>3. QED
      BY <3>2
  <2>3. CASE ~OpenProject
    <3>1. memory' = {}
      BY <2>1, <2>3 DEF DocNext, docVars, AddBinary, SaveDone, SaveFails, OpenBinary, RemoveBinary,
                        CloseBinary, ToggleMark, SetComment, Restart
    <3>2. QED
      BY <3>1
  <2>4. QED
    BY <2>2, <2>3
<1>2. QED
  BY <1>1, ProjectInvariant, PTL DEF DocSpec, SurvivesRestart

-----------------------------------------------------------------------------
(***************************************************************************)
(* The replies of a page's calls, for every page, with or without commands *)
(* that have a parameter named id, every number of calls and every order   *)
(* of the answers: a promise is settled by the reply to its own call, or   *)
(* by that of a command whose parameter is the promise's number.           *)
(***************************************************************************)
\* A message under way carries the number of the call it belongs to, unless a
\* parameter took its place.
UnderOwnNumber == {m \in Message : m.id = m.call \/ m.cmd \in ById}

WireInv ==
    /\ WireTypeOK
    /\ inbox \in Seq(UnderOwnNumber)
    /\ threads \subseteq UnderOwnNumber
    /\ outbox \in Seq(UnderOwnNumber)
    /\ OwnReply

LEMMA NumberedAreMessages == ASSUME NEW s \in Seq(UnderOwnNumber) PROVE s \in Seq(Message)
BY DEF UnderOwnNumber

LEMMA QueueHead ==
    ASSUME NEW S, NEW s \in Seq(S), s # <<>>
    PROVE  Head(s) \in S /\ Tail(s) \in Seq(S)
OBVIOUS

LEMMA QueueAppend ==
    ASSUME NEW S, NEW s \in Seq(S), NEW e \in S
    PROVE  Append(s, e) \in Seq(S)
OBVIOUS

LEMMA InitEstablishesWire ==
    ASSUME IpcAssumption, WireInit
    PROVE  WireInv
<1>1. WireTypeOK
  <2>1. nextId \in 1..(MaxCalls + 1)
    BY DEF WireInit, IpcAssumption
  <2>2. settledBy \in [Calls -> {{}} \cup {{m} : m \in Message}]
    BY DEF WireInit
  <2>3. <<>> \in Seq(Message)
    OBVIOUS
  <2>4. QED
    BY <2>1, <2>2, <2>3 DEF WireInit, WireTypeOK
<1>2. OwnReply
  BY DEF WireInit, OwnReply
<1>3. <<>> \in Seq(UnderOwnNumber)
  OBVIOUS
<1>4. QED
  BY <1>1, <1>2, <1>3 DEF WireInit, WireInv

LEMMA InvokeKeeps ==
    ASSUME IpcAssumption, WireInv, Invoke
    PROVE  WireInv'
<1>0. PICK cmd \in Sync \cup Async : \E id \in WireId(cmd, nextId) :
        LET m == [id |-> id, cmd |-> cmd, call |-> nextId] IN
        inbox' = Append(inbox, m) /\ pending' = pending \cup {m}
  BY DEF Invoke
<1>1. PICK id \in WireId(cmd, nextId) :
        LET m == [id |-> id, cmd |-> cmd, call |-> nextId] IN
        inbox' = Append(inbox, m) /\ pending' = pending \cup {m}
  BY <1>0
<1> DEFINE m == [id |-> id, cmd |-> cmd, call |-> nextId]
<1>2. nextId \in Calls /\ nextId \in Nat
  BY DEF Invoke, WireInv, WireTypeOK, Calls, IpcAssumption
<1>3. IF cmd \in ById THEN id \in BinaryIds ELSE id = nextId
  BY DEF WireId
<1>4. m \in UnderOwnNumber /\ m \in Message
  BY <1>2, <1>3 DEF UnderOwnNumber, Message, IpcAssumption
<1>5. inbox' = Append(inbox, m) /\ pending' = pending \cup {m}
  BY <1>1
<1> HIDE DEF m
<1>6. inbox' \in Seq(UnderOwnNumber)
  BY <1>4, <1>5 DEF WireInv
<1>7. nextId' \in 1..(MaxCalls + 1)
  BY <1>2 DEF Invoke, Calls, IpcAssumption
<1>8. WireTypeOK'
  BY <1>4, <1>5, <1>6, <1>7, NumberedAreMessages DEF Invoke, WireInv, WireTypeOK
<1>9. QED
  BY <1>6, <1>8 DEF Invoke, WireInv, OwnReply

LEMMA HandleKeeps ==
    ASSUME WireInv, Handle
    PROVE  WireInv'
<1>1. Head(inbox) \in UnderOwnNumber /\ inbox' \in Seq(UnderOwnNumber)
  BY QueueHead DEF Handle, WireInv
<1>2. outbox' \in Seq(UnderOwnNumber) /\ threads' \subseteq UnderOwnNumber
  <2>1. CASE Head(inbox).cmd \in Sync
    <3>1. outbox' = Append(outbox, Head(inbox)) /\ threads' = threads
      BY <2>1 DEF Handle, ReplyTo
    <3>2. QED
      BY <1>1, <3>1, QueueAppend DEF WireInv
  <2>2. CASE Head(inbox).cmd \notin Sync
    <3>1. outbox' = outbox /\ threads' = threads \cup {Head(inbox)}
      BY <2>2 DEF Handle
    <3>2. QED
      BY <1>1, <3>1 DEF WireInv
  <2>3. QED
    BY <2>1, <2>2
<1>3. threads' \subseteq Message
  BY <1>2 DEF UnderOwnNumber
<1>4. WireTypeOK'
  BY <1>1, <1>2, <1>3, NumberedAreMessages DEF Handle, WireInv, WireTypeOK
<1>5. QED
  BY <1>1, <1>2, <1>4 DEF Handle, WireInv, OwnReply

LEMMA ThreadRepliesKeeps ==
    ASSUME WireInv, NEW m \in threads, ThreadReplies(m)
    PROVE  WireInv'
<1>1. outbox' \in Seq(UnderOwnNumber) /\ threads' \subseteq UnderOwnNumber
  BY DEF ThreadReplies, WireInv, ReplyTo
<1>2. WireTypeOK'
  BY <1>1, NumberedAreMessages DEF ThreadReplies, WireInv, WireTypeOK
<1>3. QED
  BY <1>1, <1>2 DEF ThreadReplies, WireInv, OwnReply

LEMMA DeliverKeeps ==
    ASSUME WireInv, Deliver
    PROVE  WireInv'
<1> DEFINE reply == Head(outbox)
<1>1. reply \in UnderOwnNumber /\ outbox' \in Seq(UnderOwnNumber)
  BY QueueHead DEF Deliver, WireInv
<1>2. reply \in Message /\ (reply.id = reply.call \/ reply.cmd \in ById)
  BY <1>1 DEF UnderOwnNumber
<1>3. CASE ~closed /\ WaitingFor(reply) # {}
  <2>1. /\ pending' = pending \ WaitingFor(reply)
        /\ settledBy' = [settledBy EXCEPT ![reply.id] = {reply}]
        /\ UNCHANGED <<nextId, inbox, threads, closed>>
    BY <1>3 DEF Deliver
  <2> HIDE DEF reply
  <2>2. reply.id \in Calls
    BY <1>3 DEF WaitingFor, WireInv, WireTypeOK, Message
  <2>3. WireTypeOK'
    <3>1. settledBy' \in [Calls -> {{}} \cup {{m} : m \in Message}]
      BY <1>2, <2>1, <2>2 DEF WireInv, WireTypeOK
    <3>2. QED
      BY <1>1, <2>1, <3>1, NumberedAreMessages DEF WireInv, WireTypeOK
  <2>4. OwnReply'
    BY <1>2, <2>1, <2>2 DEF WireInv, WireTypeOK, OwnReply
  <2>5. QED
    BY <1>1, <2>1, <2>3, <2>4 DEF WireInv
<1>4. CASE ~(~closed /\ WaitingFor(reply) # {})
  <2>1. UNCHANGED <<pending, settledBy, nextId, inbox, threads, closed>>
    BY <1>4 DEF Deliver
  <2>2. WireTypeOK'
    BY <1>1, <2>1, NumberedAreMessages DEF WireInv, WireTypeOK
  <2>3. QED
    BY <1>1, <2>1, <2>2 DEF WireInv, OwnReply
<1>5. QED
  BY <1>3, <1>4

LEMMA StepKeepsWire ==
    ASSUME IpcAssumption, WireInv, [WireNext]_wireVars
    PROVE  WireInv'
<1>1. CASE Invoke
  BY <1>1, InvokeKeeps
<1>2. CASE Handle
  BY <1>2, HandleKeeps
<1>3. CASE Deliver
  BY <1>3, DeliverKeeps
<1>4. CASE Close
  <2>1. WireTypeOK'
    BY <1>4 DEF Close, WireInv, WireTypeOK
  <2>2. QED
    BY <1>4, <2>1 DEF Close, WireInv, OwnReply
<1>5. CASE \E m \in threads : ThreadReplies(m)
  BY <1>5, ThreadRepliesKeeps
<1>6. CASE UNCHANGED wireVars
  <2>1. WireTypeOK'
    BY <1>6 DEF wireVars, WireInv, WireTypeOK
  <2>2. QED
    BY <1>6, <2>1 DEF wireVars, WireInv, OwnReply
<1>7. QED
  BY <1>1, <1>2, <1>3, <1>4, <1>5, <1>6 DEF WireNext

\* What the transport guarantees whatever the commands are called with: a
\* promise is settled by the reply to its own call, or by the reply of a
\* command whose parameter `id` is the promise's number.
THEOREM OwnReplyHolds ==
    ASSUME IpcAssumption
    PROVE  WireSpec => []OwnReply
<1>1. WireInit => WireInv
  BY InitEstablishesWire
<1>2. WireInv /\ [WireNext]_wireVars => WireInv'
  BY StepKeepsWire
<1>3. WireInv => OwnReply
  BY DEF WireInv
<1>4. QED
  BY <1>1, <1>2, <1>3, PTL DEF WireSpec

-----------------------------------------------------------------------------
(***************************************************************************)
(* The annotation store, for every set of builds, names, variables and     *)
(* types and any number of edits.                                          *)
(***************************************************************************)
Hashes == {NoHash} \cup {FuncHash(b) : b \in UNION {{i[f] : f \in DOMAIN i} : i \in Images}}

NoteTexts == Names \cup {""}

Anno == [rva : Nat, hash : Hashes, name : NoteTexts, comment : NoteTexts, bound : Nat]

AnnoVar == [rva : Nat, hash : Hashes, from : Locals, to : NoteTexts, type : Types \cup {""},
            bound : Nat]

Entry == [ok : BOOLEAN, key : [hash : Hashes, rva : Nat], name : NoteTexts, comment : NoteTexts,
          vars : Seq(AnnoVar)]

Stores == [annos : Seq(Anno), annoVars : Seq(AnnoVar), failed : BOOLEAN]

NotesTypeOK ==
    /\ image \in Images
    /\ funcs = {} \/ funcs = {image}
    /\ annos \in Seq(Anno)
    /\ annoVars \in Seq(AnnoVar)
    /\ sidecar \in [state : {"absent", "cut", "v1", "v2"}, functions : Seq(Entry)]
    /\ edits \in Nat

\* There is one record per address, and it says something.
OneRecord(list) == \A i, j \in DOMAIN list : list[i].rva = list[j].rva => i = j

Speaking(list) == \A i \in DOMAIN list : list[i].name # "" \/ list[i].comment # ""

\* A record's binding is one its recorded identity allows.
Fits(r) ==
    r.bound # Unbound =>
        /\ r.bound \in DOMAIN Listing
        /\ NoHash \in {r.hash, FuncHash(Listing[r.bound])} \/ r.hash = FuncHash(Listing[r.bound])
        /\ (\E f \in DOMAIN Listing \ {r.bound} : FuncHash(Listing[f]) = FuncHash(Listing[r.bound]))
              => r.bound = r.rva

AllFit(list) == \A i \in DOMAIN list : Fits(list[i])

OneName(list) ==
    \A i, j \in DOMAIN list : i # j /\ list[i].bound # Unbound => list[i].bound # list[j].bound

NotesInv ==
    /\ NotesTypeOK
    /\ OneRecord(annos) /\ Speaking(annos)
    /\ AllFit(annos) /\ OneName(annos)
    /\ AllFit(annoVars)

-----------------------------------------------------------------------------
\* A set of numbers has a least one.
LEMMA LeastOf ==
    ASSUME NEW S \in SUBSET Nat, S # {}
    PROVE  \E l \in S : \A m \in S : l <= m
<1> DEFINE R == OpToRel(<, Nat)
<1>1. \A x, y \in Nat : x < y => <<x, y>> \in R
  BY DEF OpToRel
<1>2. IsWellFoundedOn(R, Nat)
  BY NatLessThanWellFounded
<1> HIDE DEF R
<1>3. PICK n \in S : \A m \in S : <<m, n>> \notin R
  BY <1>2, WFMin
<1>4. \A m \in S : n <= m
  <2> SUFFICES ASSUME NEW m \in S PROVE n <= m
    OBVIOUS
  <2>1. m \in Nat /\ n \in Nat /\ ~(m < n)
    BY <1>1, <1>3
  <2>2. QED
    BY <2>1
<1>5. QED
  BY <1>4

\* Induction: a set of numbers with 0 and every successor.
LEMMA CountUp ==
    ASSUME NEW S, 0 \in S, \A n \in Nat : n \in S => n + 1 \in S
    PROVE  Nat \subseteq S
<1> SUFFICES ASSUME Nat \ S # {} PROVE FALSE
  OBVIOUS
<1>1. PICK n \in Nat \ S : \A m \in Nat \ S : n <= m
  BY LeastOf
<1>2. n # 0 /\ n - 1 \in Nat /\ ~(n <= n - 1)
  BY <1>1
<1>3. n - 1 \in S
  BY <1>1, <1>2
<1>4. n \in S
  BY <1>2, <1>3
<1>5. QED
  BY <1>1, <1>4

\* What Picked is: the prefixes of the loop that filters a list.
LEMMA PickedIs ==
    ASSUME NEW list, Len(list) \in Nat, NEW S
    PROVE  /\ Picked(list, S)[0] = <<>>
           /\ \A i \in 1..Len(list) :
                 Picked(list, S)[i] = IF list[i] \in S THEN Append(Picked(list, S)[i - 1], list[i])
                                                       ELSE Picked(list, S)[i - 1]
<1> DEFINE Then(p, i) == IF list[i] \in S THEN Append(p[i - 1], list[i]) ELSE p[i - 1]
           Is(p, n) == p = [i \in 0..n |-> IF i = 0 THEN <<>> ELSE Then(p, i)]
           Done == {n \in Nat : \E p : Is(p, n)}
<1>1. 0 \in Done
  <2>1. Is([i \in 0..0 |-> <<>>], 0)
    OBVIOUS
  <2>2. QED
    BY <2>1
<1>2. ASSUME NEW n \in Nat, n \in Done PROVE n + 1 \in Done
  <2>1. PICK p : Is(p, n)
    BY <1>2
  <2> DEFINE q == [i \in 0..(n + 1) |-> IF i = n + 1 THEN Then(p, n + 1) ELSE p[i]]
  <2>2. n + 1 \in 0..(n + 1) /\ (n + 1) - 1 = n /\ n # n + 1
    OBVIOUS
  <2>3. q[n + 1] = Then(p, n + 1) /\ \A i \in 0..n : q[i] = p[i]
    BY <2>2
  <2>4. \A i \in 0..(n + 1) : q[i] = IF i = 0 THEN <<>> ELSE Then(q, i)
    <3> SUFFICES ASSUME NEW i \in 0..(n + 1) PROVE q[i] = IF i = 0 THEN <<>> ELSE Then(q, i)
      OBVIOUS
    <3> HIDE DEF q
    <3>1. CASE i = n + 1
      BY <2>2, <2>3, <3>1
    <3>2. CASE i \in 0..n
      <4>1. q[i] = p[i] /\ (i # 0 => q[i - 1] = p[i - 1])
        BY <2>3, <3>2
      <4>2. p[i] = IF i = 0 THEN <<>> ELSE Then(p, i)
        BY <2>1, <3>2
      <4>3. QED
        BY <4>1, <4>2
    <3>3. QED
      BY <3>1, <3>2
  <2>5. q = [i \in 0..(n + 1) |-> q[i]]
    OBVIOUS
  <2> HIDE DEF q
  <2>6. Is(q, n + 1)
    BY <2>4, <2>5
  <2>7. QED
    BY <2>6
<1>3. Len(list) \in Done
  <2> HIDE DEF Done
  <2>1. QED
    BY <1>1, <1>2, CountUp
<1>4. PICK p : Is(p, Len(list))
  BY <1>3
<1>5. Picked(list, S) = CHOOSE q : Is(q, Len(list))
  BY DEF Picked
<1>6. Is(Picked(list, S), Len(list))
  <2> HIDE DEF Is
  <2>1. QED
    BY <1>4, <1>5
<1>7. \A i \in 0..Len(list) : Picked(list, S)[i] = IF i = 0 THEN <<>> ELSE Then(Picked(list, S), i)
  BY <1>6
<1>8. QED
  BY <1>7

\* The elements of a list.
LEMMA Elements ==
    ASSUME NEW A, NEW list \in Seq(A)
    PROVE  /\ Len(list) \in Nat /\ DOMAIN list = 1..Len(list)
           /\ \A i \in DOMAIN list : list[i] \in A
           /\ \A x : x \in ToSet(list) <=> \E i \in DOMAIN list : list[i] = x
           /\ ToSet(list) \subseteq A
BY DEF ToSet

LEMMA Appended ==
    ASSUME NEW A, NEW list \in Seq(A), NEW x \in A
    PROVE  /\ Append(list, x) \in Seq(A) /\ Len(Append(list, x)) = Len(list) + 1
           /\ DOMAIN Append(list, x) = 1..(Len(list) + 1)
           /\ \A i \in DOMAIN list : Append(list, x)[i] = list[i]
           /\ Append(list, x)[Len(list) + 1] = x
           /\ ToSet(Append(list, x)) = ToSet(list) \cup {x}
<1>1. /\ Append(list, x) \in Seq(A) /\ Len(Append(list, x)) = Len(list) + 1
      /\ \A i \in 1..Len(list) : Append(list, x)[i] = list[i]
      /\ Append(list, x)[Len(list) + 1] = x
  OBVIOUS
<1> DEFINE new == Append(list, x)
<1> HIDE DEF new
<1>2. DOMAIN new = 1..(Len(list) + 1) /\ DOMAIN list = 1..Len(list) /\ Len(list) \in Nat
  BY <1>1 DEF new
<1>3. \A i : i \in DOMAIN new <=> i \in DOMAIN list \/ i = Len(list) + 1
  BY <1>2
<1>4. ToSet(new) = ToSet(list) \cup {x}
  <2>1. \A y : y \in ToSet(new) <=> \E i \in DOMAIN new : new[i] = y
    BY DEF ToSet
  <2>2. \A y : y \in ToSet(list) <=> \E i \in DOMAIN list : list[i] = y
    BY DEF ToSet
  <2>3. /\ \A i \in DOMAIN list : new[i] = list[i]
        /\ new[Len(list) + 1] = x
    BY <1>1, <1>2 DEF new
  <2>4. QED
    BY <1>3, <2>1, <2>2, <2>3
<1>5. QED
  BY <1>1, <1>2, <1>4 DEF new

\* The filter keeps the records of the set, and does not repeat one.
LEMMA ThoseAre ==
    ASSUME NEW A, NEW list \in Seq(A), NEW S
    PROVE  /\ Those(list, S) \in Seq(A)
           /\ ToSet(Those(list, S)) = ToSet(list) \cap S
           /\ (\A i, j \in DOMAIN list : list[i] = list[j] => i = j)
                 => \A i, j \in DOMAIN Those(list, S) : Those(list, S)[i] = Those(list, S)[j] => i = j
<1> DEFINE n == Len(list)
           p == Picked(list, S)
           Once(q) == \A i, j \in DOMAIN q : q[i] = q[j] => i = j
           Upto(k) == {list[i] : i \in 1..k}
           Good(k) == p[k] \in Seq(A) /\ ToSet(p[k]) = Upto(k) \cap S /\ (Once(list) => Once(p[k]))
           G == {k \in Nat : k <= n => Good(k)}
<1>1. n \in Nat /\ DOMAIN list = 1..n /\ \A i \in 1..n : list[i] \in A
  OBVIOUS
<1>2. /\ p[0] = <<>>
      /\ \A i \in 1..n : p[i] = IF list[i] \in S THEN Append(p[i - 1], list[i]) ELSE p[i - 1]
  BY <1>1, PickedIs
<1> HIDE DEF n, p
<1>3. Good(0)
  <2>1. p[0] \in Seq(A) /\ DOMAIN p[0] = {} /\ ToSet(p[0]) = {} /\ Upto(0) = {}
    BY <1>2 DEF ToSet
  <2>2. QED
    BY <2>1
<1>4. ASSUME NEW k \in Nat, k + 1 <= n, Good(k) PROVE Good(k + 1)
  <2>1. k + 1 \in 1..n /\ list[k + 1] \in A
    BY <1>1, <1>4
  <2>2. p[k + 1] = IF list[k + 1] \in S THEN Append(p[k], list[k + 1]) ELSE p[k]
    BY <1>2, <2>1
  <2>3. Upto(k + 1) = Upto(k) \cup {list[k + 1]}
    BY <2>1
  <2> HIDE DEF Upto
  <2>4. CASE list[k + 1] \notin S
    BY <1>4, <2>2, <2>3, <2>4
  <2>5. CASE list[k + 1] \in S
    <3> DEFINE q == p[k]
               r == p[k + 1]
    <3>1. q \in Seq(A) /\ r = Append(q, list[k + 1])
      BY <1>4, <2>2, <2>5
    <3> HIDE DEF q, r
    <3>2. /\ r \in Seq(A) /\ DOMAIN r = 1..(Len(q) + 1) /\ r[Len(q) + 1] = list[k + 1]
          /\ \A i \in DOMAIN q : r[i] = q[i]
          /\ ToSet(r) = ToSet(q) \cup {list[k + 1]}
      BY <2>1, <3>1, Appended
    <3>3. ToSet(r) = Upto(k + 1) \cap S
      BY <1>4, <2>3, <2>5, <3>2 DEF q
    <3>4. ASSUME Once(list) PROVE Once(r)
      <4>1. list[k + 1] \notin Upto(k)
        BY <1>1, <2>1, <3>4 DEF Upto
      <4>2. list[k + 1] \notin ToSet(q) /\ Once(q)
        BY <1>4, <3>4, <4>1 DEF q
      <4>3. DOMAIN q = 1..Len(q) /\ Len(q) \in Nat /\ \A i \in DOMAIN q : q[i] # list[k + 1]
        BY <3>1, <4>2, Elements
      <4>4. \A i \in DOMAIN r : i \in DOMAIN q \/ i = Len(q) + 1
        BY <3>2, <4>3
      <4>5. QED
        BY <3>2, <4>2, <4>3, <4>4
    <3>5. QED
      BY <3>2, <3>3, <3>4 DEF r
  <2>6. QED
    BY <2>4, <2>5
<1>5. n \in G
  <2> HIDE DEF Good
  <2>1. 0 \in G
    BY <1>3
  <2>2. \A k \in Nat : k \in G => k + 1 \in G
    BY <1>1, <1>4
  <2> HIDE DEF G
  <2>3. QED
    BY <1>1, <2>1, <2>2, CountUp
<1>6. Good(n)
  BY <1>1, <1>5
<1>7. Upto(n) = ToSet(list)
  BY <1>1 DEF ToSet
<1>8. QED
  BY <1>6, <1>7 DEF Those, n, p

\* key_index gives every identity of the list, and none twice.
LEMMA KeysAre ==
    ASSUME NEW A, NEW list \in Seq(A)
    PROVE  /\ Keys(list) \in Seq({Key(r) : r \in A})
           /\ \A i \in DOMAIN list : \E n \in DOMAIN Keys(list) : Keys(list)[n] = Key(list[i])
           /\ \A n \in DOMAIN Keys(list) : \E i \in DOMAIN list : Keys(list)[n] = Key(list[i])
           /\ \A m, n \in DOMAIN Keys(list) : Keys(list)[m] = Keys(list)[n] => m = n
<1> DEFINE k(i) == Key(list[i])
           index == [i \in DOMAIN list |-> i]
           F == {i \in DOMAIN list : \A j \in 1..(i - 1) : k(j) # k(i)}
           first == Those(index, F)
<1>1. DOMAIN list = 1..Len(list) /\ Len(list) \in Nat /\ \A i \in DOMAIN list : list[i] \in A
  BY Elements
<1>2. /\ index \in Seq(Nat) /\ ToSet(index) = DOMAIN list
      /\ \A i, j \in DOMAIN index : index[i] = index[j] => i = j
  <2>1. index \in Seq(Nat) /\ DOMAIN index = DOMAIN list
    BY <1>1
  <2>2. ToSet(index) = DOMAIN list
    BY DEF ToSet
  <2>3. QED
    BY <2>1, <2>2
<1>3. Keys(list) = [n \in DOMAIN first |-> k(first[n])]
  BY DEF Keys
<1> HIDE DEF index
<1>4. /\ first \in Seq(Nat) /\ ToSet(first) = F
      /\ \A m, n \in DOMAIN first : first[m] = first[n] => m = n
  <2>1. F \subseteq DOMAIN list
    OBVIOUS
  <2> HIDE DEF F
  <2>2. /\ first \in Seq(Nat) /\ ToSet(first) = ToSet(index) \cap F
        /\ (\A i, j \in DOMAIN index : index[i] = index[j] => i = j)
               => \A m, n \in DOMAIN first : first[m] = first[n] => m = n
    BY <1>2, ThoseAre
  <2> HIDE DEF first
  <2>3. QED
    BY <1>2, <2>1, <2>2
<1> HIDE DEF first
<1>5. /\ DOMAIN first = 1..Len(first) /\ Len(first) \in Nat
      /\ \A n \in DOMAIN first : first[n] \in F
      /\ \A i \in F : \E n \in DOMAIN first : first[n] = i
  <2> HIDE DEF F
  <2>1. QED
    BY <1>4, Elements DEF ToSet
<1>6. Keys(list) \in Seq({Key(r) : r \in A})
  <2>1. \A n \in DOMAIN first : k(first[n]) \in {Key(r) : r \in A}
    BY <1>1, <1>5
  <2>2. QED
    BY <1>3, <1>5, <2>1
<1>7. ASSUME NEW i \in DOMAIN list PROVE \E n \in DOMAIN Keys(list) : Keys(list)[n] = k(i)
  <2> DEFINE same == {j \in DOMAIN list : k(j) = k(i)}
  <2>1. same \subseteq Nat /\ i \in same
    BY <1>1
  <2>2. PICK j \in same : \A m \in same : j <= m
    BY <2>1, LeastOf
  <2>3. \A m \in 1..(j - 1) : m \in DOMAIN list /\ ~(j <= m)
    BY <1>1, <2>1
  <2>4. j \in F
    BY <2>2, <2>3
  <2> HIDE DEF F
  <2>5. PICK n \in DOMAIN first : first[n] = j
    BY <1>5, <2>4
  <2>6. n \in DOMAIN Keys(list) /\ Keys(list)[n] = k(j)
    BY <1>3, <2>5
  <2>7. k(j) = k(i)
    BY <2>2
  <2>8. QED
    BY <2>6, <2>7
<1>8. ASSUME NEW m \in DOMAIN first, NEW n \in DOMAIN first, k(first[m]) = k(first[n])
      PROVE  m = n
  <2>1. first[m] \in F /\ first[n] \in F /\ first[m] \in Nat /\ first[n] \in Nat
        /\ first[m] >= 1 /\ first[n] >= 1
    BY <1>1, <1>5
  <2>2. ~(first[m] < first[n]) /\ ~(first[n] < first[m])
    <3>1. \A i, j \in F : i \in 1..(j - 1) => k(i) # k(j)
      OBVIOUS
    <3>2. first[m] < first[n] => first[m] \in 1..(first[n] - 1)
      BY <2>1
    <3>3. first[n] < first[m] => first[n] \in 1..(first[m] - 1)
      BY <2>1
    <3> HIDE DEF F, k
    <3>4. QED
      BY <1>8, <2>1, <3>1, <3>2, <3>3
  <2>3. first[m] = first[n]
    BY <2>1, <2>2
  <2>4. QED
    BY <1>4, <2>3
<1>9. \A n \in DOMAIN Keys(list) : \E i \in DOMAIN list : Keys(list)[n] = k(i)
  BY <1>3, <1>5
<1>10. \A m, n \in DOMAIN Keys(list) : Keys(list)[m] = Keys(list)[n] => m = n
  BY <1>3, <1>8
<1>11. QED
  BY <1>6, <1>7, <1>9, <1>10

\* What ReadUpTo is: the store after each entry of the file.
LEMMA ReadUpToIs ==
    ASSUME NEW fns, Len(fns) \in Nat
    PROVE  /\ ReadUpTo(fns)[0] = Empty
           /\ \A i \in 1..Len(fns) : ReadUpTo(fns)[i] = ReadEntry(ReadUpTo(fns)[i - 1], fns[i])
<1> DEFINE Then(p, i) == ReadEntry(p[i - 1], fns[i])
           Is(p, n) == p = [i \in 0..n |-> IF i = 0 THEN Empty ELSE Then(p, i)]
           Done == {n \in Nat : \E p : Is(p, n)}
<1>1. 0 \in Done
  <2>1. Is([i \in 0..0 |-> Empty], 0)
    OBVIOUS
  <2>2. QED
    BY <2>1
<1>2. ASSUME NEW n \in Nat, n \in Done PROVE n + 1 \in Done
  <2>1. PICK p : Is(p, n)
    BY <1>2
  <2> DEFINE q == [i \in 0..(n + 1) |-> IF i = n + 1 THEN Then(p, n + 1) ELSE p[i]]
  <2>2. n + 1 \in 0..(n + 1) /\ (n + 1) - 1 = n /\ n # n + 1
    OBVIOUS
  <2>3. q[n + 1] = Then(p, n + 1) /\ \A i \in 0..n : q[i] = p[i]
    BY <2>2
  <2>4. \A i \in 0..(n + 1) : q[i] = IF i = 0 THEN Empty ELSE Then(q, i)
    <3> SUFFICES ASSUME NEW i \in 0..(n + 1) PROVE q[i] = IF i = 0 THEN Empty ELSE Then(q, i)
      OBVIOUS
    <3> HIDE DEF q
    <3>1. CASE i = n + 1
      BY <2>2, <2>3, <3>1
    <3>2. CASE i \in 0..n
      <4>1. q[i] = p[i] /\ (i # 0 => q[i - 1] = p[i - 1])
        BY <2>3, <3>2
      <4>2. p[i] = IF i = 0 THEN Empty ELSE Then(p, i)
        BY <2>1, <3>2
      <4>3. QED
        BY <4>1, <4>2
    <3>3. QED
      BY <3>1, <3>2
  <2>5. q = [i \in 0..(n + 1) |-> q[i]]
    OBVIOUS
  <2> HIDE DEF q
  <2>6. Is(q, n + 1)
    BY <2>4, <2>5
  <2>7. QED
    BY <2>6
<1>3. Len(fns) \in Done
  <2> HIDE DEF Done
  <2>1. QED
    BY <1>1, <1>2, CountUp
<1>4. PICK p : Is(p, Len(fns))
  BY <1>3
<1>5. ReadUpTo(fns) = CHOOSE q : Is(q, Len(fns))
  BY DEF ReadUpTo
<1>6. Is(ReadUpTo(fns), Len(fns))
  <2> HIDE DEF Is
  <2>1. QED
    BY <1>4, <1>5
<1>7. \A i \in 0..Len(fns) : ReadUpTo(fns)[i] = IF i = 0 THEN Empty ELSE Then(ReadUpTo(fns), i)
  BY <1>6
<1>8. QED
  BY <1>7

\* The functions that are open.
LEMMA ListingIs ==
    ASSUME NotesTypeOK
    PROVE  /\ IsFiniteSet(DOMAIN Listing) /\ DOMAIN Listing \subseteq Nat \ {0}
           /\ \A f \in DOMAIN Listing : FuncHash(Listing[f]) \in Hashes
           /\ funcs = {} => DOMAIN Listing = {}
<1>1. CASE funcs = {}
  <2>1. DOMAIN Listing = {}
    BY <1>1 DEF Listing
  <2>2. QED
    BY <2>1, FS_EmptySet
<1>2. CASE funcs = {image}
  <2>1. Listing = image /\ image \in Images
    BY <1>2 DEF Listing, NotesTypeOK
  <2>2. \A f \in DOMAIN image : image[f] \in UNION {{i[g] : g \in DOMAIN i} : i \in Images}
    BY <2>1
  <2>3. \A f \in DOMAIN image : FuncHash(image[f]) \in Hashes
    BY <2>2 DEF Hashes
  <2>4. QED
    BY <1>2, <2>1, <2>3, AnnotationsAssumption
<1>3. QED
  BY <1>1, <1>2 DEF NotesTypeOK

\* A record is bound where its recorded identity allows.
LEMMA BindFits ==
    ASSUME NotesTypeOK, NEW hash \in Hashes, NEW rva \in Nat, Bind(hash, rva) # Unbound
    PROVE  LET b == Bind(hash, rva) IN
           /\ b \in DOMAIN Listing
           /\ NoHash \in {hash, FuncHash(Listing[b])} \/ hash = FuncHash(Listing[b])
           /\ (\E f \in DOMAIN Listing \ {b} : FuncHash(Listing[f]) = FuncHash(Listing[b]))
                 => b = rva
<1> DEFINE H(f) == FuncHash(Listing[f])
           twins == {f \in DOMAIN Listing : hash # NoHash /\ H(f) = hash}
<1>1. CASE Cardinality(twins) = 1
  <2>1. IsFiniteSet(twins)
    BY ListingIs, FS_Subset
  <2>2. \E t : twins = {t}
    <3> HIDE DEF twins
    <3>1. QED
      BY <1>1, <2>1, FS_Singleton
  <2>3. PICK t : twins = {t}
    BY <2>2
  <2>4. t \in DOMAIN Listing /\ hash # NoHash /\ H(t) = hash
    BY <2>3
  <2>5. Bind(hash, rva) = t
    BY <1>1, <2>3 DEF Bind
  <2>6. \A f \in DOMAIN Listing : H(f) = H(t) => f = t
    BY <2>3, <2>4
  <2> HIDE DEF twins
  <2>7. QED
    BY <2>4, <2>5, <2>6
<1>2. CASE Cardinality(twins) # 1
  <2>1. Bind(hash, rva) = IF /\ rva \in DOMAIN Listing
                             /\ NoHash \in {hash, H(rva)} \/ hash = H(rva)
                          THEN rva ELSE Unbound
    BY <1>2 DEF Bind
  <2> HIDE DEF H
  <2>2. rva \in DOMAIN Listing /\ (NoHash \in {hash, H(rva)} \/ hash = H(rva)) /\ Bind(hash, rva) = rva
    BY <2>1
  <2>3. QED
    BY <2>2 DEF H
<1>3. QED
  BY <1>1, <1>2

\* The list in which an address has its record.
LEMMA WithAnnoIs ==
    ASSUME NEW list \in Seq(Anno), OneRecord(list), NEW rva \in Nat
    PROVE  LET grown == WithAnno(list, rva) IN
           /\ grown \in Seq(Anno) /\ OneRecord(grown)
           /\ \E i \in DOMAIN grown : grown[i].rva = rva
           /\ \A i \in DOMAIN grown : grown[i].rva # rva => i \in DOMAIN list /\ grown[i] = list[i]
           /\ (\A i \in DOMAIN list : list[i].rva # rva) => grown = Append(list, NewAnno(rva))
<1> DEFINE grown == WithAnno(list, rva)
           fresh == NewAnno(rva)
<1>1. fresh \in Anno /\ fresh.rva = rva
  BY DEF NewAnno, Anno, Hashes, NoteTexts, Unbound
<1>2. grown = IF \E i \in DOMAIN list : list[i].rva = rva THEN list ELSE Append(list, fresh)
  BY DEF WithAnno
<1> HIDE DEF grown, fresh
<1>3. CASE \E i \in DOMAIN list : list[i].rva = rva
  BY <1>2, <1>3 DEF grown
<1>4. CASE \A i \in DOMAIN list : list[i].rva # rva
  <2>1. grown = Append(list, fresh)
    BY <1>2, <1>4
  <2>2. /\ grown \in Seq(Anno) /\ DOMAIN grown = 1..(Len(list) + 1)
        /\ grown[Len(list) + 1] = fresh
        /\ \A i \in DOMAIN list : grown[i] = list[i]
    BY ONLY list \in Seq(Anno), <1>1, <2>1, Appended
  <2>3. DOMAIN list = 1..Len(list) /\ Len(list) \in Nat
    BY Elements
  <2>4. \A i : i \in DOMAIN grown <=> i \in DOMAIN list \/ i = Len(list) + 1
    BY ONLY <2>2, <2>3
  <2>5. OneRecord(grown)
    <3>1. ASSUME NEW i \in DOMAIN grown, NEW j \in DOMAIN grown, grown[i].rva = grown[j].rva
          PROVE  i = j
      <4>1. CASE i \in DOMAIN list /\ j \in DOMAIN list
        BY <2>2, <3>1, <4>1 DEF OneRecord
      <4>2. CASE i \notin DOMAIN list \/ j \notin DOMAIN list
        BY <1>1, <1>4, <2>2, <2>4, <3>1, <4>2
      <4>3. QED
        BY <4>1, <4>2
    <3>2. QED
      BY <3>1 DEF OneRecord
  <2>6. QED
    BY <1>1, <2>1, <2>2, <2>4, <2>5 DEF grown, fresh
<1>5. QED
  BY <1>3, <1>4

Told(r, hash, name, comment) ==
    [rva |-> r.rva, hash |-> hash, name |-> IF name = "" THEN r.name ELSE name,
     comment |-> IF comment = "" THEN r.comment ELSE comment, bound |-> Unbound]

\* One record of an address is told of, the others are the same.
Retold(new, list, rva, hash, name, comment) ==
    /\ new \in Seq(Anno) /\ DOMAIN new = DOMAIN list
    /\ \E place \in DOMAIN list :
          /\ list[place].rva = rva /\ new[place] = Told(list[place], hash, name, comment)
          /\ \A i \in DOMAIN list : i # place => new[i] = list[i]

\* A rename or comment changes the record of its address.
LEMMA SaidIs ==
    ASSUME NEW list \in Seq(Anno), OneRecord(list), NEW rva, \E i \in DOMAIN list : list[i].rva = rva,
           NEW hash \in Hashes, NEW name \in NoteTexts, NEW comment \in NoteTexts
    PROVE  Retold(Said(list, rva, hash, name, comment), list, rva, hash, name, comment)
<1> DEFINE place == CHOOSE i \in DOMAIN list :
                     list[i].rva = rva /\ \A j \in 1..(i - 1) : list[j].rva # rva
           new == Said(list, rva, hash, name, comment)
<1>1. DOMAIN list = 1..Len(list) /\ Len(list) \in Nat /\ \A i \in DOMAIN list : list[i] \in Anno
  BY Elements
<1>2. place \in DOMAIN list /\ list[place].rva = rva
  <2>1. PICK i \in DOMAIN list : list[i].rva = rva
    OBVIOUS
  <2>2. \A j \in 1..(i - 1) : j \in DOMAIN list /\ j # i
    BY ONLY <1>1, i \in DOMAIN list
  <2>3. \A j \in 1..(i - 1) : list[j].rva # rva
    BY <2>1, <2>2 DEF OneRecord
  <2>4. QED
    BY <2>1, <2>3
<1>3. new = [list EXCEPT ![place].hash = hash, ![place].name = IF name = "" THEN @ ELSE name,
                         ![place].comment = IF comment = "" THEN @ ELSE comment,
                         ![place].bound = Unbound]
  BY DEF Said
<1> HIDE DEF place, new
<1>4. list[place] \in Anno
  BY <1>1, <1>2
<1>5. new[place] = Told(list[place], hash, name, comment)
  BY <1>2, <1>3, <1>4 DEF Anno, Told
<1>6. /\ DOMAIN new = DOMAIN list /\ new = [i \in DOMAIN list |-> new[i]]
      /\ \A i \in DOMAIN list : i # place => new[i] = list[i]
  BY <1>2, <1>3
<1>7. Told(list[place], hash, name, comment) \in Anno
  BY <1>4 DEF Told, Anno, Unbound, NoteTexts
<1>8. \A i \in DOMAIN list : new[i] \in Anno
  BY ONLY <1>1, <1>5, <1>6, <1>7
<1>9. new \in Seq(Anno)
  BY ONLY <1>1, <1>6, <1>8
<1>10. QED
  BY <1>2, <1>5, <1>6, <1>9 DEF new, Retold

\* What a rename or comment leaves: one record per address, which says
\* something, and a changed one is unbound.
LEMMA SaidKeeps ==
    ASSUME NEW list \in Seq(Anno), OneRecord(list), Speaking(list), NEW rva \in Nat,
           NEW hash \in Hashes, NEW name \in NoteTexts, NEW comment \in NoteTexts,
           name # "" \/ comment # ""
    PROVE  LET new == Said(WithAnno(list, rva), rva, hash, name, comment) IN
           /\ new \in Seq(Anno) /\ OneRecord(new) /\ Speaking(new)
           /\ \A i \in DOMAIN new :
                 new[i].bound # Unbound => i \in DOMAIN list /\ new[i] = list[i]
<1> DEFINE grown == WithAnno(list, rva)
           new == Said(grown, rva, hash, name, comment)
<1>1. /\ grown \in Seq(Anno) /\ OneRecord(grown)
      /\ \E i \in DOMAIN grown : grown[i].rva = rva
      /\ \A i \in DOMAIN grown : grown[i].rva # rva => i \in DOMAIN list /\ grown[i] = list[i]
  BY WithAnnoIs
<1> HIDE DEF grown
<1> HIDE DEF new
<1>2. Retold(new, grown, rva, hash, name, comment)
  BY <1>1, SaidIs DEF new
<1>3. PICK place \in DOMAIN grown :
         /\ grown[place].rva = rva /\ new[place] = Told(grown[place], hash, name, comment)
         /\ \A i \in DOMAIN grown : i # place => new[i] = grown[i]
  BY <1>2 DEF Retold
<1>6. /\ Told(grown[place], hash, name, comment).rva = grown[place].rva
      /\ Told(grown[place], hash, name, comment).bound = Unbound
      /\ \/ Told(grown[place], hash, name, comment).name # ""
         \/ Told(grown[place], hash, name, comment).comment # ""
  BY DEF Told
<1>7. /\ DOMAIN new = DOMAIN grown /\ new[place] = Told(grown[place], hash, name, comment)
      /\ \A i \in DOMAIN grown : i # place => new[i] = grown[i]
  BY ONLY <1>2, <1>3 DEF Retold
<1>8. \A i \in DOMAIN grown : new[i].rva = grown[i].rva
  BY ONLY <1>6, <1>7
<1>10. OneRecord(new)
  BY ONLY <1>1, <1>7, <1>8 DEF OneRecord
<1>11. \A i \in DOMAIN new : i # place => i \in DOMAIN list /\ new[i] = list[i]
  BY ONLY <1>1, <1>3, <1>7 DEF OneRecord
<1>12. Speaking(new)
  BY ONLY Speaking(list), <1>6, <1>7, <1>11 DEF Speaking
<1>13. \A i \in DOMAIN new : new[i].bound # Unbound => i \in DOMAIN list /\ new[i] = list[i]
  BY ONLY <1>6, <1>7, <1>11
<1>14. QED
  BY <1>2, <1>10, <1>12, <1>13 DEF grown, new, Retold

\* The record of an address that had none is appended.
LEMMA SaidAppends ==
    ASSUME NEW list \in Seq(Anno), OneRecord(list), NEW rva \in Nat,
           \A i \in DOMAIN list : list[i].rva # rva,
           NEW hash \in Hashes, NEW name \in NoteTexts, NEW comment \in NoteTexts
    PROVE  Said(WithAnno(list, rva), rva, hash, name, comment)
               = Append(list, [rva |-> rva, hash |-> hash, name |-> name,
                               comment |-> comment, bound |-> Unbound])
<1> DEFINE fresh == NewAnno(rva)
           r == [rva |-> rva, hash |-> hash, name |-> name, comment |-> comment, bound |-> Unbound]
           grown == Append(list, fresh)
           new == Said(grown, rva, hash, name, comment)
<1>1. fresh \in Anno /\ fresh.rva = rva
  BY DEF NewAnno, Anno, Hashes, NoteTexts, Unbound
<1>2. Told(fresh, hash, name, comment) = r
  BY DEF NewAnno, Told
<1>3. WithAnno(list, rva) = grown /\ OneRecord(WithAnno(list, rva))
  BY WithAnnoIs
<1> HIDE DEF fresh, r
<1>4. /\ grown \in Seq(Anno) /\ DOMAIN grown = 1..(Len(list) + 1)
      /\ grown[Len(list) + 1] = fresh
      /\ \A i \in DOMAIN list : grown[i] = list[i]
  BY ONLY list \in Seq(Anno), <1>1, Appended
<1> HIDE DEF grown
<1>5. DOMAIN list = 1..Len(list) /\ Len(list) \in Nat
  BY Elements
<1>6. \A i : i \in DOMAIN grown <=> i \in DOMAIN list \/ i = Len(list) + 1
  BY ONLY <1>4, <1>5
<1>7. Retold(new, grown, rva, hash, name, comment)
  <2>1. \E i \in DOMAIN grown : grown[i].rva = rva
    BY <1>1, <1>4, <1>6
  <2>2. QED
    BY <1>3, <1>4, <2>1, SaidIs
<1> HIDE DEF new
<1>8. PICK place \in DOMAIN grown :
         /\ grown[place].rva = rva /\ new[place] = Told(grown[place], hash, name, comment)
         /\ \A i \in DOMAIN grown : i # place => new[i] = grown[i]
  BY <1>7 DEF Retold
<1>9. new = [i \in 1..(Len(list) + 1) |-> IF i = Len(list) + 1 THEN r ELSE list[i]]
  <2>1. place = Len(list) + 1
    BY <1>4, <1>6, <1>8
  <2>2. \A i \in 1..(Len(list) + 1) : new[i] = IF i = Len(list) + 1 THEN r ELSE list[i]
    BY <1>2, <1>4, <1>6, <1>8, <2>1
  <2>3. new = [i \in 1..(Len(list) + 1) |-> new[i]]
    BY ONLY <1>4, <1>7 DEF Retold
  <2>4. QED
    BY ONLY <2>2, <2>3
<1>10. Append(list, r) = [i \in 1..(Len(list) + 1) |-> IF i = Len(list) + 1 THEN r ELSE list[i]]
  <2> DEFINE app == Append(list, r)
  <2>1. r \in Anno
    BY DEF r, Anno, Unbound
  <2>2. /\ app \in Seq(Anno) /\ DOMAIN app = 1..(Len(list) + 1) /\ app[Len(list) + 1] = r
        /\ \A i \in DOMAIN list : app[i] = list[i]
    BY ONLY list \in Seq(Anno), <2>1, Appended
  <2> HIDE DEF app
  <2>3. app = [i \in 1..(Len(list) + 1) |-> app[i]]
    BY ONLY <2>2
  <2>4. \A i \in 1..(Len(list) + 1) : app[i] = IF i = Len(list) + 1 THEN r ELSE list[i]
    BY ONLY <1>5, <2>2
  <2>5. QED
    BY ONLY <2>3, <2>4 DEF app
<1>11. QED
  BY <1>3, <1>9, <1>10 DEF new, r

\* A store that nothing has been bound in yet.
Unresolved(s) ==
    /\ s \in Stores
    /\ OneRecord(s.annos) /\ Speaking(s.annos)
    /\ \A i \in DOMAIN s.annos : s.annos[i].bound = Unbound
    /\ \A i \in DOMAIN s.annoVars : s.annoVars[i].bound = Unbound

\* The variables of an entry as records of the store.
AsRead(fn) ==
    LET kept == Those(fn.vars, {v \in ToSet(fn.vars) : v.to # "" \/ v.type # ""}) IN
    [i \in DOMAIN kept |->
        [rva |-> fn.key.rva, hash |-> fn.key.hash, from |-> kept[i].from,
         to |-> kept[i].to, type |-> kept[i].type, bound |-> Unbound]]

LEMMA AsReadIs ==
    ASSUME NEW fn \in Entry
    PROVE  /\ AsRead(fn) \in Seq(AnnoVar)
           /\ \A i \in DOMAIN AsRead(fn) : AsRead(fn)[i].bound = Unbound
           /\ ToSet(AsRead(fn)) =
                 {[rva |-> fn.key.rva, hash |-> fn.key.hash, from |-> v.from, to |-> v.to,
                   type |-> v.type, bound |-> Unbound] :
                     v \in {w \in ToSet(fn.vars) : w.to # "" \/ w.type # ""}}
<1> DEFINE S == {v \in ToSet(fn.vars) : v.to # "" \/ v.type # ""}
           kept == Those(fn.vars, S)
           rec(v) == [rva |-> fn.key.rva, hash |-> fn.key.hash, from |-> v.from,
                      to |-> v.to, type |-> v.type, bound |-> Unbound]
<1>1. AsRead(fn) = [i \in DOMAIN kept |-> rec(kept[i])]
  BY DEF AsRead
<1>2. fn.vars \in Seq(AnnoVar) /\ fn.key \in [hash : Hashes, rva : Nat]
  BY DEF Entry
<1>3. S \subseteq ToSet(fn.vars)
  OBVIOUS
<1>4. \A v \in AnnoVar : rec(v) \in AnnoVar
  BY <1>2 DEF AnnoVar, Unbound
<1>5. \A v : rec(v).bound = Unbound
  OBVIOUS
<1> HIDE DEF S, rec
<1>6. kept \in Seq(AnnoVar) /\ ToSet(kept) = S
  <2>1. kept \in Seq(AnnoVar) /\ ToSet(kept) = ToSet(fn.vars) \cap S
    BY <1>2, ThoseAre
  <2>2. QED
    BY <1>3, <2>1
<1> HIDE DEF kept
<1>7. /\ DOMAIN kept = 1..Len(kept) /\ Len(kept) \in Nat /\ \A i \in DOMAIN kept : kept[i] \in AnnoVar
      /\ \A x : x \in ToSet(kept) <=> \E i \in DOMAIN kept : kept[i] = x
  BY <1>6, Elements
<1>8. AsRead(fn) \in Seq(AnnoVar)
  BY <1>1, <1>4, <1>7
<1>9. \A i \in DOMAIN AsRead(fn) : AsRead(fn)[i].bound = Unbound
  BY <1>1, <1>5
<1>10. ToSet(AsRead(fn)) = {rec(v) : v \in S}
  <2>1. ToSet(AsRead(fn)) = {rec(kept[i]) : i \in DOMAIN kept}
    BY <1>1 DEF ToSet
  <2>2. QED
    BY <1>6, <1>7, <2>1
<1>11. QED
  BY <1>8, <1>9, <1>10 DEF rec, S

\* One list after another.
LEMMA Concatenated ==
    ASSUME NEW A, NEW s \in Seq(A), NEW t \in Seq(A)
    PROVE  /\ s \o t \in Seq(A)
           /\ ToSet(s \o t) = ToSet(s) \cup ToSet(t)
<1> DEFINE u == s \o t
<1>1. u \in Seq(A) /\ Len(u) = Len(s) + Len(t) /\ Len(s) \in Nat /\ Len(t) \in Nat
  OBVIOUS
<1>2. \A i \in 1..(Len(s) + Len(t)) : u[i] = IF i <= Len(s) THEN s[i] ELSE t[i - Len(s)]
  OBVIOUS
<1> HIDE DEF u
<1>3. DOMAIN s = 1..Len(s) /\ DOMAIN t = 1..Len(t) /\ DOMAIN u = 1..(Len(s) + Len(t))
  BY <1>1
<1>4. \A i \in DOMAIN s : i \in DOMAIN u /\ u[i] = s[i]
  BY <1>1, <1>2, <1>3
<1>5. \A i \in DOMAIN t : i + Len(s) \in DOMAIN u /\ u[i + Len(s)] = t[i]
  BY <1>1, <1>2, <1>3
<1>6. \A i \in DOMAIN u :
         \/ i \in DOMAIN s /\ u[i] = s[i]
         \/ \E j \in DOMAIN t : u[i] = t[j]
  <2>1. \A i \in DOMAIN u : i <= Len(s) => i \in DOMAIN s /\ u[i] = s[i]
    BY ONLY <1>1, <1>2, <1>3
  <2>2. \A i \in DOMAIN u : ~(i <= Len(s)) => i - Len(s) \in DOMAIN t /\ u[i] = t[i - Len(s)]
    BY ONLY <1>1, <1>2, <1>3
  <2>3. QED
    BY ONLY <2>1, <2>2
<1>7. ToSet(u) = ToSet(s) \cup ToSet(t)
  <2>1. \A x : x \in ToSet(u) <=> \E i \in DOMAIN u : u[i] = x
    BY DEF ToSet
  <2>2. \A x : x \in ToSet(s) <=> \E i \in DOMAIN s : s[i] = x
    BY DEF ToSet
  <2>3. \A x : x \in ToSet(t) <=> \E i \in DOMAIN t : t[i] = x
    BY DEF ToSet
  <2>4. ToSet(u) \subseteq ToSet(s) \cup ToSet(t)
    BY ONLY <1>6, <2>1, <2>2, <2>3
  <2>5. ToSet(s) \subseteq ToSet(u)
    BY ONLY <1>4, <2>1, <2>2
  <2>6. ToSet(t) \subseteq ToSet(u)
    BY ONLY <1>5, <2>1, <2>3
  <2>7. QED
    BY <2>4, <2>5, <2>6
<1>8. QED
  BY <1>1, <1>7 DEF u

\* What an entry of the file does to the store.
LEMMA ReadEntryIs ==
    ASSUME NEW s \in Stores, NEW fn \in Entry
    PROVE  LET t == ReadEntry(s, fn) IN
           IF s.failed \/ ~fn.ok THEN t.annos = s.annos /\ t.annoVars = s.annoVars /\ t.failed
           ELSE /\ t.annos = IF fn.name = "" /\ fn.comment = "" THEN s.annos
                             ELSE Said(WithAnno(s.annos, fn.key.rva), fn.key.rva, fn.key.hash,
                                       fn.name, fn.comment)
                /\ t.annoVars = s.annoVars \o AsRead(fn)
                /\ ~t.failed
<1>1. CASE s.failed \/ ~fn.ok
  <2>1. ReadEntry(s, fn) = [s EXCEPT !.failed = TRUE]
    BY <1>1 DEF ReadEntry
  <2>2. QED
    BY <1>1, <2>1 DEF Stores
<1>2. CASE ~s.failed /\ fn.ok
  <2> DEFINE said == IF fn.name = "" /\ fn.comment = "" THEN s.annos
                     ELSE Said(WithAnno(s.annos, fn.key.rva), fn.key.rva, fn.key.hash,
                               fn.name, fn.comment)
  <2>1. ReadEntry(s, fn) = [s EXCEPT !.annos = said, !.annoVars = s.annoVars \o AsRead(fn)]
    BY <1>2 DEF ReadEntry, AsRead
  <2> HIDE DEF said
  <2>2. /\ ReadEntry(s, fn).annos = said /\ ReadEntry(s, fn).annoVars = s.annoVars \o AsRead(fn)
        /\ ReadEntry(s, fn).failed = s.failed
    BY <2>1 DEF Stores
  <2>3. QED
    BY <1>2, <2>2 DEF said
<1>3. QED
  BY <1>1, <1>2

\* Reading an entry leaves nothing bound, one record per address, each saying
\* something; so does reading them all.
LEMMA ReadEntryKeeps ==
    ASSUME NEW s, Unresolved(s), NEW fn \in Entry
    PROVE  Unresolved(ReadEntry(s, fn))
<1> DEFINE t == ReadEntry(s, fn)
<1>1. /\ s \in Stores /\ s.annos \in Seq(Anno) /\ s.annoVars \in Seq(AnnoVar)
      /\ OneRecord(s.annos) /\ Speaking(s.annos)
      /\ \A i \in DOMAIN s.annos : s.annos[i].bound = Unbound
      /\ \A i \in DOMAIN s.annoVars : s.annoVars[i].bound = Unbound
  BY DEF Unresolved, Stores
<1>2. IF s.failed \/ ~fn.ok THEN t.annos = s.annos /\ t.annoVars = s.annoVars /\ t.failed
      ELSE /\ t.annos = IF fn.name = "" /\ fn.comment = "" THEN s.annos
                        ELSE Said(WithAnno(s.annos, fn.key.rva), fn.key.rva, fn.key.hash,
                                  fn.name, fn.comment)
           /\ t.annoVars = s.annoVars \o AsRead(fn)
           /\ ~t.failed
  BY <1>1, ReadEntryIs
<1>3. t \in [annos : {t.annos}, annoVars : {t.annoVars}, failed : BOOLEAN]
  <2>1. s = [annos |-> s.annos, annoVars |-> s.annoVars, failed |-> s.failed] /\ s.failed \in BOOLEAN
    BY <1>1 DEF Stores
  <2>2. CASE s.failed \/ ~fn.ok
    BY <2>1, <2>2 DEF ReadEntry
  <2>3. CASE ~s.failed /\ fn.ok
    <3>1. \E a, v : t = [s EXCEPT !.annos = a, !.annoVars = v]
      BY <2>3 DEF ReadEntry
    <3> HIDE DEF t
    <3>2. QED
      BY <2>1, <3>1
  <2>4. QED
    BY <2>2, <2>3
<1> HIDE DEF t
<1>4. /\ t.annos \in Seq(Anno) /\ OneRecord(t.annos) /\ Speaking(t.annos)
      /\ \A i \in DOMAIN t.annos : t.annos[i].bound = Unbound
  <2>1. CASE t.annos = s.annos
    BY <1>1, <2>1
  <2>2. CASE /\ fn.name # "" \/ fn.comment # ""
             /\ t.annos = Said(WithAnno(s.annos, fn.key.rva), fn.key.rva, fn.key.hash,
                               fn.name, fn.comment)
    <3>1. fn.key.rva \in Nat /\ fn.key.hash \in Hashes /\ fn.name \in NoteTexts
          /\ fn.comment \in NoteTexts
      BY DEF Entry
    <3> DEFINE list == s.annos
               rva == fn.key.rva
               hash == fn.key.hash
               name == fn.name
               comment == fn.comment
               new == Said(WithAnno(list, rva), rva, hash, name, comment)
    <3>2. list \in Seq(Anno) /\ OneRecord(list) /\ Speaking(list) /\ (name # "" \/ comment # "")
      BY <1>1, <2>2
    <3>3. t.annos = new
      BY <2>2
    <3> HIDE DEF list, rva, hash, name, comment
    <3>4. /\ new \in Seq(Anno) /\ OneRecord(new) /\ Speaking(new)
          /\ \A i \in DOMAIN new :
                new[i].bound # Unbound => i \in DOMAIN list /\ new[i] = list[i]
      <4>1. rva \in Nat /\ hash \in Hashes /\ name \in NoteTexts /\ comment \in NoteTexts
        BY <3>1 DEF rva, hash, name, comment
      <4>2. QED
        BY ONLY <3>2, <4>1, SaidKeeps
    <3> HIDE DEF new
    <3>5. \A i \in DOMAIN new : new[i].bound = Unbound
      BY <1>1, <3>4 DEF list
    <3>6. QED
      BY <3>3, <3>4, <3>5
  <2>3. QED
    BY <1>2, <2>1, <2>2
<1>5. /\ t.annoVars \in Seq(AnnoVar)
      /\ \A i \in DOMAIN t.annoVars : t.annoVars[i].bound = Unbound
  <2>1. CASE t.annoVars = s.annoVars
    BY <1>1, <2>1
  <2>2. CASE t.annoVars = s.annoVars \o AsRead(fn)
    <3> DEFINE new == AsRead(fn)
    <3>1. new \in Seq(AnnoVar) /\ \A i \in DOMAIN new : new[i].bound = Unbound
      BY AsReadIs
    <3>2. t.annoVars \in Seq(AnnoVar) /\ ToSet(t.annoVars) = ToSet(s.annoVars) \cup ToSet(new)
      BY <1>1, <2>2, <3>1, Concatenated
    <3> HIDE DEF new
    <3>3. \A x \in ToSet(s.annoVars) \cup ToSet(new) : x.bound = Unbound
      BY <1>1, <3>1 DEF ToSet
    <3>4. \A i \in DOMAIN t.annoVars : t.annoVars[i] \in ToSet(t.annoVars)
      BY DEF ToSet
    <3>5. QED
      BY <3>2, <3>3, <3>4
  <2>3. QED
    BY <1>2, <2>1, <2>2
<1>6. t \in Stores
  BY <1>3, <1>4, <1>5 DEF Stores
<1>7. QED
  BY <1>4, <1>5, <1>6 DEF Unresolved, t

LEMMA ReadKeeps ==
    ASSUME NEW fns \in Seq(Entry)
    PROVE  \A n \in 0..Len(fns) : Unresolved(ReadUpTo(fns)[n])
<1> DEFINE after == ReadUpTo(fns)
           G == {n \in Nat : n <= Len(fns) => Unresolved(after[n])}
<1>1. Len(fns) \in Nat /\ \A i \in 1..Len(fns) : fns[i] \in Entry
  OBVIOUS
<1>2. after[0] = Empty /\ \A i \in 1..Len(fns) : after[i] = ReadEntry(after[i - 1], fns[i])
  BY <1>1, ReadUpToIs
<1> HIDE DEF after
<1>3. Unresolved(Empty)
  <2>1. Empty.annos = <<>> /\ Empty.annoVars = <<>> /\ Empty \in Stores
    BY DEF Empty, Stores
  <2>2. QED
    BY <2>1 DEF Unresolved, OneRecord, Speaking
<1>4. ASSUME NEW n \in Nat, n \in G PROVE n + 1 \in G
  <2> SUFFICES ASSUME n + 1 <= Len(fns) PROVE Unresolved(after[n + 1])
    OBVIOUS
  <2>1. n + 1 \in 1..Len(fns) /\ (n + 1) - 1 = n /\ n <= Len(fns)
    BY <1>1
  <2>2. after[n + 1] = ReadEntry(after[n], fns[n + 1])
    BY <1>2, <2>1
  <2>3. QED
    BY <1>1, <1>4, <2>1, <2>2, ReadEntryKeeps
<1>5. Nat \subseteq G
  <2>1. 0 \in G
    BY <1>2, <1>3
  <2> HIDE DEF G
  <2>2. QED
    BY <1>4, <2>1, CountUp
<1>6. QED
  BY <1>1, <1>5 DEF after

\* A record as it was made, whatever it is bound to.
Made(r) == [r EXCEPT !.bound = Unbound]

\* Binding the records changes nothing but the bindings, which are ones their
\* identities allow, and no function gets two names.
LEMMA ResolvedIs ==
    ASSUME NotesTypeOK, NEW s, Unresolved(s)
    PROVE  LET t == Resolved(s) IN
           /\ t.annos \in Seq(Anno) /\ DOMAIN t.annos = DOMAIN s.annos
           /\ \A i \in DOMAIN s.annos : Made(t.annos[i]) = s.annos[i]
           /\ t.annoVars \in Seq(AnnoVar) /\ DOMAIN t.annoVars = DOMAIN s.annoVars
           /\ \A i \in DOMAIN s.annoVars : Made(t.annoVars[i]) = s.annoVars[i]
           /\ AllFit(t.annos) /\ AllFit(t.annoVars) /\ OneName(t.annos)
<1> DEFINE t == Resolved(s)
           claim(r) == Bind(r.hash, r.rva)
           taken(i) == \E j \in 1..(i - 1) : claim(s.annos[j]) = claim(s.annos[i])
           bound(i) == IF taken(i) THEN Unbound ELSE claim(s.annos[i])
           annos2 == [i \in DOMAIN s.annos |-> [s.annos[i] EXCEPT !.bound = bound(i)]]
           vars2 == [i \in DOMAIN s.annoVars |->
                        [s.annoVars[i] EXCEPT !.bound = claim(s.annoVars[i])]]
<1>1. /\ s \in Stores /\ s.annos \in Seq(Anno) /\ s.annoVars \in Seq(AnnoVar)
      /\ \A i \in DOMAIN s.annos : s.annos[i].bound = Unbound
      /\ \A i \in DOMAIN s.annoVars : s.annoVars[i].bound = Unbound
  BY DEF Unresolved, Stores
<1>2. /\ DOMAIN s.annos = 1..Len(s.annos) /\ Len(s.annos) \in Nat
      /\ \A i \in DOMAIN s.annos : s.annos[i] \in Anno
  BY <1>1, Elements
<1>3. /\ DOMAIN s.annoVars = 1..Len(s.annoVars) /\ Len(s.annoVars) \in Nat
      /\ \A i \in DOMAIN s.annoVars : s.annoVars[i] \in AnnoVar
  BY <1>1, Elements
<1>4. t.annos = annos2 /\ t.annoVars = vars2
  BY <1>1 DEF Resolved, Stores
<1>5. ASSUME NEW hash \in Hashes, NEW rva \in Nat
      PROVE  /\ Bind(hash, rva) \in Nat
             /\ \A r : r.hash = hash /\ r.rva = rva /\ r.bound = Bind(hash, rva) => Fits(r)
  <2> DEFINE b == Bind(hash, rva)
  <2>1. CASE b = Unbound
    BY <2>1 DEF Unbound, Fits
  <2>2. CASE b # Unbound
    <3>1. /\ b \in DOMAIN Listing
          /\ NoHash \in {hash, FuncHash(Listing[b])} \/ hash = FuncHash(Listing[b])
          /\ (\E f \in DOMAIN Listing \ {b} : FuncHash(Listing[f]) = FuncHash(Listing[b]))
                => b = rva
      BY <2>2, BindFits
    <3>2. b \in Nat
      BY <3>1, ListingIs
    <3> HIDE DEF b
    <3>3. \A r : r.hash = hash /\ r.rva = rva /\ r.bound = b => Fits(r)
      BY <3>1 DEF Fits
    <3>4. QED
      BY <3>2, <3>3 DEF b
  <2>3. QED
    BY <2>1, <2>2
<1>6. ASSUME NEW i \in DOMAIN s.annos
      PROVE  /\ annos2[i] \in Anno /\ Made(annos2[i]) = s.annos[i] /\ Fits(annos2[i])
             /\ annos2[i].bound = bound(i)
  <2>1. s.annos[i] \in Anno /\ s.annos[i].bound = Unbound
    BY <1>1, <1>2
  <2>2. s.annos[i].hash \in Hashes /\ s.annos[i].rva \in Nat
    BY <2>1 DEF Anno
  <2>3. bound(i) \in Nat /\ (bound(i) = Unbound \/ bound(i) = Bind(s.annos[i].hash, s.annos[i].rva))
    BY <1>5, <2>2 DEF Unbound
  <2> HIDE DEF bound
  <2>4. /\ annos2[i] \in Anno /\ annos2[i].hash = s.annos[i].hash
        /\ annos2[i].rva = s.annos[i].rva /\ annos2[i].bound = bound(i)
    BY <2>1, <2>3 DEF Anno
  <2>5. Made(annos2[i]) = s.annos[i]
    BY <2>1 DEF Made, Anno
  <2>6. Fits(annos2[i])
    <3> HIDE DEF annos2
    <3>1. CASE bound(i) = Unbound
      BY <2>4, <3>1 DEF Fits
    <3>2. CASE bound(i) = Bind(s.annos[i].hash, s.annos[i].rva)
      BY <1>5, <2>2, <2>4, <3>2
    <3>3. QED
      BY <2>3, <3>1, <3>2
  <2>7. QED
    BY <2>4, <2>5, <2>6
<1>7. ASSUME NEW i \in DOMAIN s.annoVars
      PROVE  vars2[i] \in AnnoVar /\ Made(vars2[i]) = s.annoVars[i] /\ Fits(vars2[i])
  <2>1. s.annoVars[i] \in AnnoVar /\ s.annoVars[i].bound = Unbound
    BY <1>1, <1>3
  <2>2. s.annoVars[i].hash \in Hashes /\ s.annoVars[i].rva \in Nat
    BY <2>1 DEF AnnoVar
  <2> DEFINE b == Bind(s.annoVars[i].hash, s.annoVars[i].rva)
  <2>3. b \in Nat
    BY <1>5, <2>2
  <2>4. vars2[i] = [s.annoVars[i] EXCEPT !.bound = b]
    OBVIOUS
  <2> HIDE DEF b, vars2
  <2>5. /\ vars2[i] \in AnnoVar /\ vars2[i].hash = s.annoVars[i].hash
        /\ vars2[i].rva = s.annoVars[i].rva /\ vars2[i].bound = b
    BY <2>1, <2>3, <2>4 DEF AnnoVar
  <2>6. Made(vars2[i]) = s.annoVars[i]
    BY <2>1, <2>4 DEF Made, AnnoVar
  <2>7. Fits(vars2[i])
    BY <1>5, <2>2, <2>5 DEF b
  <2>8. QED
    BY <2>5, <2>6, <2>7
<1>8. DOMAIN annos2 = DOMAIN s.annos /\ DOMAIN vars2 = DOMAIN s.annoVars
  OBVIOUS
<1>9. annos2 \in Seq(Anno) /\ vars2 \in Seq(AnnoVar)
  <2>1. annos2 = [i \in DOMAIN annos2 |-> annos2[i]] /\ vars2 = [i \in DOMAIN vars2 |-> vars2[i]]
    OBVIOUS
  <2> HIDE DEF annos2, vars2
  <2>2. annos2 \in Seq(Anno)
    BY <1>2, <1>6, <1>8, <2>1
  <2>3. vars2 \in Seq(AnnoVar)
    BY <1>3, <1>7, <1>8, <2>1
  <2>4. QED
    BY <2>2, <2>3
<1>10. OneName(annos2)
  <2> SUFFICES ASSUME NEW i \in DOMAIN s.annos, NEW j \in DOMAIN s.annos, i # j,
                      annos2[i].bound # Unbound, annos2[i].bound = annos2[j].bound
               PROVE  FALSE
    BY <1>8 DEF OneName
  <2>1. bound(i) # Unbound /\ bound(i) = bound(j)
    <3>1. annos2[i].bound = bound(i) /\ annos2[j].bound = bound(j)
      BY <1>6
    <3> HIDE DEF annos2, bound
    <3>2. QED
      BY <3>1
  <2>2. claim(s.annos[i]) = claim(s.annos[j]) /\ ~taken(i) /\ ~taken(j)
    BY <2>1
  <2>3. i \in 1..(j - 1) \/ j \in 1..(i - 1)
    BY <1>2
  <2> HIDE DEF claim
  <2>4. QED
    BY <2>2, <2>3
<1>11. AllFit(annos2) /\ AllFit(vars2)
  BY <1>6, <1>7, <1>8 DEF AllFit
<1> HIDE DEF annos2, vars2
<1>12. QED
  BY <1>4, <1>6, <1>7, <1>8, <1>9, <1>10, <1>11

\* What is written: an entry for every identity that is recorded, none twice,
\* with what is said of it and its variables.
LEMMA WrittenIs ==
    ASSUME NEW list \in Seq(Anno), NEW vars \in Seq(AnnoVar), OneRecord(list), Speaking(list)
    PROVE  LET w == Written([annos |-> list, annoVars |-> vars]).functions IN
           /\ w \in Seq(Entry)
           /\ \A i \in DOMAIN w : w[i].ok
           /\ \A i, j \in DOMAIN w : w[i].key = w[j].key => i = j
           /\ \A r \in ToSet(list) \cup ToSet(vars) : \E i \in DOMAIN w : w[i].key = Key(r)
           /\ \A i \in DOMAIN w : \A a \in ToSet(list) :
                 Key(a) = w[i].key => w[i].name = a.name /\ w[i].comment = a.comment
           /\ \A i \in DOMAIN w :
                 (\A a \in ToSet(list) : Key(a) # w[i].key) => w[i].name = "" /\ w[i].comment = ""
           /\ \A i \in DOMAIN w : ToSet(w[i].vars) = {v \in ToSet(vars) : Key(v) = w[i].key}
<1> DEFINE s == [annos |-> list, annoVars |-> vars]
           A == Anno \cup AnnoVar
           said == Those(list, Spoken(s))
           all == said \o vars
           keys == Keys(all)
           of(k) == Those(list, {a \in Spoken(s) : Key(a) = k})
           name(k) == IF of(k) = <<>> THEN "" ELSE Last(of(k)).name
           comment(k) == IF of(k) = <<>> THEN "" ELSE Last(of(k)).comment
           w == Written(s).functions
           entry(k) == [ok |-> TRUE, key |-> k, name |-> name(k), comment |-> comment(k),
                        vars |-> VarsOf(s, k)]
<1>1. /\ DOMAIN list = 1..Len(list) /\ \A i \in DOMAIN list : list[i] \in Anno
      /\ \A x : x \in ToSet(list) <=> \E i \in DOMAIN list : list[i] = x
      /\ ToSet(list) \subseteq Anno /\ ToSet(vars) \subseteq AnnoVar
  BY Elements
<1>2. Spoken(s) = ToSet(list)
  <2>1. s.annos = list
    OBVIOUS
  <2> HIDE DEF s
  <2>2. \A a \in ToSet(list) : a.name # "" \/ a.comment # ""
    BY <1>1 DEF Speaking
  <2>3. QED
    BY <2>1, <2>2 DEF Spoken
<1>3. w = [i \in DOMAIN keys |-> entry(keys[i])]
  BY DEF Written
<1>4. s.annoVars = vars
  OBVIOUS
<1> HIDE DEF s
<1>5. said \in Seq(Anno) /\ ToSet(said) = ToSet(list)
  <2> DEFINE S == Spoken(s)
  <2>1. said \in Seq(Anno) /\ ToSet(said) = ToSet(list) \cap S
    BY ThoseAre
  <2> HIDE DEF said, S
  <2>2. QED
    BY <1>2, <2>1 DEF S
<1> HIDE DEF said
<1>6. all \in Seq(A) /\ ToSet(all) = ToSet(list) \cup ToSet(vars)
  <2>1. said \in Seq(A) /\ vars \in Seq(A)
    BY <1>5
  <2> HIDE DEF A
  <2>2. QED
    BY <1>5, <2>1, Concatenated
<1>7. \A r \in A : Key(r) \in [hash : Hashes, rva : Nat]
  BY DEF Key, Anno, AnnoVar
<1> HIDE DEF all, A
<1>8. /\ keys \in Seq({Key(r) : r \in A})
      /\ \A i \in DOMAIN all : \E n \in DOMAIN keys : keys[n] = Key(all[i])
      /\ \A m, n \in DOMAIN keys : keys[m] = keys[n] => m = n
  BY <1>6, KeysAre
<1> HIDE DEF keys
<1>9. /\ DOMAIN keys = 1..Len(keys) /\ Len(keys) \in Nat
      /\ \A n \in DOMAIN keys : keys[n] \in [hash : Hashes, rva : Nat]
  <2> DEFINE K == {Key(r) : r \in A}
  <2>1. K \subseteq [hash : Hashes, rva : Nat]
    BY <1>7
  <2>2. keys \in Seq(K)
    BY <1>8
  <2> HIDE DEF K
  <2>3. /\ DOMAIN keys = 1..Len(keys) /\ Len(keys) \in Nat
        /\ \A n \in DOMAIN keys : keys[n] \in K
    BY <2>2, Elements
  <2>4. QED
    BY <2>1, <2>3
<1>10. \A r \in ToSet(list) \cup ToSet(vars) : \E n \in DOMAIN keys : keys[n] = Key(r)
  <2>1. \A x : x \in ToSet(all) <=> \E i \in DOMAIN all : all[i] = x
    BY DEF ToSet
  <2>2. QED
    BY <1>6, <1>8, <2>1
<1>11. ASSUME NEW k
       PROVE  /\ of(k) \in Seq(Anno) /\ ToSet(of(k)) = {a \in ToSet(list) : Key(a) = k}
              /\ of(k) # <<>> => Last(of(k)) \in ToSet(list) /\ Key(Last(of(k))) = k
              /\ of(k) = <<>> => \A a \in ToSet(list) : Key(a) # k
  <2> DEFINE S == {a \in Spoken(s) : Key(a) = k}
             f == of(k)
  <2>1. f \in Seq(Anno) /\ ToSet(f) = ToSet(list) \cap S
    BY ThoseAre
  <2>2. ToSet(f) = {a \in ToSet(list) : Key(a) = k}
    BY <1>2, <2>1
  <2> HIDE DEF f, S
  <2>3. f # <<>> => Last(f) \in ToSet(f)
    <3>1. f # <<>> => Len(f) \in DOMAIN f
      BY <2>1
    <3>2. QED
      BY <3>1 DEF Last, ToSet
  <2>4. f = <<>> => ToSet(f) = {}
    BY DEF ToSet
  <2>5. QED
    BY <2>1, <2>2, <2>3, <2>4 DEF f
<1> HIDE DEF of
<1>12. ASSUME NEW k, NEW a \in ToSet(list), Key(a) = k
       PROVE  name(k) = a.name /\ comment(k) = a.comment
  <2>1. of(k) # <<>> /\ Last(of(k)) \in ToSet(list) /\ Key(Last(of(k))) = k
    BY <1>11, <1>12
  <2>2. Last(of(k)).rva = a.rva
    BY <1>12, <2>1 DEF Key
  <2>3. Last(of(k)) = a
    BY <1>1, <2>1, <2>2 DEF OneRecord
  <2>4. QED
    BY <2>1, <2>3
<1>13. ASSUME NEW k, \A a \in ToSet(list) : Key(a) # k
       PROVE  name(k) = "" /\ comment(k) = ""
  BY <1>11, <1>13
<1>14. ASSUME NEW k
       PROVE  name(k) \in NoteTexts /\ comment(k) \in NoteTexts
  <2>1. CASE of(k) = <<>>
    BY <2>1 DEF NoteTexts
  <2>2. CASE of(k) # <<>>
    <3>1. Last(of(k)) \in Anno
      BY <1>1, <1>11, <2>2
    <3>2. QED
      BY <2>2, <3>1 DEF Anno
  <2>3. QED
    BY <2>1, <2>2
<1> HIDE DEF name, comment
<1>15. ASSUME NEW k
       PROVE  VarsOf(s, k) \in Seq(AnnoVar) /\ ToSet(VarsOf(s, k)) = {v \in ToSet(vars) : Key(v) = k}
  <2> DEFINE S == {v \in ToSet(vars) : Key(v) = k}
  <2>1. VarsOf(s, k) = Those(vars, S) /\ S \subseteq ToSet(vars)
    BY <1>4 DEF VarsOf
  <2> HIDE DEF S
  <2>2. Those(vars, S) \in Seq(AnnoVar) /\ ToSet(Those(vars, S)) = ToSet(vars) \cap S
    BY ThoseAre
  <2>3. QED
    BY <2>1, <2>2 DEF S
<1>16. DOMAIN w = DOMAIN keys /\ \A i \in DOMAIN keys : w[i] = entry(keys[i])
  BY <1>3
<1>17. \A i \in DOMAIN keys : w[i] \in Entry
  <2> SUFFICES ASSUME NEW i \in DOMAIN keys PROVE entry(keys[i]) \in Entry
    BY <1>16
  <2>1. keys[i] \in [hash : Hashes, rva : Nat]
    BY <1>9
  <2>2. QED
    BY <1>14, <1>15, <2>1 DEF Entry
<1>18. w \in Seq(Entry)
  <2>1. w = [i \in 1..Len(keys) |-> w[i]]
    BY <1>3, <1>9
  <2> HIDE DEF w
  <2>2. QED
    BY <1>9, <1>17, <2>1
<1>19. \A i \in DOMAIN keys : /\ w[i].ok /\ w[i].key = keys[i] /\ w[i].name = name(keys[i])
                              /\ w[i].comment = comment(keys[i]) /\ w[i].vars = VarsOf(s, keys[i])
  <2> HIDE DEF w
  <2>1. QED
    BY <1>16
<1> HIDE DEF w
<1>20. DOMAIN w = DOMAIN keys
  BY <1>16
<1>21. \A i, j \in DOMAIN w : w[i].key = w[j].key => i = j
  BY <1>8, <1>19, <1>20
<1>22. \A r \in ToSet(list) \cup ToSet(vars) : \E i \in DOMAIN w : w[i].key = Key(r)
  BY <1>10, <1>19, <1>20
<1>23. \A i \in DOMAIN w : \A a \in ToSet(list) :
          Key(a) = w[i].key => w[i].name = a.name /\ w[i].comment = a.comment
  BY <1>12, <1>19, <1>20
<1>24. \A i \in DOMAIN w :
          (\A a \in ToSet(list) : Key(a) # w[i].key) => w[i].name = "" /\ w[i].comment = ""
  <2> SUFFICES ASSUME NEW i \in DOMAIN keys, \A a \in ToSet(list) : Key(a) # keys[i]
               PROVE  name(keys[i]) = "" /\ comment(keys[i]) = ""
    BY <1>19, <1>20
  <2>1. QED
    BY <1>13
<1>25. \A i \in DOMAIN w : ToSet(w[i].vars) = {v \in ToSet(vars) : Key(v) = w[i].key}
  BY <1>15, <1>19, <1>20
<1>26. \A i \in DOMAIN w : w[i].ok
  BY <1>19, <1>20
<1>27. QED
  BY <1>18, <1>21, <1>22, <1>23, <1>24, <1>25, <1>26 DEF w, s

\* The records whose identities are among the first n entries of the file, and
\* the variables that have a new name or a type.
Reached(list, fns, n) == {r \in ToSet(list) : \E i \in 1..n : fns[i].key = Key(r)}

OfEntry(list, fn) == {r \in ToSet(list) : fn.key = Key(r)}

MadeOf(set) == {Made(r) : r \in set}

Meant(vars) == {v \in vars : v.to # "" \/ v.type # ""}

\* One more entry reaches the records of its identity.
LEMMA ReachedOneMore ==
    ASSUME NEW list, NEW fns, NEW n \in Nat
    PROVE  Reached(list, fns, n + 1)
               = Reached(list, fns, n) \cup OfEntry(list, fns[n + 1])
<1>1. 1..(n + 1) = (1..n) \cup {n + 1}
  OBVIOUS
<1>2. QED
  BY <1>1 DEF Reached, OfEntry

\* A record of an identity that was not read before is told of as it was made.
LEMMA ReadsOneMore ==
    ASSUME NEW list \in Seq(Anno), OneRecord(list), Speaking(list), NEW a \in ToSet(list),
           NEW read \in Seq(Anno), OneRecord(read),
           NEW before, before \subseteq ToSet(list) \ {a}, ToSet(read) = MadeOf(before)
    PROVE  LET t == Said(WithAnno(read, a.rva), a.rva, a.hash, a.name, a.comment) IN
           ToSet(t) = MadeOf(before \cup {a})
<1>1. /\ \A x : x \in ToSet(list) <=> \E i \in DOMAIN list : list[i] = x
      /\ ToSet(list) \subseteq Anno
  BY Elements
<1>2. a \in Anno /\ a.rva \in Nat /\ a.hash \in Hashes /\ a.name \in NoteTexts /\ a.comment \in NoteTexts
  BY <1>1 DEF Anno
<1>3. Made(a) = [rva |-> a.rva, hash |-> a.hash, name |-> a.name, comment |-> a.comment,
                 bound |-> Unbound]
  <2>1. a = [rva |-> a.rva, hash |-> a.hash, name |-> a.name, comment |-> a.comment,
             bound |-> a.bound]
    BY <1>2 DEF Anno
  <2>2. QED
    BY <2>1 DEF Made
<1>4. Made(a) \in Anno
  BY <1>2, <1>3 DEF Anno, Unbound
<1>5. \A r \in before : r \in Anno /\ r.rva # a.rva
  BY <1>1 DEF OneRecord
<1>6. \A i \in DOMAIN read : read[i].rva # a.rva
  <2> SUFFICES ASSUME NEW i \in DOMAIN read PROVE read[i].rva # a.rva
    OBVIOUS
  <2>1. read[i] \in ToSet(read)
    BY Elements
  <2>2. PICK r \in before : read[i] = Made(r)
    BY <2>1 DEF MadeOf
  <2>3. Made(r).rva = r.rva
    BY <1>5 DEF Made, Anno
  <2>4. QED
    BY <1>5, <2>2, <2>3
<1>7. Said(WithAnno(read, a.rva), a.rva, a.hash, a.name, a.comment) = Append(read, Made(a))
  <2> DEFINE rva == a.rva
             hash == a.hash
             name == a.name
             comment == a.comment
  <2>1. /\ rva \in Nat /\ hash \in Hashes /\ name \in NoteTexts /\ comment \in NoteTexts
        /\ \A i \in DOMAIN read : read[i].rva # rva
        /\ Made(a) = [rva |-> rva, hash |-> hash, name |-> name, comment |-> comment,
                      bound |-> Unbound]
    BY <1>2, <1>3, <1>6
  <2> HIDE DEF rva, hash, name, comment
  <2>2. Said(WithAnno(read, rva), rva, hash, name, comment) = Append(read, Made(a))
    BY ONLY <2>1, read \in Seq(Anno), OneRecord(read), SaidAppends
  <2>3. QED
    BY <2>2 DEF rva, hash, name, comment
<1>8. ToSet(Append(read, Made(a))) = ToSet(read) \cup {Made(a)}
  BY ONLY <1>4, read \in Seq(Anno), Appended
<1>9. QED
  <2>1. MadeOf(before \cup {a}) = MadeOf(before) \cup {Made(a)}
    BY DEF MadeOf
  <2>2. QED
    BY <1>7, <1>8, <2>1

\* What was written is read back: every record, and the variables that say
\* something, under their identities.
LEMMA ReadBack ==
    ASSUME NEW list \in Seq(Anno), NEW vars \in Seq(AnnoVar), OneRecord(list), Speaking(list)
    PROVE  LET fns == Written([annos |-> list, annoVars |-> vars]).functions
               s == ReadUpTo(fns)[Len(fns)]
           IN  /\ Unresolved(s) /\ ~s.failed
               /\ ToSet(s.annos) = MadeOf(ToSet(list))
               /\ ToSet(s.annoVars) = MadeOf(Meant(ToSet(vars)))
<1> DEFINE fns == Written([annos |-> list, annoVars |-> vars]).functions
           after == ReadUpTo(fns)
           Good(n) == /\ ~after[n].failed
                      /\ ToSet(after[n].annos) = MadeOf(Reached(list, fns, n))
                      /\ ToSet(after[n].annoVars) = MadeOf(Meant(Reached(vars, fns, n)))
           G == {n \in Nat : n <= Len(fns) => Good(n)}
<1>1. /\ fns \in Seq(Entry)
      /\ \A i \in DOMAIN fns : fns[i].ok
      /\ \A i, j \in DOMAIN fns : fns[i].key = fns[j].key => i = j
      /\ \A r \in ToSet(list) \cup ToSet(vars) : \E i \in DOMAIN fns : fns[i].key = Key(r)
      /\ \A i \in DOMAIN fns : \A a \in ToSet(list) :
            Key(a) = fns[i].key => fns[i].name = a.name /\ fns[i].comment = a.comment
      /\ \A i \in DOMAIN fns :
            (\A a \in ToSet(list) : Key(a) # fns[i].key) => fns[i].name = "" /\ fns[i].comment = ""
      /\ \A i \in DOMAIN fns : ToSet(fns[i].vars) = {v \in ToSet(vars) : Key(v) = fns[i].key}
  BY WrittenIs
<1> HIDE DEF fns
<1>2. DOMAIN fns = 1..Len(fns) /\ Len(fns) \in Nat /\ \A i \in DOMAIN fns : fns[i] \in Entry
  BY <1>1, Elements
<1>3. after[0] = Empty /\ \A i \in 1..Len(fns) : after[i] = ReadEntry(after[i - 1], fns[i])
  BY <1>2, ReadUpToIs
<1>4. \A n \in 0..Len(fns) : Unresolved(after[n])
  BY <1>1, ReadKeeps
<1> HIDE DEF after
<1>5. /\ \A x : x \in ToSet(list) <=> \E i \in DOMAIN list : list[i] = x
      /\ ToSet(list) \subseteq Anno /\ ToSet(vars) \subseteq AnnoVar
  BY Elements
<1>6. Good(0)
  <2>1. Reached(list, fns, 0) = {} /\ Reached(vars, fns, 0) = {}
    BY DEF Reached
  <2>2. ~after[0].failed /\ ToSet(after[0].annos) = {} /\ ToSet(after[0].annoVars) = {}
    BY <1>3 DEF Empty, ToSet
  <2>3. QED
    BY <2>1, <2>2 DEF Meant, MadeOf
<1>7. ASSUME NEW n \in Nat, n + 1 <= Len(fns), Good(n) PROVE Good(n + 1)
  <2> DEFINE prev == after[n]
             t == after[n + 1]
             fn == fns[n + 1]
  <2>1. n + 1 \in DOMAIN fns /\ (n + 1) - 1 = n /\ n \in 0..Len(fns) /\ \A i \in 1..n : i \in DOMAIN fns /\ i # n + 1
    BY <1>2, <1>7
  <2>2. t = ReadEntry(prev, fn) /\ Unresolved(prev) /\ fn \in Entry /\ fn.ok
    BY <1>1, <1>2, <1>3, <1>4, <2>1
  <2>3. /\ prev \in Stores /\ prev.annos \in Seq(Anno) /\ OneRecord(prev.annos)
        /\ prev.annoVars \in Seq(AnnoVar)
    BY <2>2 DEF Unresolved, Stores
  <2>4. /\ Reached(list, fns, n + 1) = Reached(list, fns, n) \cup OfEntry(list, fn)
        /\ Reached(vars, fns, n + 1) = Reached(vars, fns, n) \cup OfEntry(vars, fn)
    BY ReachedOneMore
  <2>5. \A r \in Reached(list, fns, n) : r \in ToSet(list) /\ Key(r) # fn.key
    BY <1>1, <2>1 DEF Reached
  <2> DEFINE before == Reached(list, fns, n)
             beforeVars == Reached(vars, fns, n)
  <2>6. /\ ~prev.failed
        /\ ToSet(prev.annos) = MadeOf(before)
        /\ ToSet(prev.annoVars) = MadeOf(Meant(beforeVars))
    BY <1>7
  <2>8. /\ \A a \in ToSet(list) : Key(a) = fn.key => fn.name = a.name /\ fn.comment = a.comment
        /\ (\A a \in ToSet(list) : Key(a) # fn.key) => fn.name = "" /\ fn.comment = ""
        /\ ToSet(fn.vars) = OfEntry(vars, fn)
    BY <1>1, <2>1 DEF OfEntry
  <2> HIDE DEF prev, t, fn
  <2>7. /\ t.annos = IF fn.name = "" /\ fn.comment = "" THEN prev.annos
                     ELSE Said(WithAnno(prev.annos, fn.key.rva), fn.key.rva, fn.key.hash,
                               fn.name, fn.comment)
        /\ t.annoVars = prev.annoVars \o AsRead(fn)
        /\ ~t.failed
    BY <2>2, <2>3, <2>6, ReadEntryIs
  <2>9. ToSet(t.annos) = MadeOf(before \cup OfEntry(list, fn))
    <3> HIDE DEF before
    <3>1. CASE \A a \in ToSet(list) : Key(a) # fn.key
      <4>1. OfEntry(list, fn) = {} /\ t.annos = prev.annos
        BY <2>7, <2>8, <3>1 DEF OfEntry
      <4>2. QED
        BY <2>6, <4>1
    <3>2. ASSUME NEW a \in ToSet(list), Key(a) = fn.key
          PROVE  ToSet(t.annos) = MadeOf(before \cup OfEntry(list, fn))
      <4>1. a.rva = fn.key.rva /\ a.hash = fn.key.hash /\ fn.name = a.name /\ fn.comment = a.comment
        <5>1. Key(a).rva = a.rva /\ Key(a).hash = a.hash
          BY DEF Key
        <5>2. QED
          BY <2>8, <3>2, <5>1
      <4>2. a.name # "" \/ a.comment # ""
        BY <1>5 DEF Speaking
      <4>3. t.annos = Said(WithAnno(prev.annos, a.rva), a.rva, a.hash, a.name, a.comment)
        BY <2>7, <4>1, <4>2
      <4>4. \A r \in ToSet(list) : Key(r) = fn.key => r = a
        <5>1. \A r \in ToSet(list) : r.rva = a.rva => r = a
          BY <1>5 DEF OneRecord
        <5>2. QED
          BY <3>2, <5>1 DEF Key
      <4>5. OfEntry(list, fn) = {a}
        BY <3>2, <4>4 DEF OfEntry
      <4>6. before \subseteq ToSet(list) \ {a}
        BY <2>5, <3>2 DEF before
      <4> DEFINE read == prev.annos
      <4>7. read \in Seq(Anno) /\ OneRecord(read) /\ ToSet(read) = MadeOf(before)
        BY <2>3, <2>6
      <4>8. t.annos = Said(WithAnno(read, a.rva), a.rva, a.hash, a.name, a.comment)
        BY <4>3
      <4> HIDE DEF read
      <4>9. ToSet(Said(WithAnno(read, a.rva), a.rva, a.hash, a.name, a.comment))
               = MadeOf(before \cup {a})
        BY <4>6, <4>7, ReadsOneMore
      <4>10. QED
        BY <4>5, <4>8, <4>9
    <3>3. QED
      BY <3>1, <3>2
  <2>10. ToSet(t.annoVars) = MadeOf(Meant(beforeVars \cup OfEntry(vars, fn)))
    <3> DEFINE rec(v) == [rva |-> fn.key.rva, hash |-> fn.key.hash, from |-> v.from,
                          to |-> v.to, type |-> v.type, bound |-> Unbound]
               new == AsRead(fn)
    <3>1. new \in Seq(AnnoVar) /\ ToSet(new) = {rec(v) : v \in Meant(ToSet(fn.vars))}
      BY <2>2, AsReadIs DEF Meant
    <3>2. \A v \in OfEntry(vars, fn) : rec(v) = Made(v)
      <4> SUFFICES ASSUME NEW v \in OfEntry(vars, fn) PROVE rec(v) = Made(v)
        OBVIOUS
      <4>1. v \in AnnoVar /\ v.rva = fn.key.rva /\ v.hash = fn.key.hash
        BY <1>5 DEF Key, OfEntry
      <4>2. QED
        <5>1. v = [rva |-> v.rva, hash |-> v.hash, from |-> v.from, to |-> v.to,
                   type |-> v.type, bound |-> v.bound]
          BY <4>1 DEF AnnoVar
        <5>2. QED
          BY <4>1, <5>1 DEF Made
    <3>3. Meant(ToSet(fn.vars)) \subseteq OfEntry(vars, fn) /\ Meant(ToSet(fn.vars)) = Meant(OfEntry(vars, fn))
      BY <2>8 DEF Meant
    <3>4. ToSet(new) = MadeOf(Meant(OfEntry(vars, fn)))
      <4> HIDE DEF rec, new
      <4>1. QED
        BY <3>1, <3>2, <3>3 DEF MadeOf
    <3>5. ToSet(prev.annoVars \o new) = ToSet(prev.annoVars) \cup ToSet(new)
      BY <2>3, <3>1, Concatenated
    <3>6. Meant(beforeVars \cup OfEntry(vars, fn)) = Meant(beforeVars) \cup Meant(OfEntry(vars, fn))
      BY DEF Meant
    <3>7. t.annoVars = prev.annoVars \o new
      BY <2>7
    <3> HIDE DEF new, beforeVars
    <3>8. QED
      BY <2>6, <3>4, <3>5, <3>6, <3>7 DEF MadeOf
  <2>11. QED
    BY <2>4, <2>7, <2>9, <2>10 DEF t
<1>8. Good(Len(fns))
  <2>1. 0 \in G
    BY <1>6
  <2>2. \A n \in Nat : n \in G => n + 1 \in G
    <3> HIDE DEF Good
    <3>1. QED
      BY <1>2, <1>7
  <2> HIDE DEF G
  <2>3. Len(fns) \in G
    BY <1>2, <2>1, <2>2, CountUp
  <2>4. QED
    BY <1>2, <2>3 DEF G
<1>9. Reached(list, fns, Len(fns)) = ToSet(list) /\ Reached(vars, fns, Len(fns)) = ToSet(vars)
  BY <1>1, <1>2 DEF Reached
<1>10. Unresolved(after[Len(fns)])
  BY <1>2, <1>4
<1>11. QED
  BY <1>8, <1>9, <1>10 DEF after, fns

\* A variable given a name or a type is bound where it was made, if there is a
\* function.
LEMMA LocalIs ==
    ASSUME NotesTypeOK, NEW list \in Seq(AnnoVar), AllFit(list), NEW rva \in Nat, NEW local \in Locals
    PROVE  WithLocal(list, rva, local) \in Seq(AnnoVar) /\ AllFit(WithLocal(list, rva, local))
<1> DEFINE new == [rva |-> rva, hash |-> NoHash, from |-> local, to |-> "", type |-> "",
                   bound |-> Unbound]
           known == \E i \in DOMAIN list : list[i].rva = rva /\ list[i].from = local
           grown == IF known THEN list ELSE Append(list, new)
           place == CHOOSE i \in DOMAIN grown : grown[i].rva = rva /\ grown[i].from = local
           hash == HashAt(rva, NoHash)
           bound == IF rva \in DOMAIN Listing THEN rva ELSE Unbound
           told == [i \in DOMAIN grown |->
                       IF i = place THEN [grown[i] EXCEPT !.hash = hash, !.bound = bound] ELSE grown[i]]
<1>1. WithLocal(list, rva, local) = told
  BY DEF WithLocal
<1>2. DOMAIN list = 1..Len(list) /\ Len(list) \in Nat /\ \A i \in DOMAIN list : list[i] \in AnnoVar
  BY Elements
<1>3. new \in AnnoVar /\ new.rva = rva /\ new.from = local /\ Fits(new)
  BY DEF AnnoVar, Hashes, NoteTexts, Unbound, Fits
<1> HIDE DEF new
<1>4. /\ grown \in Seq(AnnoVar) /\ AllFit(grown)
      /\ \E i \in DOMAIN grown : grown[i].rva = rva /\ grown[i].from = local
  <2>1. CASE known
    BY <2>1
  <2>2. CASE ~known
    <3>1. grown = Append(list, new)
      BY <2>2
    <3> HIDE DEF grown, known
    <3>2. /\ grown \in Seq(AnnoVar) /\ DOMAIN grown = 1..(Len(list) + 1)
          /\ grown[Len(list) + 1] = new
          /\ \A i \in DOMAIN list : grown[i] = list[i]
      BY ONLY list \in Seq(AnnoVar), <1>3, <3>1, Appended
    <3>3. \A i : i \in DOMAIN grown <=> i \in DOMAIN list \/ i = Len(list) + 1
      BY ONLY <1>2, <3>2
    <3>4. AllFit(grown)
      BY <1>3, <3>2, <3>3 DEF AllFit
    <3>5. QED
      BY <1>3, <3>2, <3>3, <3>4
  <2>3. QED
    BY <2>1, <2>2
<1> HIDE DEF grown
<1>5. /\ DOMAIN grown = 1..Len(grown) /\ Len(grown) \in Nat
      /\ \A i \in DOMAIN grown : grown[i] \in AnnoVar
  BY <1>4, Elements
<1>6. place \in DOMAIN grown /\ grown[place].rva = rva
  BY <1>4
<1> HIDE DEF place
<1>7. hash \in Hashes /\ (rva \in DOMAIN Listing => hash = FuncHash(Listing[rva]))
  BY ListingIs DEF HashAt, Hashes
<1>8. bound \in Nat
  BY DEF Unbound
<1> HIDE DEF hash
<1>9. DOMAIN told = DOMAIN grown
  OBVIOUS
<1>10. ASSUME NEW i \in DOMAIN grown PROVE told[i] \in AnnoVar /\ Fits(told[i])
  <2>1. CASE i # place
    BY <1>4, <1>5, <2>1 DEF AllFit
  <2>2. CASE i = place
    <3> DEFINE b == bound
               t == told[i]
    <3>1. grown[i] \in AnnoVar /\ grown[i].rva = rva
      BY <1>5, <1>6, <2>2
    <3>2. t = [grown[i] EXCEPT !.hash = hash, !.bound = b]
      BY <2>2
    <3>3. b \in Nat /\ (b # Unbound => b \in DOMAIN Listing /\ b = rva)
      BY <1>8
    <3> HIDE DEF b, t
    <3>4. t \in AnnoVar /\ t.hash = hash /\ t.rva = rva /\ t.bound = b
      BY <1>7, <3>1, <3>2, <3>3 DEF AnnoVar
    <3>5. Fits(t)
      BY <1>7, <3>3, <3>4 DEF Fits
    <3>6. QED
      BY <3>4, <3>5 DEF t
  <2>3. QED
    BY <2>1, <2>2
<1>11. told = [i \in DOMAIN told |-> told[i]]
  OBVIOUS
<1> HIDE DEF told
<1>12. told \in Seq(AnnoVar)
  BY ONLY <1>5, <1>9, <1>10, <1>11
<1>13. AllFit(told)
  BY <1>9, <1>10 DEF AllFit
<1>14. QED
  BY <1>1, <1>12, <1>13

LEMMA SetLocalKeeps ==
    ASSUME NotesTypeOK, NEW list \in Seq(AnnoVar), AllFit(list), NEW rva \in Nat, NEW local \in Locals,
           NEW field, NEW text,
           (field = "to" /\ text \in NoteTexts) \/ (field = "type" /\ text \in Types \cup {""})
    PROVE  SetLocal(list, rva, local, field, text) \in Seq(AnnoVar)
           /\ AllFit(SetLocal(list, rva, local, field, text))
<1> DEFINE grown == WithLocal(list, rva, local)
           here(r) == r.rva = rva /\ r.from = local
           told == [i \in DOMAIN grown |-> IF here(grown[i]) THEN [grown[i] EXCEPT ![field] = text]
                                           ELSE grown[i]]
<1>1. SetLocal(list, rva, local, field, text) = told
  BY DEF SetLocal
<1>2. grown \in Seq(AnnoVar) /\ AllFit(grown)
  BY LocalIs
<1> HIDE DEF grown
<1>3. /\ DOMAIN grown = 1..Len(grown) /\ Len(grown) \in Nat
      /\ \A i \in DOMAIN grown : grown[i] \in AnnoVar
  BY <1>2, Elements
<1>4. ASSUME NEW i \in DOMAIN grown PROVE told[i] \in AnnoVar /\ Fits(told[i])
  <2>1. grown[i] \in AnnoVar /\ Fits(grown[i])
    BY <1>2, <1>3 DEF AllFit
  <2> DEFINE r == grown[i]
             t == told[i]
  <2>2. t = IF here(r) THEN [r EXCEPT ![field] = text] ELSE r
    OBVIOUS
  <2> HIDE DEF here, t, r
  <2>3. CASE ~here(r)
    BY <2>1, <2>2, <2>3 DEF t, r
  <2>4. CASE here(r) /\ field = "to" /\ text \in NoteTexts
    <3>1. t = [r EXCEPT !.to = text]
      BY <2>2, <2>4
    <3>2. t \in AnnoVar /\ t.hash = r.hash /\ t.rva = r.rva /\ t.bound = r.bound
      BY <2>1, <2>4, <3>1 DEF AnnoVar, r
    <3>3. QED
      BY <2>1, <3>2 DEF Fits, r, t
  <2>5. CASE here(r) /\ field = "type" /\ text \in Types \cup {""}
    <3>1. t = [r EXCEPT !.type = text]
      BY <2>2, <2>5
    <3>2. t \in AnnoVar /\ t.hash = r.hash /\ t.rva = r.rva /\ t.bound = r.bound
      BY <2>1, <2>5, <3>1 DEF AnnoVar, r
    <3>3. QED
      BY <2>1, <3>2 DEF Fits, r, t
  <2>6. QED
    BY <2>3, <2>4, <2>5
<1>5. DOMAIN told = DOMAIN grown /\ told = [i \in DOMAIN told |-> told[i]]
  OBVIOUS
<1> HIDE DEF told
<1>6. told \in Seq(AnnoVar)
  BY ONLY <1>3, <1>4, <1>5
<1>7. AllFit(told)
  BY <1>4, <1>5 DEF AllFit
<1>8. QED
  BY <1>1, <1>6, <1>7

\* A rename or comment of a function.
LEMMA RenameKeeps ==
    ASSUME NotesInv, NEW rva \in Nat, NEW name \in NoteTexts, NEW comment \in NoteTexts,
           name # "" \/ comment # "", SetFunc(rva, name, comment)
    PROVE  /\ annos' \in Seq(Anno) /\ OneRecord(annos') /\ Speaking(annos')
           /\ AllFit(annos') /\ OneName(annos')
<1> DEFINE grown == WithAnno(annos, rva)
           old == CHOOSE a \in {grown[i] : i \in DOMAIN grown} : a.rva = rva
           hash == HashAt(rva, old.hash)
<1>1. /\ annos \in Seq(Anno) /\ OneRecord(annos) /\ Speaking(annos) /\ AllFit(annos)
      /\ OneName(annos) /\ NotesTypeOK
  BY DEF NotesInv, NotesTypeOK
<1>2. /\ grown \in Seq(Anno)
      /\ \E i \in DOMAIN grown : grown[i].rva = rva
  BY <1>1, WithAnnoIs
<1>3. \A i \in DOMAIN grown : grown[i] \in Anno
  <2> HIDE DEF grown
  <2>1. QED
    BY <1>2, Elements
<1>4. old \in Anno
  <2> HIDE DEF grown
  <2>1. QED
    BY <1>2, <1>3
<1>5. hash \in Hashes
  <2>1. CASE rva \in DOMAIN Listing
    BY <1>1, <2>1, ListingIs DEF HashAt
  <2>2. CASE rva \notin DOMAIN Listing
    <3>1. hash = old.hash
      BY <2>2 DEF HashAt
    <3> HIDE DEF old, hash
    <3>2. QED
      BY <1>4, <3>1 DEF Anno
  <2>3. QED
    BY <2>1, <2>2
<1>6. annos' = Said(WithAnno(annos, rva), rva, hash, name, comment)
  BY DEF SetFunc
<1> HIDE DEF hash, grown, old
<1>7. PICK list, new : list = annos /\ new = annos'
  OBVIOUS
<1>8. list \in Seq(Anno) /\ OneRecord(list) /\ Speaking(list) /\ AllFit(list) /\ OneName(list)
  BY <1>1, <1>7
<1>9. new = Said(WithAnno(list, rva), rva, hash, name, comment)
  BY <1>6, <1>7
<1>10. /\ new \in Seq(Anno) /\ OneRecord(new) /\ Speaking(new)
       /\ \A i \in DOMAIN new : new[i].bound # Unbound => i \in DOMAIN list /\ new[i] = list[i]
  <2>1. /\ Said(WithAnno(list, rva), rva, hash, name, comment) \in Seq(Anno)
        /\ OneRecord(Said(WithAnno(list, rva), rva, hash, name, comment))
        /\ Speaking(Said(WithAnno(list, rva), rva, hash, name, comment))
        /\ \A i \in DOMAIN Said(WithAnno(list, rva), rva, hash, name, comment) :
              Said(WithAnno(list, rva), rva, hash, name, comment)[i].bound # Unbound
                 => /\ i \in DOMAIN list
                    /\ Said(WithAnno(list, rva), rva, hash, name, comment)[i] = list[i]
    BY <1>5, <1>8, SaidKeeps
  <2>2. QED
    BY <1>9, <2>1
<1>11. AllFit(new)
  <2> SUFFICES ASSUME NEW i \in DOMAIN new PROVE Fits(new[i])
    BY DEF AllFit
  <2>1. CASE new[i].bound = Unbound
    BY <2>1 DEF Fits
  <2>2. CASE new[i].bound # Unbound
    BY <1>8, <1>10, <2>2 DEF AllFit
  <2>3. QED
    BY <2>1, <2>2
<1>12. OneName(new)
  BY <1>8, <1>10 DEF OneName
<1>13. QED
  BY <1>7, <1>10, <1>11, <1>12

\* While the functions are the same, a record that fits goes on fitting.
LEMMA FitsOn ==
    ASSUME funcs' = funcs, NEW list, AllFit(list)
    PROVE  AllFit(list)'
<1>1. Listing' = Listing
  BY DEF Listing
<1>2. QED
  BY <1>1 DEF AllFit, Fits

\* The two lists after a step that leaves the functions and keeps the types.
LEMMA ListsKeep ==
    ASSUME NotesTypeOK', funcs' = funcs,
           OneRecord(annos'), Speaking(annos'), AllFit(annos'), OneName(annos'), AllFit(annoVars')
    PROVE  NotesInv'
<1>1. PICK list, vars : list = annos' /\ vars = annoVars'
  OBVIOUS
<1>2. AllFit(list)' /\ AllFit(vars)'
  BY <1>1, FitsOn
<1>3. QED
  BY <1>1, <1>2 DEF NotesInv, AllFit, OneRecord, Speaking, OneName

LEMMA NotesStart == NotesInit => NotesInv
<1> SUFFICES ASSUME NotesInit PROVE NotesInv
  OBVIOUS
<1>1. annos = <<>> /\ annoVars = <<>>
  BY DEF NotesInit
<1>2. sidecar \in [state : {"absent", "cut", "v1", "v2"}, functions : Seq(Entry)]
  BY DEF NotesInit, NoSidecar
<1>3. NotesTypeOK
  BY <1>2 DEF NotesInit, NotesTypeOK
<1>4. QED
  BY <1>1, <1>3 DEF NotesInv, OneRecord, Speaking, AllFit, OneName

LEMMA NotesStep == NotesInv /\ [NotesNext]_noteVars => NotesInv'
<1> SUFFICES ASSUME NotesInv, [NotesNext]_noteVars PROVE NotesInv'
  OBVIOUS
<1>1. /\ NotesTypeOK /\ OneRecord(annos) /\ Speaking(annos) /\ AllFit(annos) /\ OneName(annos)
      /\ AllFit(annoVars)
  BY DEF NotesInv
<1>2. /\ image \in Images /\ (funcs = {} \/ funcs = {image})
      /\ annos \in Seq(Anno) /\ annoVars \in Seq(AnnoVar)
      /\ sidecar \in [state : {"absent", "cut", "v1", "v2"}, functions : Seq(Entry)]
      /\ sidecar.functions \in Seq(Entry) /\ edits \in Nat
  BY <1>1 DEF NotesTypeOK
<1>3. CASE Analyse
  <2>1. /\ funcs = {} /\ funcs' = {image} /\ image' = image /\ annos' = annos
        /\ annoVars' = annoVars /\ sidecar' = sidecar /\ edits' = edits
    BY <1>3 DEF Analyse
  <2>2. NotesTypeOK'
    BY <1>2, <2>1 DEF NotesTypeOK
  <2>3. DOMAIN Listing = {}
    BY <1>1, <2>1, ListingIs
  <2>4. /\ \A i \in DOMAIN annos : annos[i].bound = Unbound
        /\ \A i \in DOMAIN annoVars : annoVars[i].bound = Unbound
    BY <1>1, <2>3 DEF AllFit, Fits
  <2>5. AllFit(annos)' /\ AllFit(annoVars)'
    BY <2>1, <2>4 DEF AllFit, Fits, Unbound
  <2>6. QED
    BY <1>1, <2>1, <2>2, <2>5 DEF NotesInv, OneRecord, Speaking, OneName
<1>4. ASSUME NEW rva \in FuncRvas, NEW name \in NoteTexts, NEW comment \in NoteTexts,
             name # "" \/ comment # "", SetFunc(rva, name, comment)
      PROVE  NotesInv'
  <2>1. rva \in Nat
    BY AnnotationsAssumption DEF FuncRvas
  <2>2. /\ annos' \in Seq(Anno) /\ OneRecord(annos') /\ Speaking(annos')
        /\ AllFit(annos') /\ OneName(annos')
    BY <1>4, <2>1, RenameKeeps
  <2>3. /\ image' = image /\ funcs' = funcs /\ annoVars' = annoVars /\ sidecar' = sidecar
        /\ edits' = edits + 1
    BY <1>4 DEF SetFunc, Edited
  <2>4. NotesTypeOK'
    BY <1>2, <2>2, <2>3 DEF NotesTypeOK
  <2>5. QED
    BY <1>1, <2>2, <2>3, <2>4, ListsKeep
<1>5. ASSUME NEW rva \in FuncRvas, NEW local \in Locals, NEW field, NEW text,
             (field = "to" /\ text \in NoteTexts) \/ (field = "type" /\ text \in Types \cup {""}),
             annoVars' = SetLocal(annoVars, rva, local, field, text),
             image' = image, funcs' = funcs, annos' = annos, sidecar' = sidecar,
             edits' = edits + 1
      PROVE  NotesInv'
  <2>1. rva \in Nat
    BY AnnotationsAssumption DEF FuncRvas
  <2>2. annoVars' \in Seq(AnnoVar) /\ AllFit(annoVars')
    <3>1. PICK list : list = annoVars
      OBVIOUS
    <3>2. list \in Seq(AnnoVar) /\ AllFit(list)
      BY <1>1, <1>2, <3>1
    <3>3. /\ SetLocal(list, rva, local, field, text) \in Seq(AnnoVar)
          /\ AllFit(SetLocal(list, rva, local, field, text))
      BY <1>1, <1>5, <2>1, <3>2, SetLocalKeeps
    <3>4. QED
      BY <1>5, <3>1, <3>3
  <2>3. NotesTypeOK'
    <3>1. edits' \in Nat
      BY ONLY <1>2, edits' = edits + 1
    <3>2. QED
      BY <1>2, <2>2, <3>1, image' = image, funcs' = funcs, annos' = annos, sidecar' = sidecar
         DEF NotesTypeOK
  <2>4. QED
    BY <1>1, <1>5, <2>2, <2>3, ListsKeep
<1>6. CASE UNCHANGED <<image, funcs, annos, annoVars>> /\ edits' = edits
           /\ sidecar' \in [state : {"absent", "cut", "v1", "v2"}, functions : Seq(Entry)]
  <2>1. NotesTypeOK'
    BY <1>2, <1>6 DEF NotesTypeOK
  <2>2. QED
    BY <1>1, <1>6, <2>1, ListsKeep
<1>7. CASE Save
  <2>1. Written([annos |-> annos, annoVars |-> annoVars]).functions \in Seq(Entry)
    BY <1>1, <1>2, WrittenIs
  <2>2. Written([annos |-> annos, annoVars |-> annoVars])
           = [state |-> "v1", functions |-> Written([annos |-> annos, annoVars |-> annoVars]).functions]
    BY DEF Written
  <2>3. sidecar' \in [state : {"absent", "cut", "v1", "v2"}, functions : Seq(Entry)]
    BY <1>7, <2>1, <2>2 DEF Save
  <2>4. QED
    BY <1>6, <1>7, <2>3 DEF Save
<1>8. CASE SidecarFails
  <2>1. sidecar' \in [state : {"absent", "cut", "v1", "v2"}, functions : Seq(Entry)]
    BY <1>8 DEF SidecarFails
  <2>2. QED
    BY <1>6, <1>8, <2>1 DEF SidecarFails
<1>9. CASE HandEdit
  <2> DEFINE bad == [ok |-> FALSE, key |-> [hash |-> NoHash, rva |-> 0],
                     name |-> "", comment |-> "", vars |-> <<>>]
             fns == sidecar.functions
  <2>1. bad \in Entry
    BY DEF Entry, Hashes, NoteTexts
  <2>2. CASE sidecar' = [sidecar EXCEPT !.state = "v2"]
    <3>1. sidecar' \in [state : {"absent", "cut", "v1", "v2"}, functions : Seq(Entry)]
      BY <1>2, <2>2
    <3>2. QED
      BY <1>6, <1>9, <3>1 DEF HandEdit
  <2>3. ASSUME NEW i \in 0..Len(fns),
               sidecar' = [sidecar EXCEPT !.functions =
                              SubSeq(@, 1, i) \o <<bad>> \o SubSeq(@, i + 1, Len(@))]
        PROVE  NotesInv'
    <3>1. fns \in Seq(Entry) /\ <<bad>> \in Seq(Entry)
      <4>1. bad \in Entry
        BY <2>1
      <4> HIDE DEF bad
      <4>2. <<bad>> \in Seq(Entry)
        BY <4>1
      <4>3. QED
        BY <1>2, <4>2
    <3>2. sidecar' = [sidecar EXCEPT !.functions =
                         SubSeq(fns, 1, i) \o <<bad>> \o SubSeq(fns, i + 1, Len(fns))]
      BY <2>3
    <3> HIDE DEF fns, bad
    <3>3. SubSeq(fns, 1, i) \in Seq(Entry) /\ SubSeq(fns, i + 1, Len(fns)) \in Seq(Entry)
      <4>1. Len(fns) \in Nat
        BY <3>1
      <4>2. \A j \in 1..i : fns[j] \in Entry
        BY <3>1, <4>1
      <4>3. \A j \in (i + 1)..Len(fns) : fns[j] \in Entry
        BY <3>1, <4>1
      <4>4. QED
        BY <3>1, <4>1, <4>2, <4>3
    <3>4. SubSeq(fns, 1, i) \o <<bad>> \o SubSeq(fns, i + 1, Len(fns)) \in Seq(Entry)
      BY <3>1, <3>3
    <3>5. sidecar' \in [state : {"absent", "cut", "v1", "v2"}, functions : Seq(Entry)]
      BY <1>2, <3>2, <3>4
    <3>6. QED
      BY <1>6, <1>9, <3>5 DEF HandEdit
  <2>4. QED
    BY <1>9, <2>2, <2>3 DEF HandEdit
<1>10. CASE Load
  <2> DEFINE fns == sidecar.functions
             s == ReadUpTo(fns)[Len(fns)]
             t == Read(fns)
  <2>1. annos' = t.annos /\ annoVars' = t.annoVars
    BY <1>10 DEF Load
  <2>2. Len(fns) \in 0..Len(fns)
    BY <1>2
  <2>3. Unresolved(s)
    BY <1>2, <2>2, ReadKeeps
  <2>4. t = IF s.failed THEN s ELSE Resolved(s)
    BY DEF Read
  <2> HIDE DEF s, t
  <2>5. /\ t.annos \in Seq(Anno) /\ t.annoVars \in Seq(AnnoVar)
        /\ OneRecord(t.annos) /\ Speaking(t.annos) /\ OneName(t.annos)
        /\ AllFit(t.annos) /\ AllFit(t.annoVars)
    <3>1. CASE t = s
      <4>1. s.annos \in Seq(Anno) /\ s.annoVars \in Seq(AnnoVar)
        BY <2>3 DEF Unresolved, Stores
      <4>2. OneName(s.annos) /\ AllFit(s.annos) /\ AllFit(s.annoVars)
        BY <2>3 DEF Unresolved, OneName, AllFit, Fits
      <4>3. QED
        BY <2>3, <3>1, <4>1, <4>2 DEF Unresolved
    <3>2. CASE t = Resolved(s)
      <4>1. /\ t.annos \in Seq(Anno) /\ DOMAIN t.annos = DOMAIN s.annos
            /\ \A i \in DOMAIN s.annos : Made(t.annos[i]) = s.annos[i]
            /\ t.annoVars \in Seq(AnnoVar)
            /\ AllFit(t.annos) /\ AllFit(t.annoVars) /\ OneName(t.annos)
        BY <1>1, <2>3, <3>2, ResolvedIs
      <4>2. \A i \in DOMAIN t.annos : t.annos[i] \in Anno
        BY <4>1, Elements
      <4>3. \A i \in DOMAIN t.annos : /\ s.annos[i].rva = t.annos[i].rva
                                      /\ s.annos[i].name = t.annos[i].name
                                      /\ s.annos[i].comment = t.annos[i].comment
        <5>1. \A r \in Anno : /\ Made(r).rva = r.rva /\ Made(r).name = r.name
                              /\ Made(r).comment = r.comment
          BY DEF Made, Anno
        <5>2. QED
          BY <4>1, <4>2, <5>1
      <4>4. OneRecord(s.annos) /\ Speaking(s.annos)
        BY <2>3 DEF Unresolved
      <4>5. OneRecord(t.annos) /\ Speaking(t.annos)
        BY <4>1, <4>3, <4>4 DEF OneRecord, Speaking
      <4>6. QED
        BY <4>1, <4>5
    <3>3. QED
      BY <2>4, <3>1, <3>2
  <2>6. image' = image /\ funcs' = funcs /\ sidecar' = sidecar /\ edits' = edits
    BY <1>10 DEF Load
  <2>7. NotesTypeOK'
    BY <1>2, <2>1, <2>5, <2>6 DEF NotesTypeOK
  <2>8. QED
    BY <2>1, <2>5, <2>6, <2>7, ListsKeep
<1>11. CASE RebuildBinary
  <2>1. /\ image' \in Images /\ funcs' = {} /\ annos' = <<>> /\ annoVars' = <<>>
        /\ sidecar' = sidecar /\ edits' = edits
    BY <1>11 DEF RebuildBinary
  <2>2. NotesTypeOK'
    BY <1>2, <2>1 DEF NotesTypeOK
  <2>3. DOMAIN annos' = {} /\ DOMAIN annoVars' = {}
    BY <2>1
  <2>4. QED
    BY <2>2, <2>3 DEF NotesInv, OneRecord, Speaking, AllFit, OneName
<1>12. CASE \E rva \in FuncRvas, name \in Names : SetFunc(rva, name, "") \/ SetFunc(rva, "", name)
  <2>1. PICK rva \in FuncRvas, name \in Names : SetFunc(rva, name, "") \/ SetFunc(rva, "", name)
    BY <1>12
  <2>2. name # "" /\ name \in NoteTexts /\ "" \in NoteTexts
    BY AnnotationsAssumption DEF NoteTexts
  <2>3. QED
    BY <1>4, <2>1, <2>2
<1>13. CASE \E rva \in FuncRvas, local \in Locals :
               \/ \E name \in Names : SetVar(rva, local, name)
               \/ \E type \in Types \cup {""} : SetVarType(rva, local, type)
  <2>1. PICK rva \in FuncRvas, local \in Locals :
           \/ \E name \in Names : SetVar(rva, local, name)
           \/ \E type \in Types \cup {""} : SetVarType(rva, local, type)
    BY <1>13
  <2>2. ASSUME NEW name \in Names, SetVar(rva, local, name) PROVE NotesInv'
    <3>1. name \in NoteTexts
      BY DEF NoteTexts
    <3>2. /\ annoVars' = SetLocal(annoVars, rva, local, "to", name)
          /\ image' = image /\ funcs' = funcs /\ annos' = annos /\ sidecar' = sidecar
          /\ edits' = edits + 1
      BY <2>2 DEF SetVar, Edited
    <3>3. QED
      BY <1>5, <3>1, <3>2
  <2>3. ASSUME NEW type \in Types \cup {""}, SetVarType(rva, local, type) PROVE NotesInv'
    <3>1. /\ annoVars' = SetLocal(annoVars, rva, local, "type", type)
          /\ image' = image /\ funcs' = funcs /\ annos' = annos /\ sidecar' = sidecar
          /\ edits' = edits + 1
      BY <2>3 DEF SetVarType, Edited
    <3>2. QED
      BY <1>5, <3>1
  <2>4. QED
    BY <2>1, <2>2, <2>3
<1>14. CASE UNCHANGED noteVars
  BY <1>2, <1>6, <1>14 DEF noteVars
<1>15. QED
  BY <1>3, <1>7, <1>8, <1>9, <1>10, <1>11, <1>12, <1>13, <1>14 DEF NotesNext

\* There is one record per function address and it says something; whatever was
\* edited, saved, cut, rebuilt and loaded, a record is bound where its recorded
\* identity allows and no function has two names (ds_anno_resolve).
THEOREM NotesInvariant == NotesSpec => []NotesInv
<1>1. NotesInit => NotesInv
  BY NotesStart
<1>2. NotesInv /\ [NotesNext]_noteVars => NotesInv'
  BY NotesStep
<1>3. QED
  BY <1>1, <1>2, PTL DEF NotesSpec

\* A name, comment or type is never shown on a function that is known to be
\* another one, nor two names on one function.
THEOREM NeverOnOtherCodeHolds == NotesSpec => []NeverOnOtherCode
<1>1. NotesInv => NeverOnOtherCode
  <2> SUFFICES ASSUME NotesInv PROVE NeverOnOtherCode
    OBVIOUS
  <2>1. AllFit(annos) /\ AllFit(annoVars) /\ OneName(annos)
    BY DEF NotesInv
  <2>2. \A r \in Records : Fits(r)
    BY <2>1 DEF Records, AllFit
  <2>3. \A i, j \in DOMAIN annos :
           i # j /\ annos[i].bound # Unbound => annos[i].bound # annos[j].bound
    BY <2>1 DEF OneName
  <2>4. \A r \in Records : r.bound # Unbound =>
           /\ r.bound \in DOMAIN Listing
           /\ LET now == FuncHash(Listing[r.bound]) IN
              /\ NoHash \in {r.hash, now} \/ r.hash = now
              /\ (\E f \in DOMAIN Listing \ {r.bound} : FuncHash(Listing[f]) = now)
                    => r.bound = r.rva
    BY <2>2 DEF Fits
  <2>5. QED
    BY <2>3, <2>4 DEF NeverOnOtherCode
<1>2. QED
  BY <1>1, NotesInvariant, PTL

\* Saving the sidecar and loading it again gives back every name and comment,
\* and every variable that has a new name or a type
\* (ds_engine_save_annotations, ds_engine_load_annotations).
THEOREM RoundTripHolds == NotesSpec => []RoundTrip
<1>1. NotesInv => RoundTrip
  <2> SUFFICES ASSUME NotesInv PROVE RoundTrip
    OBVIOUS
  <2>1. /\ NotesTypeOK /\ annos \in Seq(Anno) /\ annoVars \in Seq(AnnoVar)
        /\ OneRecord(annos) /\ Speaking(annos)
    BY DEF NotesInv, NotesTypeOK
  <2> DEFINE fns == Written([annos |-> annos, annoVars |-> annoVars]).functions
             s == ReadUpTo(fns)[Len(fns)]
             back == Read(fns)
             said(list) == {[list[i] EXCEPT !.bound = Unbound] : i \in DOMAIN list}
  <2>2. /\ Unresolved(s) /\ ~s.failed
        /\ ToSet(s.annos) = MadeOf(ToSet(annos))
        /\ ToSet(s.annoVars) = MadeOf(Meant(ToSet(annoVars)))
    BY <2>1, ReadBack
  <2>3. back = Resolved(s)
    BY <2>2 DEF Read
  <2> HIDE DEF s, back
  <2>4. /\ DOMAIN back.annos = DOMAIN s.annos
        /\ \A i \in DOMAIN s.annos : Made(back.annos[i]) = s.annos[i]
        /\ DOMAIN back.annoVars = DOMAIN s.annoVars
        /\ \A i \in DOMAIN s.annoVars : Made(back.annoVars[i]) = s.annoVars[i]
    BY <2>1, <2>2, <2>3, ResolvedIs
  <2>5. \A list : said(list) = MadeOf(ToSet(list))
    BY DEF MadeOf, Made, ToSet
  <2>6. said(back.annos) = ToSet(s.annos) /\ said(back.annoVars) = ToSet(s.annoVars)
    <3>1. \A list : said(list) = {Made(list[i]) : i \in DOMAIN list}
      BY DEF Made
    <3> HIDE DEF said
    <3>2. \A list : ToSet(list) = {list[i] : i \in DOMAIN list}
      BY DEF ToSet
    <3>3. /\ {Made(back.annos[i]) : i \in DOMAIN back.annos} = {s.annos[i] : i \in DOMAIN s.annos}
          /\ {Made(back.annoVars[i]) : i \in DOMAIN back.annoVars}
                = {s.annoVars[i] : i \in DOMAIN s.annoVars}
      BY <2>4
    <3>4. QED
      BY <3>1, <3>2, <3>3
  <2>7. MadeOf(Meant(ToSet(annoVars))) = {v \in said(annoVars) : v.to # "" \/ v.type # ""}
    <3>1. ToSet(annoVars) \subseteq AnnoVar
      BY <2>1, Elements
    <3>2. \A v \in AnnoVar : Made(v).to = v.to /\ Made(v).type = v.type
      BY DEF Made, AnnoVar
    <3>3. said(annoVars) = MadeOf(ToSet(annoVars))
      BY <2>5
    <3> HIDE DEF said
    <3>4. QED
      BY <3>1, <3>2, <3>3 DEF MadeOf, Meant
  <2>8. said(annos) = MadeOf(ToSet(annos))
    BY <2>5
  <2> HIDE DEF said
  <2>9. /\ said(back.annos) = said(annos)
        /\ said(back.annoVars) = {v \in said(annoVars) : v.to # "" \/ v.type # ""}
    <3>1. said(back.annos) = ToSet(s.annos) /\ ToSet(s.annos) = MadeOf(ToSet(annos))
      BY <2>2, <2>6
    <3>2. said(back.annoVars) = ToSet(s.annoVars)
      BY <2>6
    <3>3. ToSet(s.annoVars) = MadeOf(Meant(ToSet(annoVars)))
      BY <2>2
    <3>4. said(back.annoVars) = MadeOf(Meant(ToSet(annoVars)))
      BY <3>2, <3>3, Zenon
    <3>5. said(back.annos) = said(annos)
      BY <3>1, <2>8, Zenon
    <3>6. QED
      BY <3>4, <3>5, <2>7, Zenon
  <2>10. QED
    BY <2>9 DEF RoundTrip, said, back
<1>2. QED
  BY <1>1, NotesInvariant, PTL
=============================================================================
