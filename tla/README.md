# LDU: a TLA+ verification project

LDU is a desktop disassembler and decompiler: a Rust shell with web-view
windows (`crates/shell`), a C/C++ analysis engine (`engine`), parsers and
signature matching in Rust (`crates/binary-parser`, `crates/flirt`) and
JavaScript pages (`frontend`).  These modules model what goes on between its
threads, windows and files (a window's session, the files it keeps, the messages
of its page), and what the engine computes: which code and which functions a
binary has, what they are called, what they take and return, and the decompiler's
way from a lifted function to the text that is printed.

Contents: [the system](#1-the-system) · [modules](#2-the-modules) ·
[model-checking](#3-what-the-runs-check) · [fairness](#4-fairness) ·
[proofs](#5-what-is-proved) · [divergences](#6-where-code-and-comments-disagree) ·
[not modelled](#7-what-is-not-modelled) · [plan](#8-plan)

## 1. The system

| Component (source) | State | Operations | Meets the others through |
|---|---|---|---|
| Analysis run (`session.rs` start_analysis, run_analysis; handlers in `ipc.rs`, `main.rs`) | the session's cancel flag (an `Arc<AtomicBool>` compared by identity), engine, tables | start, seven stages, commit, announce; cancel, reanalyze, save, close on the UI thread | the session mutex, the flag, events to the page |
| Background pass (`session.rs` background_decompile) | an atomic cursor, a count, a batch per worker | spawn the pool, claim, decompile, publish, drain, report, join | `decomp_cache` under the session mutex, the flag, `DS_LINE_ADDR` |
| On-demand requests (`ipc.rs` get_pseudocode, set_var_type, get_stack_frame) | one thread per request, `ondemand_guard` | serve from the cache; or set the environment, decompile, restore, publish, reply | the cache, the engine's type store, `DS_FORCE_SM` and `DS_LINE_ADDR` |
| Saved decompilation (`session.rs` save_decomp_cache, load_decomp_cache) | a file per binary path: header with stamps, records | save (Ctrl+S), load on the fast path of a run | the file, shared by windows and processes in time |
| Transport (`ipc.js`, `ipc.rs`, `main.rs`) | pending promises, ids, the event loop's queue | invoke, handle, reply, deliver, close | messages |
| Project store (`dsproj.rs`, `ipc.rs`, `main.rs`) | a document in memory, a JSON file | add, remove, comment, mark, save, load | one mutex per document, windows that hold a binary's id |
| Window manager (`main.rs`) | windows, sessions, documents | open, close, deferred events | owns the above |
| Pages (`frontend/js`) | tables, virtual list, history | boot on `analysis_done`, ask, render | the transport |
| Engine: sweep (`sweep.c`, `engine.c`) | the listing, the visited set, a worklist of targets | linear sweep, recursive descent | leaves the listing and the edges to the next passes |
| Engine: functions (`cfg.cpp`, `xref.cpp`) | function starts, extents, block and call counts | collect starts, walk each function, count calls from the edges | read by names, decompiler, shell |
| Engine: names (`symbols.cpp`) | a name per function | seed, four passes that upgrade placeholders | read by the decompiler and the pages |
| Engine: annotations (`annotations.cpp`) | two lists of records, a sidecar file | set, clear, resolve, save, load | bound to functions by hash or address; read by names and decompiler |
| Engine: signatures (`decompiler.cpp` build_sig_table) | a table per engine | scan each function, then rounds over the table | read by every decompilation |
| Engine: data-flow passes, idioms (`decompiler.cpp`) | the blocks of one function | thirteen rewriting passes, recognition of divisions and range tests | from lifting to structuring |
| Engine: structuring and emission (`decompiler.cpp`, `decomp/18`-`20`) | a half-printed text, labels asked for, a work meter | emit, emit again, repair, fall back, clean up | the text is what the page shows |
| Engine: the rest | caches keyed by engine address | | called by runs, workers and requests at once |
| Parsers, FLIRT, metadata | none that lasts | pure functions of the file | called by a run |

What makes it hard: every `start_analysis` has a thread of its own, so an old
run and its pool of workers overlap with the new one; the engine reads two
**process-global** environment variables on each decompilation; handlers take
the session lock several times and what they read may be gone in between;
replies overtake each other; files are written in place and read by other
windows or after a crash; passes of the decompiler undo each other's assumptions
about the same statements; facts about functions are carried along calls in a
fixed number of rounds.  What makes each component correct is stated in
section 3; `PROJECT.json` lists every hazard at its source line.

## 2. The modules

| Module | Models | State and actions against the code |
|---|---|---|
| `SessionState` | what the threads of a window share | `token` is `Session.cancel` (named by the run it was made for), `cancelled` the flags, `view` the committed engine, `cache` is `decomp_cache`, `types` the engines' type stores as a version per function, `env` the two variables, `events` what was pushed |
| `AnalysisRun` | the worker thread of a run and the UI handlers on it | `StageOk`/`StageFails` are one stage and the test of the flag after it; `LoadSaved`, `Commit`, `Announce` follow run_analysis; the three lock sections of reanalyze are three actions |
| `PublishedAnalysis` | the promise to a window, without threads | requests are numbered; only the latest is shown, at most once, not after it was withdrawn |
| `BackgroundDecompile` | the pass and its pool | one action per access another thread can tell apart: `Claim` is the fetch_add and the exit test, `Decompile` the engine call, `Publish` and `Drain` the sections under the lock |
| `OnDemand` | the requests | handler steps (`PseudocodeMissed` then `SpawnPseudocode`; `AskRetype`, `SetVarType`, `RetypeRemove`) and thread steps (`TakeGuard`, `RunEngine`, `LeaveGuard`, `PublishReply`, `ReplyFrame`) |
| `Session` | one window: the three above together | conjoins a component's step with UNCHANGED of the others; a handler occupies the UI thread until its last step |
| `SavedAnalysis` | the cache file | a write is a header and then records, one at a time, with crashes and failures between; versions stand for stamps; the binary may be replaced at any moment, and the history `mixed` marks the caches that crossed a replacement |
| `Ipc` | the transport | the project page, whose `open_binary` and `remove_binary` have a parameter `id`: `hostSend` puts it on the wire in place of the call's number (`WireId`), and the reply carries the id it found |
| `Project` | a document and its file | an edit changes the memory and truncates the file in one step, completes the save in another; crash and write error come between |
| `Annotations` | `annotations.cpp` | `annos` and `annoVars` are `e->annos` and `e->anno_vars`; `Resolved` is ds_anno_resolve; `SetFunc`, `SetVar`, `SetVarType`, `Save`, `Load` are the entry points; `RebuildBinary` opens the next build, `HandEdit` is somebody's editor; the lists are filtered by `Those` and the file is read by `ReadUpTo`, recursive functions over the positions of a list |
| `Sweep` | ds_engine_disassemble | `insns` is the listing by address and its domain the visited set; `LinearDecode` is one turn of the linear loop, `RunDecode` one of sweep_run, `PopTarget` takes an address off the worklist; `Full` and `guard` are the caps |
| `Cfg` | ds_engine_build_cfg and ds_engine_build_xrefs after it | `BuildCfg` collects the starts, `WalkInsn` is one turn of a function's walk with its four locals, `PushFunction` appends the function and turns to the next start, `BuildXrefs` counts the calls again |
| `Symbols` | ds_engine_resolve_symbols | one action per pass and function: `GiveOwnName`, `GiveReportedNames` (recover_string_names, one helper a step), `GiveAccessorName` and `GiveThunkName` (the two loops of recover_heuristic_names) |
| `Signatures` | build_sig_table | `ScanFunction` is one function's scan, instruction after instruction, with the locals of the loop as a record; `CallerEvidence`, `ForwardRound`, `VoidFixpoint`, `SeedApiTypes`, `ApiRound` the passes over the table |
| `MagicDivision` | recognize_magic_div, recognize_idioms | the matchers are operators from expressions to sets of matches; expressions have a width and a sign, casts narrow and extend; the two actions rewrite a program |
| `Ir`, `IrMeaning` | `Expr`, `Stmt`, `Block` and the predicates on them; what a printed program may do | external semantics of C, the reference of `DataFlow` |
| `DataFlow` | the thirteen passes between lifting and structuring | one action per pass, one step per rewrite, in the order of `Decompiler::run`; a pass that goes round ends when nothing is left or at its cap (`MaxRounds`) |
| `Walk` | what the text of a function has to do | blocks are walked along their edges; the abstract specification of `Emit` |
| `EmitDriver` | the driver of emission, the passes over its lines, the emitters without structure | `Discover`, `Pass2`, `Repair`, `JudgeAgain`, `Settle`, `Clean` are the driver's phases, as actions over what an emission returns (`Emission`, `HandlerEmission`) |
| `Emit` | the structurer, and the text when it runs | `emit_region`, `emit_if_else` with all its forms in the code's order (below), `emit_switch` and copies within a budget, put into the driver's actions; then `Enter` and `Step` execute the text, which is the refinement of `Walk` |
| `MCStores`, `MCDecompiler`, `MCEngine` | components without common state, side by side | a behaviour chooses the part it is about, and the others stay as they begin: the state spaces add up and are not multiplied.  `MCStores` and `MCEngine` extend the modules (the proofs extend the same ones); `MCDecompiler` extends `MCSignatures`, for the same reason, and instantiates `MCDataFlow` and `MCIdioms`; `MCEngine` extends `Cfg`, `MCSymbols` and `MCDecompiler` |
| `MCSession` | one window in three scopes | `scope` bounds what the user does: many runs and no pass, requests beside one run and its pass, a reanalysis beside the old run |
| `MCDataFlow`, `MCIdioms`, `MCSignatures`, `MCSymbols`, `MCEmit`, `MCBackgroundDecompile` | instances: families of programs, listings, graphs | |
| `AnalysisProofs`, `BackgroundProofs`, `SessionProofs`, `EngineProofs`, `SignaturesProofs`, `EmitProofs`, `StoresProofs` | theorems | section 5 |

Abstractions that matter to a reader:

* A body of pseudocode is the record of what its text depends on: engine,
  version of the function's types, state-machine form or not, line markers or
  not.  `Decompiled` reads all of them in one instant.  The engine reads them
  at different moments of one call (`DS_LINE_ADDR` when the decompiler object is
  built, `DS_FORCE_SM` in the structuring, the types under the store's mutex);
  no property relates two of the fields, so for each the instant is exact.
* Functions are taken to have a goto for the state-machine form to remove.
* A stage of a run is its outcome: it ends well, or fails (never the listing
  stage, which cannot).
* One `Session` instance is one window.  A second window would change the
  environment variables in more ways; that is a hazard of its own.
* In `SavedAnalysis` two versions of the binary or of the application never
  share a stamp (the code compares size and mtime).
* In `Sweep` an instruction is its length, its kind and its target, chosen when
  an address is decoded.  An address is decoded at most once, so the choices of
  a behaviour are one image, and all behaviours are all images; what the bytes
  say to two overlapping instructions is not related, which only adds images.
  The kinds are what the two passes tell apart by `ref_type` and mnemonic.  A
  `call` through a register has no reference and is `plain`; a `jmp` through
  one is `table`, with the highest address of its table as target, or 0.
* A prologue is one instruction of kind `frame`.  The code also looks at the ones
  behind it, which decides what is a prologue and nothing else.
* Segments do not overlap (`DisjointSegments`).  The linear sweep then never
  meets an address decoded before, and the branch of the code that skips one
  is unreachable.
* `RecoveredSets` are the symbols that the PDB, Go and RTTI readers add before
  the starts are collected.  The ARM backends return before the sweep.
* In `Annotations` a hash is the instruction stream it is taken of, so equal
  hashes are equal code (FNV-1a may collide).  Like the code it takes opcode bytes
  and not displacements, and a function whose instructions are not known has no
  hash.  The file is its entries: a written file parses to what was written.
* In `Symbols` an instruction takes one address; a name is a pair of how it was
  made and of what.  The names one helper gives in recover_string_names are
  stated at once (`GiveReportedNames`), without the order in which the code
  finds them: whether a function may take a name depends on no other function.
* In `Signatures` an instruction is what the scan tells apart (its header lists
  them); bodies are no longer than the windows of the scan (`ScanWindow`).
  `ScanFunction` keeps the locals that decide a return kind, a count of arguments
  or a callee, and leaves out `float_typed_mask` and `eax_zeroed_before`, which
  only refine types.  What the functions do when they run (`Returns`) stands in
  `MCSignatures`, with the families.
* In `MagicDivision` words have `Width` bits and the magic numbers are computed by
  the code's own algorithm for that width.  Every node has a width and a sign as
  in the code: a cast takes the low bits or extends by its operand's sign, a high
  half is the intrinsic or the shift of a product of twice the width, and the
  matchers look at widths and signs exactly where the code does (3766-3772, 3852-3856)
  and nowhere else, so that the casts md_strip peels are really lost.
* In `DataFlow` a pass takes any candidate where the code takes the first one it
  scans, so the code's order is among those checked.  The caps of the passes (8 to 400
  rounds; a round of copy_propagate inlines once per block) are one constant; a
  pass at its cap may stop or go on, so every later cut is covered too.
* In `Emit` the forms of a two-way branch are those of emit_if_else_body, in its
  order: forward sinks, guard clauses, the trial of a re-convergence with its
  rollback, an arm that ends, identical arms, an epilogue, the plain if, the
  plain if/else, a shared arm, an effective join, and the duplication of a short
  return with its budget (`allowance` is `dup_budget` at the begin of an attempt,
  0 with `DS_NO_DUP`).  Short circuits, node splitting and tail merging are
  inputs (a merged condition, a graph already split, blocks marked `shared`);
  what tail merging makes of them, the goto in emit_region, is modelled.  Loops
  are left out but as gotos; the meter may trip at any block or never.
* `Project` models one document; a file opened under two spellings of its path
  has two, see section 6.

## 3. What the runs check

| Run | Instance | Properties | What it shows |
|---|---|---|---|
| `session` | scope lifecycle: 3 runs, every UI command, no pass; scope requests: 1 run with its pass, 2 requests of any of the 4 kinds; scope reanalysis: the old run, its pass and workers, the new run, 1 request | `OneLiveRun`, `AnnouncedIsCommitted`, `CommitsForward`, `KeepsPromise`, `OverlayResolved`, `FormAsAsked`, `MarkedUntilPassEnds`, `RetypeAnswered`, `PassFillsCache`, `EveryRequestAnswered`, `NoBodyAhead` | overlapping runs never both commit; the page is told only of tables it can fetch; the lifecycle implements `PublishedAnalysis`; every uncancelled run ends with an event; the guard keeps requests apart over the environment; a retype is answered with the new types; nothing blocks; with the old run and its workers still going, no body of an engine the session does not own yet is cached |
| `pool` | 3 workers, 5 functions, one without a body, batches of 2, any spawn may fail | `EachFunctionOnce`, `CompleteMeansCached`, `PassEnds`, `NoWorkLost` | the cursor hands out every function once, nothing stays in a worker's hands; with one worker granted the pass ends and loses nothing |
| `stores` | cache: 2 windows, 2 functions, 2 binaries of which one replaces the other at any time, 2 builds; project: 3 ids, every edit and fault; transport: 3 calls, one command with a parameter `id`; annotations: 3 builds, 2 edits | `LoadedWhole`, `OwnBytes`, `FileIsCurrent`, `OkMeansStored`, `IdsNeverReused`, `SurvivesRestart`, `OwnReply`, `EveryCallSettles`, `NeverOnOtherCode`, `RoundTrip` | what is loaded is exactly the cache one save was given; a body is of this build and, unless it came over a replacement of the binary, of the bytes its window read; after every completed save the file is the document, an id is given once, a restart brings back the last completed save; a promise gets its own reply, or that of a command whose parameter is its number; an annotation is never bound to other code, and what is saved is what is loaded |
| `engine` | images of 4 and 1 bytes of code in two segments with a data byte between, 14 instructions, with and without seeds; listings of 4 functions of 4 instructions; some 4,000 programs of up to 4 blocks; expressions in words of 5 bits, divisors up to 15; triples of functions and chains of 4 thunks to a function, in every order | `ListingClosed`, `CalleesAreFunctions`, `FlowStaysInside`, `FunctionsDisjoint`, `CallCountsAgree`, `NamesHold`, `MeaningKept`, `EffectsInOrder`, `RecognitionKept`, `ApiTypeOfOneResult`, `ThunksAgree` | unless a cap was hit, what the listing flows to is in the listing; a callee that can be decoded heads a function; a function does not stop before code it runs into; extents are apart; the walk's call count is that of the edges; a naming pass only replaces placeholders and never gives a name twice; after every rewrite, and wherever a cap cuts a pass, the printed program can do what the lifted one does, with its effects in order; a recognised quotient, remainder or range test calls what it called and, where variables, widths and signs are used one way, has the value of what it replaces, for every operand; a function with one result is said to return an API's type only if it does; a thunk has its target's signature |
| `emission` | graphs of up to 7 blocks | `Compiles`, `HandlersKept`, `WalksTheBlocks` | whatever emission, repair and fallback did, every goto has its one label, the handlers only the unwinder enters are there under theirs, and the text executed walks the blocks of the graph |
| `lost_retype`, `stale_cache`, `default_arm`, `moved_override`, `homed_loop`, `unjustified`, `recognition` | expected to be violated | one each | section 6 |

`MeaningKept` says the behaviours of the lifted program are among those of the
printed one, `EffectsInOrder` that the printed one has no other order of effects;
together they leave no room but for the unspecified order of operands.
`WalksTheBlocks` is the refinement of `Walk` by `Emit` with a mapping from lines
to blocks, `KeepsPromise` that of `PublishedAnalysis`; `LoadedWhole`,
`SurvivesRestart` and `OwnReply` relate a state to an earlier one.  `LoadedWhole`
compares a loaded cache with the buffer of a save, record by record, and not with
the header the load has tested.

`RecognitionKept` has premises, because without them the code does not keep the
value (`recognition`, section 6): nothing a rewrite reads changes before the
result (`OneValueEach`), double-width numbers come from extended words and are
narrowed only to their high half (`OneWidthEach`), and expressions the code takes
for equal are so (`OneSignEach`).  The families cross each premise from both sides.

Every `pass` property has a mutant in `PROJECT.json`: a definition of the code
changed as a bug would change it, under which TLC finds the property violated.

Other instances are kept beside the runs.  `MCReanalysisKeeps`, `MCForceSm`,
`MCIdParameter`, `MCSequencer`, `MCOutside`, `MCEntered` and `MCCutKeeps.cfg` each
show a disagreement of section 6.  `MCContract` runs the graphs of `emission` against
what the proofs about `EmitDriver` assume of the structurer: `KeepsContract` says
that each of its emissions is an `Emission` and a `HandlerEmission`, the invariant
`HandlersApart` that the graphs are those the second one is about.

**Bounds and why they suffice.** `MaxRuns` 3: an old run, the current one and one in
between; what the invariant says of two runs it says by pairs.  `Workers` 3 and
`Total` 5 with `BatchCap` 2 (32 in the code): full batches, a short last batch, a
worker that gets nothing, and a function without a body inside the range.
`Requests` 2 and `MaxRetypes` 1: every property of requests speaks of one request
against another or against a worker; two are needed for the guard to be contended.
One function in `Session`: requests and workers interfere only on the same entry of
the cache.  `SavedAnalysis`: two records make a torn file possible, two windows a
read during a write, and two binaries every order of read, replace and save.  `Ipc`:
of three calls one overtakes another and one carries another's number.  `Project`:
three ids allow an id to be removed and another added after it; one address and one
text (the empty text deletes) suffice because annotations of different addresses do
not meet.  `Annotations`: three builds, of which one moves a function and changes a
displacement in it, one puts other code where it was and one has two equal thunks
and a function without instructions; two edits (`MaxEdits`) make two records that
may compete for one function.  `engine`: five code bytes hold two functions with a
branch, a jump table, overlapping instructions, an instruction across a segment's
end and a target in the middle of another; with `MaxInsns` 5 the cap is hit when all
five bytes start an instruction and not otherwise (the cap on the worklist also by
many targets), and the seeds include an address that is not code.  `Symbols`: a
helper, two or three functions that report to it and a fourth that is a second
helper, a thunk or an accessor; `Window` 3 (64 in the code) and `Quorum` 2 can both
be missed by one.  `MagicDivision`: `Width` 5 gives every shift, every correction of
a signed multiplier and the add form of an unsigned one; the families are the shapes
compilers print, their near misses (every multiplier, not only the right ones),
operands of other widths and signs, narrowed quotients and dividends that change;
each result is compared on every operand.  `Signatures`: three functions call and
jump to one another in every order of addresses; four thunks in a row need all four
rounds of the code.  `DataFlow`: programs of three or four statements in up to four
blocks, from expressions that read, write, call and test, among them a branch that
computes again what the block assigned (`Again`); with `MaxRounds` 1 a pass may be
cut behind every rewrite or go on; `Fuel` 6 cuts the executions of a loop.  `Emit`:
forward graphs of 5 blocks, crossing arms of 6, nested regions, irreducible graphs,
loops (with the meter spent, as gotos), exception handlers with and without a way to
them in the function (`Reached`), returns that are copied or shared (`Tails`), split
nodes and jump tables of 3 slots; `allowance` 0, 2 and 160 copied blocks, lines of a
copy at most `DupMax` 4; `Selectors` 0 to 3 has one out of range; `MaxDepth` stands
for the code's kMaxEmitDepth (512), `MaxRetry` is the code's 24.  `MaxRuns`,
`MaxRetypes`, `MaxCalls`, `MaxId`, `MaxBinaries`, `MaxBuilds` and `MaxEdits` bound
counters; `Commands`, `AskedKinds`, `Edits` and `Faults` select actions and are all
of them in the passing runs but for what the scopes of `session` leave out: the
lifecycle of many runs has no passes, one of the other scopes no reanalysis and the
other no close, no save and no frame request.  `Parts` selects components of an
instance, all of them in the passing runs.

`CHECK_DEADLOCK FALSE` is said where the system may stop: a window closed, all
runs over, all requests answered, the engine's or the decompiler's passes done.

## 4. Fairness

Liveness needs weak fairness of: each run's worker thread, a handler of several
lock sections that has begun, the pass thread, each worker of the pool, each
request's thread, and in `Ipc` the event loop.  The code justifies it: these are
operating-system threads that wait for nothing but each other's locks, each
model step is a finite piece of code, and the event loop serves its queue in
order.  Weak fairness of a request's thread is enough for the mutex
`ondemand_guard` because each request waits once and the requests are finite.
Nothing is assumed of the user (cancel, reanalyze, close, new requests) or of
the platform's answer to a spawn: `PassEnds` and `NoWorkLost` except the case
in which every spawn was refused, where the code does wait for ever.  A stage of
an analysis is assumed to return.

## 5. What is proved

By TLAPS, for every value of the constants (`MaxRuns`, `Total`, `BatchCap`
positive naturals, `Opaque` a set of functions, `Workers`, `Requests` any sets,
`Commands` and `AskedKinds` any sets of commands and of kinds of requests):

* `AnalysisProofs`: `AnalysisTypeCorrect`; `LifecycleInvariant`;
  `OneLiveRunHolds`, `AnnouncedIsCommittedHolds`, `CommitsForwardHolds`;
  `KeepsPromiseHolds`, the refinement of `PublishedAnalysis`.  It also holds what
  Insert, Remove and Merge of the cache return.
* `BackgroundProofs`: `PassTypeCorrect`; `PoolInvariant`; `EachFunctionOnceHolds`,
  `CompleteMeansCachedHolds`.
* `SessionProofs`, of the window with all its threads: `SessionInvariant`;
  `FormAsAskedHolds`, `RetypeAnsweredHolds`, `NoBodyAheadHolds`,
  `MarkedUntilPassEndsHolds`, `PassFillsCacheHolds`, `ForceSmRestoredHolds`
  (`DS_FORCE_SM` is unset whenever the guard is free); and the
  lifecycle's theorems again for the composition, in which requests and workers
  run beside it: `OneLiveRunInSession`, `AnnouncedIsCommittedInSession`,
  `CommitsForwardInSession`, `KeepsPromiseInSession`.
* `EngineProofs`: of the sweep, `SweepInvariant` and `SweepClosesListing`; of the
  functions, `EngineInvariant`; `CalleesBecomeFunctions`, `ExtentsDisjoint`,
  `EngineClosesListing` (the sweep's theorem for the composed specification);
  `FunctionsKeepTheirCode`; `CallCountsHold`; of the names, `NamesInvariant` and
  `NamesHoldAlways`.
* `SignaturesProofs`: `SignaturesInvariant`; `ShortThunksAgree`,
  `ThunksAgreeHolds`.
* `EmitProofs`: `DriverInvariant`; `CompilesHolds`; `RoundsAddLabelsHolds` (the
  rounds of emission converge); `HandlersKeptHolds`.
* `StoresProofs`, in four parts.  Saved cache: `SavedInvariant`,
  `OwnBytesHolds`, `LoadedWholeHolds`.  Project: `ProjectInvariant`,
  `IdsNeverReusedHolds`, `FileIsCurrentHolds`, `OkMeansStoredHolds`,
  `SurvivesRestartHolds`.  Transport: `OwnReplyHolds`.  Annotations:
  `NotesInvariant`, `NeverOnOtherCodeHolds`, `RoundTripHolds`.

The theorems of the first three parts of `StoresProofs` state their assumptions:
finitely many functions (`FiniteBinary`); comment texts that are not empty
(`TextsAreTexts`, the code trims them and deletes on the empty one); natural
numbers for the ids (`IpcAssumption`).  They hold for binaries that are replaced
at any time and for any commands with a parameter `id`.

The other modules' assumptions are on their constants, and TLC evaluates them.  The
engine's theorems hold for any image size, any disjoint segments, any set of
instructions, any seeds and any cap (`ImageAssumption`, `DisjointSegments`); those
of the names for any set of listings that a disassembly can have produced
(`SymbolsAssumption`); those of the annotations for any builds with finitely many
functions, none at address 0, and any names but the empty one, which the code
takes for "no name" (`AnnotationsAssumption`); those of the signatures for any
program (`IsProgram`, which TLC finds true of every program of the runs) and any
imports, without an assumption.  The theorems of `EmitProofs` are
about any graph, any budget and any structurer: the first three assume of an
emission that its text is one, that it asks for labels of blocks, no fewer than
before, and that the meter does not grow (`Emission`); `HandlersKeptHolds` also
that the structurer does its part for the handlers (`HandlerEmission`) and that no
handler was merged into another block, copied, or shares its address
(`HandlersApart`).  That the modelled structurer fulfils both is what `MCContract`
checks.

*Lifecycle.*  `OneLiveRun` alone is not inductive: that only one run can commit
follows from the order in which reanalyze cancels, replaces the flag and starts.
`Lifecycle` says that runs before `token` are cancelled, runs after it idle and
untouched, where the UI thread is inside reanalyze, and that `view` trails
`token` until the session's own run has committed.  Each property is a
consequence; `CommitsForward` and the refinement use it in the state before the
step, with the commit's own test (`MayCommit`).

*Pool.*  The cursor separates the functions that were handed out from those that
were not (`BelowCursor`), so a fresh claim is disjoint from everything held or
published (`OnceIn`); a function that was handed out and has a body is in some
worker's hands or in the cache unless the pass was cancelled (`NothingLost`); a
worker leaves its loop only at the end of the cursor (`StopsAtTheEnd`) and with
an empty batch (`ParkedIsEmpty`).  A full count needs somebody who counted
(`SomebodyCounted`), so at the join of an uncancelled pass at least one worker
has drained, the cursor is at the end, and all hands are empty: the cache is
full (`CompleteAt`).  This is where the comment "a failed spawn loses no work"
is justified, up to the case with no worker.  The proof is per action and, under
it, per conjunct.

*Session.* Three kinds of threads share a window, and the proof's difficulty is
what a step of one does to what is said of the others. `SessionInv` has a part
per actor, and each kind of step is examined once against the parts of the
others. `RequestInv`: a request's position determines what it holds
(`RequestControl`), one handler is on the UI thread (`OneHandler`); whoever
holds `ondemand_guard` determines `env.sm`, and when nobody does it is unset
(`GuardInv`), which is why a request gets the form it asked for although the
variable belongs to the process; the version a retype asked for is in the type
store until its body is made, and the body has at least that version
(`VersionsKept`, `AnswersFit`). `PassInv`: a pass is of a committed run; unless
the run was cancelled, a function handed out by the cursor is cached, or in some
worker's hands, or has been removed by a retype that is still to publish its new
body (`NothingLostBeside`; the pool's own `NothingLost` is false here, since
requests remove entries). `NobodyAhead` and `MarksInv` cannot be said of the
cache alone: a body may lie in a worker's batch, in the result of a request that
will publish it or in the saved file while runs come and go. They are stated for
every body that is `Kept` anywhere, and then each step only moves bodies from
one such place to another.

*Sweep.*  That the listing is closed when the sweep ends says nothing of the
states before.  `SweepInv` says where every successor of a decoded instruction
waits: its target in the listing, on the worklist, or where sweep_run is about
to decode (`TargetsKept`); the address behind it also at the linear cursor or at
the beginning of a segment (`FlowKept`); and each beginning of a segment in the
listing or still ahead of the linear sweep (`BeginningsSwept`).  The last part is
where disjoint segments are needed: an instruction that ends with its segment
may flow into the next one, whose beginning must not be skipped.  All this holds
only while no cap was hit, and a cap is never unhit.  At the end the worklist is
empty and no cursor moves, so everything is in the listing.

*Functions.*  The walk takes the starts in ascending order, so the table is the
starts before the current one (`TableFollowsStarts`), and every decoded callee is
a start (`CalleesStart`); with the closed listing every callee that is code is
one.  A walk stops in front of the next start (`StopsAtStarts`), which needs that
instructions do not overlap: the last one might otherwise reach past it.

*Walk of a function.*  The code follows a function through the listing and
remembers one address, the highest branch target seen so far; it stops at a
return or a jump beyond which no noted target lies.  That this one number is
enough is `FlowInv`: a target of an instruction passed, between the function's start and
the next one, is at most the one noted (`JumpsNoted`), and an instruction passed
that can go on has its successor passed too or under the cursor (`FallsOn`).  When the
walk stops, no target lies beyond its end; `Stands` keeps this for the
functions already appended.  For the call counts, the walk's `calls` is at every
moment the number of call edges out of the instructions passed (`CountInv`),
which at the end is what ds_engine_build_xrefs counts.

*Names.*  `NamesInv`: a name that was better than a placeholder stays (`OwnKept`);
two functions share a name only when both came with it (`NoNameTwice`); until the
shapes are looked at a new name is a reported one (`ReportsFirst`); and behind
the cursor of recover_string_names a function that reports its name to an accepted
helper has it, unless it had a better one or the name is another's
(`ReportsHeard`).  The last is why a reported name outranks what the shape of a
function suggests.

*Signatures.*  `SigInv`, for every program (`SigSpec` begins with any functions of
at most `ScanWindow` instructions, in any order).  A thunk is one jump, so all three
maps lead from it to its target (`Linked`), and from its scan on it says no more
than the target (`ThunkInv`): a scanned thunk takes the arity of a target already
scanned and nothing of one that is not, and whosever turn a loop comes to, that
stays (`TurnBelow`).  That it says no less is a matter of the rounds.  `Still` says
that a loop has nothing left to do at a function, and the functions are ranked by
what the loops read for them (`Ranks`).  A turn leaves its function still
(`OneTurn`), functions that are still and read only one another never change
again, and so a function that reads only those stays still once its turn has
passed (`TurnOn`, `LoopSettles`), through the loops behind as well (`Persists`):
each round settles one rank more (`ForwardRoundUp`, `ApiRoundUp`), whatever the
order of the addresses.  When a round of API types changes nothing, the same step
from the same table settles every rank (`QuietSettles`), so stopping early loses
nothing.  A settled thunk agrees with its target (`SettledAgrees`).  Two limits are
in the statements because they are in the code: the chains behind a thunk must be
no longer than the rounds are many (`ShortChains`; a program with longer ones, or
with functions that forward to one another in a circle, has ranks for the others
only), and a target that returns only itself becomes void behind the rounds.

*Emission.*  `Compiles` has two sources.  A body that settles by ok_struct has its
labels in order; every other text is built by emit_goto_cfg or
emit_state_machine, in which each block stands once (`Ordered`: the order by
address has every block in one place) and every jump is to a block.  What comes
behind must keep it: prune_dead_labels drops no label a goto asks for,
dedupe_label_defs leaves the first of each, the joined ifs lose only `if` and `end`
lines.  All of them are lists of positions that stay (`Picks`, `Filtered`,
`Joining`), so what holds of pairs of lines is kept.  The rounds converge because
`need` only grows and the best attempt's set is a part of it (`DriverInv`).

*Handlers.*  No goto asks for the label of a handler nothing in the function leads to
(`Entered`), so nothing but the exemption by extern_entry_labels keeps it.  `HandlerInv` says
that its label always has its own statements behind it (`Leads`), in the body and
in the best attempt; that a handler which was emitted has a label; and that only
a tripped budget leaves one out.  A label is never dropped without its
statements and the other way round: both strips decide at the line of the label
(`PickedLead`).  A handler left out comes back with the tail of Settle, which
emits every block that is not in `structured`; and there lies the point of
`HandlersApart`, since a handler that was merged or copied would count as emitted
with its label elsewhere.

*Saved cache.*  What a loaded cache is rests on the file, and that on the buffer a
save was made from.  `SavedInv` says that a window has no bodies until its run
commits (`EmptyWhileReading`, so a save during the analysis writes an empty buffer
and not the bodies of the run before); that every cached body is of this build and,
unless the cache crossed a replacement, of the bytes the window read (`BodiesAreOwn`);
that a buffer's header is true of its records (`BufferIsTrue`); and that the file is
at every moment a prefix of such a buffer, header first (`FileIsPrefix`).  A prefix
with as many records as its header announces is the whole buffer, which is
`LoadedWholeHolds`: the count in the header is enough against a torn file because all
records on disk are of one buffer.  `OwnBytesHolds` has no
assumption on the binary; what it leaves open, a cache that crossed a replacement,
is what `stale_cache` shows.

*Project file.*  `NothingUnsaved` ties file, document and last completed save
together whenever no save is under way; `SurvivesRestart` is that part in the
state before the project is opened.  `OkMeansStored` follows from what holds
while a save is under way: the document in memory has the comment the edit asks
for, and the lock keeps every other edit out.  `IdsNeverReused` needs that ids
in the file, too, are below the next one (`Numbered`).

*Replies.*  Every message under way, in the inbox, with a thread or in the
outbox, carries the number of its own call unless its command is one of those with a
parameter `id` (`UnderOwnNumber`).

*Annotations.*  `NotesInv`: at most one record per address and each says something
(an empty one is removed by the setter); no two are bound to one function; and a
binding fits the record's identity (`Fits`): the hashes agree or one of them is
not known, and where another function has the same code the record is bound at
its own address.  That holds through every rebuild because ds_anno_resolve binds
by hash only a function that is alone with it.  `RoundTrip` compares two lists:
after `n` entries of the file the store holds exactly the records whose
identity is among the first `n` keys, by induction over the entries.  It needs
that keys of a written file are distinct, which is `OneRecord`.  The induction
takes the least number at which the statement fails (`LeastOf`, from the
well-foundedness of `<`), since the library's induction rules cannot be
instantiated.

*Model-checked only*: liveness, since temporal properties under fairness are out
of the prover's reach here (`OverlayResolved`, `PassEnds`, `NoWorkLost`,
`EveryRequestAnswered`, `EveryCallSettles`); and the properties of the
decompiler's modules, which are about recursive operators (what an expression
means, what a text does, what a function returns) and so cannot be proved in them:
`MeaningKept` and `EffectsInOrder` of `DataFlow`, `RecognitionKept` of
`MagicDivision`, the refinement `WalksTheBlocks` of `Emit`, and `ApiTypeOfOneResult`,
which says what a function returns when it runs.

## 6. Where code and comments disagree

Seven runs must find a property violated:

* `lost_retype`: a worker that decompiled a function before a retype publishes
  the old body after it.
* `stale_cache`: the stamp in a saved file is that of the binary on disk at the save,
  not of the one analysed.  A binary replaced under an open window that then saves
  gives the next window the old bodies over the new bytes (session.rs:214 against
  "never stale" at 162-163).
* `moved_override`: a type override is stored at the address it was made at and
  read at the address it is bound to.  When a rebuild has moved the function,
  clearing the override adds an empty record at the new address and the old one
  still applies (annotations.cpp:413 against 452).
* `homed_loop`: the one assignment of a local that shares a parameter's home slot
  is taken for its definition and inlined into a loop's condition (3555 against
  the comment at 3529 of decompiler.cpp).
* `default_arm`: a jump table with a slot equal to its default is printed without
  a default (20_loop_sinks.inc:845 against 02_rtti_vtable.inc:929).
* `unjustified`: of several exits the last one whose value is a call's result gives
  the function its API type, whatever the others return (decompiler.cpp:7461 against
  "Sound because ..." at 8201-8204).  The quotient of the result (7632-7637) and an
  exit with a value beside a tail jump (8237-8243) do the same.
* `recognition`: md_try_modulo strips the casts of the quotient, narrowing ones too
  (3928), so a remainder of a narrowed quotient gets another value, against
  "recognition can never change behavior" (3622-3628).  Further shapes are outside
  the premises of `RecognitionKept`: md_resolve replaces a temporary by its
  definition though what it reads has changed (`OneValueEach`), a product of mixed
  signs (3772, `OneWidthEach`), and the add form (3879-3910) does not ask whether its
  shifts are logical (`OneSignEach`).

Met while modelling.  Those with a configuration in brackets can be run.

Session, transport and project:

* A reanalysis of a binary with a saved cache loads that cache again and starts no
  pass; the dialog promises that cached bodies are discarded (session.rs:631
  against disasm.js:1413).  Without a saved cache, a worker of the cancelled run
  may still drain its batch into the cache after the new run has committed
  [`MCReanalysisKeeps.cfg`].
* Workers do not take `ondemand_guard`; one that decompiles while a request has set
  `DS_FORCE_SM` caches the state-machine form (ipc.rs:601 against 82 and 574)
  [`MCForceSm.cfg`].
* `hostSend` copies parameters over the envelope, and `remove_binary` and
  `open_binary` have a parameter `id`: the reply settles another call, or none
  (ipc.js:41 and project.js:70, 76 against ipc.js:8) [`MCIdParameter.cfg`].
* The end of a pass removes `DS_LINE_ADDR` under a request that relies on it
  (hence the condition in `MarkedUntilPassEnds`).
* When every spawn of the pool fails the reporter never leaves its loop
  (`NoWorker` in `PassEnds` and `NoWorkLost`).
* A stage that fails pushes `analysis_error` also after a cancel; the comment
  on run_analysis says that it returns quietly.
* A saved cache suppresses the pass of the next session even when it was saved
  half way through.
* A crash or a write error inside a save of a project loses the file (`durable`
  in `Project` excepts it), and a window whose binary was removed gets `ok` for
  comments that go nowhere (`OkMeansStored` excepts it).
* A project opened under two spellings of its path has two documents that
  overwrite each other, and open_binary answers ok before the event that opens the
  window is handled, when the binary may be gone.

Engine:

* `block_count` is said to be the number of basic blocks, and counts the
  instruction behind a tail jump, which is not in the function (cfg.cpp:325).
* A call to address 0 counts in the walk and has no edge, so the later count
  drops it (`NoNullCall` in `CallCountsAgree`).
* An annotation is looked up by the address it was made at: naming a function that
  stands where an annotated one used to be overwrites that record and keeps its
  comment (against annotations.cpp:8-9 and 19-26).  ds_anno_for_func has no caller
  and `DS_ANNO_FILE` is read nowhere (disasm.h:182-185).  load, resolve and
  set_func do not take the mutex of the variables' records (against 379-380).  A
  malformed entry leaves a store that is half loaded and not resolved.
* A real symbol that begins with `fun_` counts as a placeholder (symbols.cpp:109
  against 343); a thunk of a thunk further up is named after its target's
  placeholder though the target is renamed later (against 160-161).

Decompiler, signatures and idioms:

* Wrappers are resolved in four rounds in the order of the addresses, "to a fixed
  point" (decompiler.cpp:8112-8113): `ThunksAgree` holds for chains of four thunks
  (`ShortThunksAgree` says it of every program).
* A function that calls and then jumps, and writes no argument register, gets its
  target's return kind from the third loop of a round (8167-8170), although
  8122-8125 says not to invent a return value [`MCSequencer.cfg`].
* A thunk behind its target keeps its own float and pointer masks (8145-8152); a
  thunk of a function that became void through its own recursion keeps its kind
  (against 8153); `call Enter; jmp Leave` counts as an acquire (8019-8024); a jump
  to an import gives an 8-byte result (7537-7548) that the end of the scan takes
  back.  The cache of tables is keyed by the engine's address and never evicted
  (8272).

Decompiler, passes and text:

* fold_dead_block_temps does not count the reads of a redefinition's own right
  side; coalesce_locals renames a local that is homed on a parameter into another one
  and loses the value it starts with, which its declaration prints (2422-2428 against
  2331-2336) [`MCOutside.cfg`, both with `tlc -continue`].
  canonicalize_branch_after_assign puts `v` for `v + 1` in `v = v + 1; if (v + 1 < n)`
  (2302-2311, "exact").  The list of terminal fields in global_dead_store_elim
  (2530-2534) is shorter than the one at 2579.  local_dead_store_elim (2265) does
  not look for a local whose address is taken; copy_propagate does not take the
  assignment of such a local for a write to memory.  A load may be inlined beside
  a call.  The families of `MCDataFlow` leave these shapes out.
* A handler that also a branch of the function leads to is not always kept: where
  its return is copied into the branch (19_emit_structure.inc:850) nothing is
  printed under its own label, against "emitted with a real label"
  (decompiler.cpp:5639-5641) [`MCEntered.cfg`].  `HandlersKept` is about the others.
* A region cut by the budget may be cut inside a switch whose arms are already
  printed [`MCCutKeeps.cfg`], against decompiler.cpp:2014-2019.
* The statements of a dispatch block run for values the guard excludes; the goto
  form prints nothing behind a switch without a default (5847 says "always
  correct"); a state machine without a default loops for ever and has no labels of
  exception handlers.

## 7. What is not modelled

* Contents: instruction decoding (capstone is vendored), lifting of instructions to
  expressions, naming and typing heuristics, binary parsers, FLIRT, PDB, RTTI, Go
  and Rust metadata.  They are functions of the file without state that outlives
  them; what the modelled components need of them is an input.
* Of the decompiler: recovery of loops and the structurer's loop forms, short-circuit
  and ternary forms, the rewriting of flag and forward dispatches
  (18_cfg_loops.inc 747 and behind), node splitting, tail merging (its result is an
  input of `Emit`), type inference, common subexpressions, the folding of constants,
  trim_phantom_call_args and trim_format_args; in the scan of signatures x87,
  `float_typed_mask`, `eax_zeroed_before`,
  loop-counter guards, packed moves and shared epilogues.
* The pages, the Manager's deferred events and its table of documents: hazards of
  their own in `PROJECT.json`, without a property yet.
* Dialogs, the asset protocol and the script loop: I/O.
* The C memory model: the tables the decompiler caches are read under their mutex,
  and a race on the environment (setenv beside getenv) is modelled as its order.

## 8. Plan

Done: the session and its files, the engine's listing, functions, names,
annotations and signatures, and the decompiler from the lifted statements to the
text.  Next:

1. `Windows`: the Manager's tables, deferred `UserEvent`s (`open_binary` against
   `remove_binary`), documents by spelling, two windows over one environment.
2. `Page`: boot on `analysis_done`, `decompSeq` against late answers, overlay,
   virtual list and history; composed with `Ipc`.
3. `EngineCaches`: the tables the decompiler keys by engine address.
4. `Loops`: recovery of loops and node splitting, in front of `Emit`.
5. Pure algorithms: type inference, trimming of arguments, `Listing` (row index),
   FLIRT's tree, bounds of the parsers.
6. Project: create's search for a free name, the scratch project.
7. Proofs: which passes of `DataFlow` only remove nodes, in a module without what
   an expression means (the recursive operators there).

Abstract specifications worth stating next: a page that shows the answer to the
latest question only (for `Page`), an atomic file (for `SavedAnalysis`), and a
map of ids to answers (for `Ipc`).
