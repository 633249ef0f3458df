----------------------------- MODULE Signatures -----------------------------
(***************************************************************************)
(* The table of signatures (build_sig_table, decompiler.cpp): what each    *)
(* function takes and returns, told from its instructions and from what    *)
(* the table says so far of the functions it calls.  The functions are     *)
(* scanned in the order of their addresses, so a callee behind its caller  *)
(* is unknown when the caller is scanned; the rounds that follow carry     *)
(* arity, return kind, lock kind and API type along wrappers and thunks.   *)
(*                                                                         *)
(* An instruction is what the scan tells apart:                            *)
(*   use, set, deref, home, lea   of the integer argument register reg     *)
(*                                (lea: the address of a local)            *)
(*   frame                        sub rsp                                  *)
(*   stack                        a read of the stack argument w           *)
(*   fuse, fset                   a scalar read, or definition, of xmm reg *)
(*   value, copy, divide          a write of rax: w bytes, the argument    *)
(*                                register reg, the implicit result        *)
(*   test, store, fstore          rax read at 64 bits; eax or xmm0 stored  *)
(*   call, api, indirect          calls of a function, an import, anything *)
(*   jump, import_jump            jumps out, to a function or an import    *)
(*   skip                         a branch over the code up to an exit     *)
(*   ret, trap                                                             *)
(* Bodies are no longer than the windows of the scan (12 and 40            *)
(* instructions, 24 for a lock wrapper); 32-bit code, packed moves and the *)
(* guards against loop counters are left out.                              *)
(***************************************************************************)
EXTENDS Integers, Sequences

CONSTANTS
    ApiType,    \* imports (their slots in the IAT, beyond all functions)
                \* to the type they return, or NoType
    ApiArity,   \* imports to their known arity
    ApiLock     \* imports to "acquire", "release" or "none"

VARIABLES
    code,           \* the bodies, in the order of the addresses
    tab,            \* the signatures of the functions scanned so far
    tail_of,        \* function -> the function its tail jump leads to
    lock_thunk_of,  \* one-call wrapper -> its lone callee
    fwd_thunk_of,   \* thunk that writes no argument register -> its target
    stage,
    round

sigVars == <<code, tab, tail_of, lock_thunk_of, fwd_thunk_of, stage, round>>

SignaturesAssumption ==
    /\ DOMAIN ApiType \subseteq Nat \ {0}
    /\ ApiArity \in [DOMAIN ApiType -> Nat]
    /\ ApiLock \in [DOMAIN ApiType -> {"none", "acquire", "release"}]

NoType == "none"

Regs == 0..3

Larger(a, b) == IF a > b THEN a ELSE b

Floating(kind) == kind \in {"float", "double"}

FloatKind(w) == IF w >= 8 THEN "double" ELSE "float"

I(op, reg, w, to) == [op |-> op, reg |-> reg, w |-> w, to |-> to]

-----------------------------------------------------------------------------
(* The scan of one function.                                               *)

NotScanned ==
    [at |-> 0, last |-> "none",
     written |-> {}, used |-> {}, homed |-> {}, presub |-> {}, framed |-> FALSE,
     ptr |-> [p \in Regs |-> 0], stack |-> 0,
     xwritten |-> {}, xused |-> {}, xw |-> [p \in Regs |-> 0],
     rax |-> [w |-> 0, at |-> 0, stored |-> FALSE, from_call |-> FALSE, target |-> 0],
     xmm0 |-> [w |-> 0, at |-> 0, stored |-> FALSE],
     sets_rax |-> FALSE, rax_writes |-> 0, param_copy |-> FALSE,
     has_ret |-> FALSE, rax_live |-> FALSE, xmm0_live |-> FALSE, fp_tail |-> FALSE,
     ret_w |-> 0, ret_xmm0_w |-> 0, byte_ret |-> FALSE, wide_ret |-> FALSE,
     only_from_call |-> FALSE, real_value |-> FALSE, call_target |-> 0,
     prior_call |-> FALSE, inherit |-> "void", tail |-> 0,
     calls |-> 0, local |-> 0, locals |-> 0, api_lock |-> "none", api_locks |-> 0,
     tail_lock |-> "none"]

\* The registers that reach a callee of this arity as they came in.
Forwarded(s, arity) == {p \in Regs : p < arity} \ s.written

\* The last value put into rax, or xmm0, was not stored before the ret.
RaxClose(s) == s.rax.w > 0 /\ ~s.rax.stored

Xmm0Close(s) == s.xmm0.at > 0 /\ ~s.xmm0.stored

\* The instruction before the ret sets xmm0.
FpTail(s) == s.last = "fset" /\ s.xmm0.at = s.at

\* rax or xmm0, whichever was set closer to the ret.
AfterRet(s) ==
    IF FpTail(s) \/ (Xmm0Close(s) /\ (~RaxClose(s) \/ s.xmm0.at > s.rax.at))
      THEN [s EXCEPT !.has_ret = TRUE, !.xmm0_live = TRUE, !.rax_live = FALSE,
                     !.fp_tail = @ \/ FpTail(s),
                     !.ret_xmm0_w = Larger(@, IF s.xmm0.w = 0 THEN 4 ELSE s.xmm0.w)]
    ELSE IF RaxClose(s)
      THEN [s EXCEPT !.has_ret = TRUE, !.rax_live = TRUE, !.ret_w = Larger(@, s.rax.w),
                     !.only_from_call = @ \/ s.rax.from_call,
                     !.call_target = IF s.rax.from_call THEN s.rax.target ELSE @,
                     !.real_value = @ \/ ~s.rax.from_call,
                     !.byte_ret = @ \/ s.rax.w = 1,
                     !.wide_ret = @ \/ s.rax.w >= 4]
    ELSE [s EXCEPT !.has_ret = TRUE]

\* What a call leaves in rax or xmm0, as far as the callee is known.
ResultOf(s, c) ==
    LET kind == IF c.op = "call" /\ c.to \in DOMAIN tab THEN tab[c.to].ret_kind ELSE "int"
        w == IF kind = "long" \/ c.op = "api" THEN 8 ELSE 4
    IN  CASE Floating(kind) ->
                [s EXCEPT !.xmm0 = [w |-> IF kind = "double" THEN 8 ELSE 4, at |-> s.at + 1, stored |-> FALSE],
                          !.rax.w = 0, !.rax.from_call = FALSE]
          [] kind = "void" -> [s EXCEPT !.rax.w = 0, !.rax.from_call = FALSE]
          [] OTHER -> [s EXCEPT !.rax = [w |-> w, at |-> s.at + 1, stored |-> FALSE, from_call |-> TRUE,
                                         target |-> IF c.op = "indirect" THEN 0 ELSE c.to]]

KnownArity(c) ==
    CASE c.op \in {"call", "jump"} /\ c.to \in DOMAIN tab -> tab[c.to].param_count
      [] c.op = "api" -> ApiArity[c.to]
      [] OTHER -> 0

AfterCall(s, c) ==
    LET lock == IF c.op = "api" THEN ApiLock[c.to] ELSE "none" IN
    [ResultOf(s, c) EXCEPT
        !.prior_call = TRUE,
        !.used = @ \cup Forwarded(s, KnownArity(c)),
        !.xwritten = Regs,
        !.calls = @ + 1,
        !.local = IF c.op = "call" THEN c.to ELSE @,
        !.locals = IF c.op = "call" THEN @ + 1 ELSE @,
        !.api_lock = IF lock # "none" THEN lock ELSE @,
        !.api_locks = IF lock # "none" THEN @ + 1 ELSE @]

\* A tail call of a function: its arguments are this one's, and so is its
\* result, unless this one did work of its own.
AfterJump(s, c) ==
    LET kind == IF c.to \in DOMAIN tab THEN tab[c.to].ret_kind ELSE "void" IN
    [s EXCEPT !.tail = c.to,
              !.used = @ \cup Forwarded(s, KnownArity(c)),
              !.inherit = IF kind # "void" /\ ~s.sets_rax /\ (~s.prior_call \/ Floating(kind))
                            THEN kind ELSE @]

AfterImportJump(s, c) ==
    [s EXCEPT !.ret_w = Larger(@, 8), !.wide_ret = TRUE, !.rax_live = TRUE,
              !.tail_lock = IF ApiLock[c.to] # "none" THEN ApiLock[c.to] ELSE @]

\* Mutant: a later write does not take away that the value was a call's.
WritesRaxOfCall(s, w) ==
    [s EXCEPT !.rax = [@ EXCEPT !.w = w, !.at = s.at + 1, !.stored = FALSE],
              !.sets_rax = TRUE, !.rax_writes = @ + 1, !.param_copy = FALSE]

WritesRax(s, w) ==
    [s EXCEPT !.rax = [@ EXCEPT !.w = w, !.at = s.at + 1, !.stored = FALSE, !.from_call = FALSE],
              !.sets_rax = TRUE, !.rax_writes = @ + 1, !.param_copy = FALSE]

Reads(s, p) == IF p \in s.written THEN s ELSE [s EXCEPT !.used = @ \cup {p}]

\* A store of an argument register to its home slot, before sub rsp or after.
Homes(s, p) ==
    [s EXCEPT !.used = @ \cup {p}, !.homed = @ \cup {p},
              !.presub = IF s.framed THEN @ ELSE @ \cup {p}]

\* The implicit result of a division or multiplication.
Divides(s, w) == [s EXCEPT !.rax.w = Larger(4, w), !.rax.at = s.at + 1, !.rax.stored = FALSE]

\* The operands of the other instructions.
AfterOperands(s, c) ==
    CASE c.op = "use" -> Reads(s, c.reg)
      [] c.op \in {"set", "lea"} -> [s EXCEPT !.written = @ \cup {c.reg}]
      [] c.op = "deref" ->
            IF c.reg \in s.written THEN s
              ELSE [Reads(s, c.reg) EXCEPT !.ptr[c.reg] = IF @ = 0 THEN c.w ELSE @]
      [] c.op = "home" -> Homes(s, c.reg)
      [] c.op = "frame" -> [s EXCEPT !.framed = TRUE]
      [] c.op = "stack" -> [s EXCEPT !.stack = Larger(@, c.w)]
      [] c.op = "fuse" ->
            IF c.reg \in s.xwritten THEN s
              ELSE [s EXCEPT !.xused = @ \cup {c.reg}, !.xw[c.reg] = Larger(@, c.w)]
      [] c.op = "fset" ->
            [s EXCEPT !.xwritten = @ \cup {c.reg},
                      !.xmm0 = IF c.reg = 0 THEN [w |-> c.w, at |-> s.at + 1, stored |-> FALSE] ELSE @]
      [] c.op = "value" -> WritesRax(s, c.w)
      [] c.op = "copy" ->
            [WritesRax(Reads(s, c.reg), 8) EXCEPT !.param_copy = s.rax_writes = 0]
      [] c.op = "divide" -> Divides(s, c.w)
      [] c.op = "test" -> IF s.rax.from_call THEN [s EXCEPT !.rax.w = 8] ELSE s
      [] c.op = "store" -> [s EXCEPT !.rax.stored = TRUE]
      [] c.op = "fstore" -> [s EXCEPT !.xmm0.stored = TRUE]
      [] OTHER -> s

After(s, c) ==
    CASE c.op = "ret" -> AfterRet(s)
      [] c.op \in {"call", "api", "indirect"} -> AfterCall(s, c)
      [] c.op = "jump" -> AfterJump(s, c)
      [] c.op = "import_jump" -> AfterImportJump(s, c)
      [] OTHER -> AfterOperands(s, c)

Passed(s, c) == [After(s, c) EXCEPT !.at = s.at + 1, !.last = c.op]

Scanned(f) ==
    LET seen[i \in 0..Len(code[f])] ==
            IF i = 0 THEN NotScanned ELSE Passed(seen[i - 1], code[f][i])
    IN  seen[Len(code[f])]

-----------------------------------------------------------------------------
(* The signature made of what the scan has seen.                           *)

Highest(S) == IF S = {} THEN 0 ELSE 1 + CHOOSE p \in S : \A q \in S : q <= p

FloatArgs(s) == s.xused \ (s.used \cup s.homed)

\* The homing stores tell the parameters; without any, what was read before
\* it was written.
ParamCount(s) ==
    LET ints == IF s.homed # {} THEN Highest(s.homed) ELSE Highest(s.used \cup s.xused)
    IN  Larger(Larger(ints, Highest(FloatArgs(s))), s.stack)

RetKind(s) ==
    IF ~s.has_ret THEN "void"
    ELSE IF s.xmm0_live /\ s.fp_tail THEN FloatKind(s.ret_xmm0_w)
    ELSE IF s.rax_live THEN (IF s.ret_w >= 8 THEN "long" ELSE "int")
    ELSE IF s.xmm0_live THEN FloatKind(s.ret_xmm0_w)
    ELSE IF s.inherit # "void" THEN s.inherit
    ELSE IF s.param_copy THEN "long" ELSE "void"

\* Only a body of one call is the lock primitive itself.
LockKind(s) ==
    IF s.calls = 1 /\ s.api_locks = 1 THEN s.api_lock
    ELSE IF s.calls = 0 THEN s.tail_lock ELSE "none"

LockThunk(s) ==
    IF LockKind(s) # "none" THEN 0
    ELSE IF s.calls = 1 /\ s.locals = 1 THEN s.local
    ELSE IF s.calls = 0 THEN s.tail ELSE 0

Signature(s) ==
    LET kind == RetKind(s)
        pc == ParamCount(s)
        floats == FloatArgs(s)
    IN  [param_count |-> pc,
         is_variadic |-> s.presub = Regs,
         float_mask |-> floats,
         double_mask |-> {p \in floats : s.xw[p] = 8},
         ptr_param |-> [p \in Regs |-> IF p < pc /\ p \notin floats THEN s.ptr[p] ELSE 0],
         ret_kind |-> kind,
         ret_byte |-> s.rax_live /\ kind = "int" /\ s.byte_ret /\ ~s.wide_ret,
         ret_only_from_call |-> s.only_from_call,
         saw_real_value_ret |-> s.real_value,
         saw_prior_call |-> s.prior_call,
         ret_call_target |-> s.call_target,
         is_noreturn |-> ~s.has_ret /\ s.tail = 0 /\ s.last = "trap",
         lock_kind |-> LockKind(s),
         ret_api |-> NoType,
         sret_hint |-> FALSE]

-----------------------------------------------------------------------------
SigStarts(programs) ==
    /\ code \in programs
    /\ tab = <<>>
    /\ tail_of = <<>> /\ lock_thunk_of = <<>> /\ fwd_thunk_of = <<>>
    /\ stage = "scan" /\ round = 0

\* Adds f to one of the maps of thunks, if it leads somewhere.
With(map, f, target) ==
    IF target = 0 THEN map
    ELSE [g \in DOMAIN map \cup {f} |-> IF g = f THEN target ELSE map[g]]

ScanFunction ==
    /\ stage = "scan"
    /\ LET f == Len(tab) + 1
           s == Scanned(f)
       IN  /\ tab' = Append(tab, Signature(s))
           /\ tail_of' = With(tail_of, f, s.tail)
           /\ lock_thunk_of' = With(lock_thunk_of, f, LockThunk(s))
           /\ fwd_thunk_of' = With(fwd_thunk_of, f, IF s.written = {} THEN s.tail ELSE 0)
           /\ stage' = IF f = Len(code) THEN "sret" ELSE "scan"
    /\ UNCHANGED <<code, round>>

SretWindow == 6

\* The address of a local was the last thing put into rcx before the call.
GivesLocal(body, i) ==
    LET near == {k \in 1..(i - 1) : k >= i - SretWindow /\ body[k].reg = 0
                                   /\ body[k].op \in {"set", "lea", "use"}}
    IN  near # {} /\ body[Highest(near) - 1].op = "lea"

\* A callee that hands something back in rax and is given such an address
\* may return a struct.  Nothing consumes the hint yet.
CallerEvidence ==
    /\ stage = "sret"
    /\ tab' = [f \in DOMAIN tab |->
                 [tab[f] EXCEPT !.sret_hint =
                    /\ tab[f].ret_kind \in {"int", "long"}
                    /\ \E g \in DOMAIN code : \E i \in DOMAIN code[g] :
                          code[g][i].op = "call" /\ code[g][i].to = f /\ GivesLocal(code[g], i)]]
    /\ stage' = "forward"
    /\ UNCHANGED <<code, tail_of, lock_thunk_of, fwd_thunk_of, round>>

\* Mutant: one round less.
ForwardRoundsLess == 3

ForwardRounds == 4

\* The three loops of a round, by their turns.
ResolveTail(t, f) ==
    LET kind == t[tail_of[f]].ret_kind IN
    IF t[f].ret_kind = "void" /\ (~t[f].saw_prior_call \/ Floating(kind))
      THEN [t EXCEPT ![f].ret_kind = kind] ELSE t

ResolveLock(t, f) ==
    IF t[f].lock_kind = "none" THEN [t EXCEPT ![f].lock_kind = t[lock_thunk_of[f]].lock_kind] ELSE t

ResolveThunk(t, f) ==
    LET T == t[fwd_thunk_of[f]]
        wider ==
            IF T.param_count > t[f].param_count
              THEN [t[f] EXCEPT !.param_count = T.param_count, !.float_mask = T.float_mask,
                                !.double_mask = T.double_mask, !.ptr_param = T.ptr_param]
              ELSE t[f]
    IN  [t EXCEPT ![f] =
            IF wider.ret_kind = "void" THEN [wider EXCEPT !.ret_kind = T.ret_kind] ELSE wider]

\* No path returns a deliberate value of its own.
OnlyHandsBack(s) == s.ret_only_from_call /\ ~s.saw_real_value_ret

\* The two loops of a round of API types.
InheritCall(t, f) ==
    LET to == t[f].ret_call_target IN
    IF t[f].ret_api = NoType /\ OnlyHandsBack(t[f]) /\ to \in DOMAIN t \ {f}
      THEN [t EXCEPT ![f].ret_api = t[to].ret_api] ELSE t

InheritTail(t, f) ==
    IF t[f].ret_api = NoType THEN [t EXCEPT ![f].ret_api = t[tail_of[f]].ret_api] ELSE t

Turn(loop, t, f) ==
    CASE loop = "tails" /\ f \in DOMAIN tail_of -> ResolveTail(t, f)
      [] loop = "locks" /\ f \in DOMAIN lock_thunk_of -> ResolveLock(t, f)
      [] loop = "thunks" /\ f \in DOMAIN fwd_thunk_of -> ResolveThunk(t, f)
      [] loop = "wrappers" -> InheritCall(t, f)
      [] loop = "handovers" /\ f \in DOMAIN tail_of -> InheritTail(t, f)
      [] OTHER -> t

\* A loop goes over the functions in the order of their addresses, and a turn
\* sees what the turns before it have changed.
InOrder(loop, t) ==
    LET turn[f \in 0..Len(code)] == IF f = 0 THEN t ELSE Turn(loop, turn[f - 1], f)
    IN  turn[Len(code)]

ForwardRound ==
    /\ stage = "forward"
    /\ tab' = InOrder("thunks", InOrder("locks", InOrder("tails", tab)))
    /\ round' = (round + 1) % ForwardRounds
    /\ stage' = IF round' = 0 THEN "void" ELSE "forward"
    /\ UNCHANGED <<code, tail_of, lock_thunk_of, fwd_thunk_of>>

\* A function that returns only what it itself returned returns nothing.
VoidFixpoint ==
    /\ stage = "void"
    /\ tab' = [f \in DOMAIN tab |->
                 IF OnlyHandsBack(tab[f]) /\ tab[f].ret_call_target = f
                   THEN [tab[f] EXCEPT !.ret_kind = "void"] ELSE tab[f]]
    /\ stage' = "seed"
    /\ UNCHANGED <<code, tail_of, lock_thunk_of, fwd_thunk_of, round>>

SeedApiTypes ==
    /\ stage = "seed"
    /\ tab' = [f \in DOMAIN tab |->
                 IF OnlyHandsBack(tab[f]) /\ tab[f].ret_call_target \in DOMAIN ApiType
                   THEN [tab[f] EXCEPT !.ret_api = ApiType[tab[f].ret_call_target]] ELSE tab[f]]
    /\ stage' = "api"
    /\ UNCHANGED <<code, tail_of, lock_thunk_of, fwd_thunk_of, round>>

ApiRounds == 8

ApiRound ==
    /\ stage = "api"
    /\ tab' = InOrder("handovers", InOrder("wrappers", tab))
    /\ round' = round + 1
    /\ stage' = IF tab' = tab \/ round' = ApiRounds THEN "done" ELSE "api"
    /\ UNCHANGED <<code, tail_of, lock_thunk_of, fwd_thunk_of>>

SigNext ==
    \/ ScanFunction \/ CallerEvidence \/ ForwardRound
    \/ VoidFixpoint \/ SeedApiTypes \/ ApiRound

\* The programs: bodies the scan sees as a whole, whose registers are argument
\* registers and whose calls and jumps lead to functions or imports.
ScanWindow == 12

Instructions == [op : STRING, reg : Nat, w : Nat, to : Nat]

IsProgram(p) ==
    /\ p \in Seq(Seq(Instructions)) /\ p # <<>>
    /\ \A f \in DOMAIN p : Len(p[f]) <= ScanWindow
    /\ \A f \in DOMAIN p : \A i \in DOMAIN p[f] :
          LET c == p[f][i] IN
          /\ c.op \in {"use", "deref", "home", "fuse", "copy"} => c.reg \in Regs
          /\ c.op \in {"call", "jump"} => c.to \in DOMAIN p
          /\ c.op \in {"api", "import_jump"} => c.to \in DOMAIN ApiType

SigPrograms == {p \in Seq(Seq(Instructions)) : IsProgram(p)}

SigSpec == SigStarts(SigPrograms) /\ [][SigNext]_sigVars

-----------------------------------------------------------------------------
(* Properties.                                                             *)

\* A body that is one jump to a function.
Thunk(f) == Len(code[f]) = 1 /\ code[f][1].op = "jump"

\* "A pure jmp T thunk hands back exactly what T hands back", and takes and
\* locks what T does (a function that returns only what it itself returned
\* becomes void too late for its thunks).
Agrees(f) ==
    LET T == code[f][1].to IN
    tab[T].ret_call_target # T =>
        /\ tab[f].param_count = tab[T].param_count
        /\ tab[f].ret_kind = tab[T].ret_kind
        /\ tab[f].lock_kind = tab[T].lock_kind
        /\ tab[f].ret_api = tab[T].ret_api

\* Every thunk agrees with its target, wherever that is.
ThunksAgree == stage = "done" => \A f \in DOMAIN tab : Thunk(f) => Agrees(f)

\* "An integer/pointer tail-return after a discarded prior call is a void
\* sequencer's goto -- do NOT invent a return value."  The third loop of a
\* round does, where no argument register was written (MCSequencer.cfg).
SequencersStayVoid ==
    stage = "done" =>
        \A f \in DOMAIN tail_of :
            tab[f].saw_prior_call /\ ~Floating(tab[tail_of[f]].ret_kind)
                /\ (\A i \in DOMAIN code[f] : code[f][i].op # "ret")
            => tab[f].ret_kind = "void"
=============================================================================
