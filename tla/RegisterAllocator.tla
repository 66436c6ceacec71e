-------------------------- MODULE RegisterAllocator --------------------------
(***************************************************************************)
(* The machine code allocate_registers emits for one function              *)
(* (src/src/core/asm/allocator.cpp), running.  Virtual argument registers  *)
(* live in the argument registers of the System V ABI or in the caller's   *)
(* frame, general ones in slots of the function's own frame, the result in *)
(* register a.  Every virtual instruction becomes one step, except a call, *)
(* whose save / align / pass / call / restore sequence is run instruction  *)
(* by instruction: that is where registers and the stack are shared with   *)
(* somebody else.                                                          *)
(*                                                                         *)
(* The stack is a function from depths to cells.  A depth counts 8-byte    *)
(* slots and grows as addresses fall, so 8k(%bp) is depth bp - k, -8k(%bp) *)
(* is depth bp + k, and a slot below sp does not exist.  Even depths are   *)
(* 16-byte aligned.                                                        *)
(***************************************************************************)
EXTENDS Integers, FiniteSets

CONSTANTS
  ArgRegs,      \* the argument registers in order: di, si, d, c, r8, r9
  NumRegs,      \* how many of them there are (6)
  Values, Junk, Fresh, Immediates,
  Generals,     \* general_count
  NParams,      \* number of parameters of the compiled function
  Passed,       \* the tuples of parameters its caller may pass
  MaxCallArgs,  \* bound on the number of arguments of a call
  RetAddr,      \* the return address the caller pushed
  CallerBP,     \* the caller's frame pointer
  Uncounted,    \* positions in which the program reads arguments that
                \* argument_count does not cover: subset of {"base", "lhs"}
  Crossing      \* may the program pass an own register argument to a
                \* lower-numbered position of a call that also sets its register?

ASSUME RegistersAssumption ==
  /\ NumRegs \in Nat
  /\ ArgRegs \in [1..NumRegs -> STRING]
  /\ \A i, j \in 1..NumRegs : ArgRegs[i] = ArgRegs[j] => i = j
  /\ \A i \in 1..NumRegs : ArgRegs[i] # "a"

ASSUME ProgramAssumption ==
  /\ Generals \in Nat /\ NParams \in Nat /\ MaxCallArgs \in Nat
  /\ Passed \subseteq [1..NParams -> Values]
  /\ Junk \in Values /\ Fresh \subseteq Values /\ Immediates \subseteq Values
  /\ CallerBP \in Nat
  /\ Uncounted \subseteq {"base", "lhs"}
  /\ Crossing \in BOOLEAN

VARIABLES
  pc,             \* "entry", "body", a stage of the call sequence, "returned", "ice"
  k,              \* index of the loop the call sequence is in
  argument_count, \* highest argument number the allocator counted
  params,         \* what the caller passed (never written: the reference)
  regs,           \* argument registers and a
  sp, bp,         \* depths
  stack,
  next_call_args, \* arguments prepared for the next call, still as operands
  intended,       \* the values they had when the call was reached (history)
  event           \* the last instruction's inputs and output

vars == <<pc, k, argument_count, params, regs, sp, bp, stack, next_call_args,
          intended, event>>

-----------------------------------------------------------------------------
Lesser(x, y) == IF x < y THEN x ELSE y
Greater(x, y) == IF x > y THEN x ELSE y

Registers == {ArgRegs[i] : i \in 1..NumRegs} \cup {"a"}
Cells == Values \cup Nat \cup {RetAddr}

StackParams == Greater(0, NParams - NumRegs)
saved_registers == Lesser(NumRegs, argument_count)
call_argc == Cardinality(DOMAIN next_call_args)
StackArgs == Greater(0, call_argc - NumRegs)

Silent == [op |-> "none", in |-> <<>>, res |-> Junk]
NoArguments == [n \in {} |-> Junk]
Show(op, in, res) == event' = [op |-> op, in |-> in, res |-> res]

\* The stack after a push, or cut down (or padded) to a given depth.
Pushed(s, top, cell) == [d \in 1..(top + 1) |-> IF d = top + 1 THEN cell ELSE s[d]]
Resized(s, top, depth) == [d \in 1..depth |-> IF d > top THEN Junk ELSE s[d]]

\* Own parameter n beyond the registers is found at 8(n - NumRegs + 1)(%bp).
Operand(o) ==
  IF o[1] = "imm" THEN o[2]
  ELSE IF o[1] = "gen" THEN stack[bp + o[2]]
  ELSE IF o[1] = "result" THEN regs["a"]
  ELSE IF o[2] <= NumRegs THEN regs[ArgRegs[o[2]]]
  ELSE stack[bp - (o[2] - NumRegs + 1)]

Write(o, v) ==
  \/ /\ o[1] = "gen"
     /\ stack' = [stack EXCEPT ![bp + o[2]] = v]
     /\ UNCHANGED regs
  \/ /\ o[1] = "result"
     /\ regs' = [regs EXCEPT !["a"] = v]
     /\ UNCHANGED stack

-----------------------------------------------------------------------------
(* The program: which operands its instructions have.  argument_count is a *)
(* maximum over the whole function, so it bounds every counted position.   *)

Counted == {n \in 1..NParams : n <= argument_count}
ArgumentsRead(position) == IF position \in Uncounted THEN 1..NParams ELSE Counted

General == {"gen"} \X (1..Generals)
Targets == General \cup {<<"result", 0>>}
Sources ==
  ({"imm"} \X Immediates) \cup ({"arg"} \X Counted) \cup General \cup {<<"result", 0>>}
RegisterAt(position) == ({"arg"} \X ArgumentsRead(position)) \cup General

-----------------------------------------------------------------------------
(* The caller pushed the stack arguments right to left, then its return    *)
(* address, at either alignment.                                           *)
Init ==
  /\ pc = "entry"
  /\ k = 0
  /\ argument_count \in 0..NParams
  /\ params \in Passed
  /\ regs = [r \in Registers |->
               IF \E n \in 1..NParams : n <= NumRegs /\ r = ArgRegs[n]
               THEN params[CHOOSE n \in 1..NParams : n <= NumRegs /\ r = ArgRegs[n]]
               ELSE Junk]
  /\ sp \in {StackParams + 1, StackParams + 2}
  /\ bp = CallerBP
  /\ stack = [d \in 1..sp |->
                IF d = sp THEN RetAddr
                ELSE IF d >= sp - StackParams THEN params[NumRegs + sp - d]
                ELSE Junk]
  /\ next_call_args = NoArguments
  /\ intended = NoArguments
  /\ event = Silent

\* push bp; mov sp, bp; sub 8 * general_count, sp
Prologue ==
  /\ pc = "entry"
  /\ bp' = sp + 1
  /\ sp' = sp + 1 + Generals
  /\ stack' = Resized(Pushed(stack, sp, bp), sp + 1, sp')
  /\ pc' = "body"
  /\ UNCHANGED <<k, argument_count, params, regs, next_call_args, intended, event>>

\* assert_args_empty: anything but an argument or a call is an internal
\* compiler error once an argument is prepared.
Ordinary == pc = "body" /\ next_call_args = NoArguments

UnexpectedInstruction ==
  /\ pc = "body"
  /\ next_call_args # NoArguments
  /\ pc' = "ice"
  /\ UNCHANGED <<k, argument_count, params, regs, sp, bp, stack, next_call_args,
                 intended, event>>

Frame == <<pc, k, argument_count, params, sp, bp, next_call_args, intended>>

Move(src, dst) ==
  /\ Ordinary
  /\ Write(dst, Operand(src))
  /\ event' = Silent
  /\ UNCHANGED Frame

\* add, sub: a spilled source goes through r10 into the destination's slot.
AddOrSub(src, dst) ==
  /\ Ordinary
  /\ \E r \in Fresh : Write(dst, r) /\ Show("add", <<Operand(src), Operand(dst)>>, r)
  /\ UNCHANGED Frame

MultiplyIntoScratch(src, dst) ==
  /\ Ordinary
  /\ \E r \in Fresh : Show("imul", <<Operand(src), Operand(dst)>>, r)
  /\ UNCHANGED <<Frame, regs, stack>>

\* imul cannot write memory: the destination is loaded into r10 and stored back.
Multiply(src, dst) ==
  /\ Ordinary
  /\ \E r \in Fresh : Write(dst, r) /\ Show("imul", <<Operand(src), Operand(dst)>>, r)
  /\ UNCHANGED Frame

\* mac_div and mac_mod divide the source by r10 and keep a and d on the stack.
Divide(src, dst) ==
  /\ Ordinary
  /\ \E r \in Fresh : Write(dst, r) /\ Show("div", <<Operand(src), Operand(dst)>>, r)
  /\ UNCHANGED Frame

SignExtend(src, dst) ==
  /\ Ordinary
  /\ \E r \in Fresh : Write(dst, r) /\ Show("movslq", <<Operand(src)>>, r)
  /\ UNCHANGED Frame

LoadAddress(dst) ==
  /\ Ordinary
  /\ \E r \in Fresh : Write(dst, r) /\ Show("lea", <<>>, r)
  /\ UNCHANGED Frame

Negate(dst) ==
  /\ Ordinary
  /\ \E r \in Fresh : Write(dst, r) /\ Show("neg", <<Operand(dst)>>, r)
  /\ UNCHANGED Frame

SetCondition(dst) ==
  /\ Ordinary
  /\ \E r \in Fresh : Write(dst, r) /\ Show("set", <<>>, r)
  /\ UNCHANGED Frame

\* mov (base), dst and mov src, (base): a spilled base goes through r11.
Load(base, dst) ==
  /\ Ordinary
  /\ \E r \in Fresh : Write(dst, r) /\ Show("load", <<Operand(base)>>, r)
  /\ UNCHANGED Frame

Store(src, base) ==
  /\ Ordinary
  /\ Show("store", <<Operand(src), Operand(base)>>, Junk)
  /\ UNCHANGED <<Frame, regs, stack>>

Compare(src, lhs) ==
  /\ Ordinary
  /\ Show("cmp", <<Operand(src), Operand(lhs)>>, Junk)
  /\ UNCHANGED <<Frame, regs, stack>>

\* mov src, argument n: emits nothing, the operand is kept for the call.  The
\* generator writes every argument once (emplace would keep the first).
PrepareArgument(n, src) ==
  /\ pc = "body"
  /\ n \notin DOMAIN next_call_args
  /\ next_call_args' = [m \in DOMAIN next_call_args \cup {n} |->
                          IF m = n THEN src ELSE next_call_args[m]]
  /\ event' = Silent
  /\ UNCHANGED <<pc, k, argument_count, params, regs, sp, bp, stack, intended>>

ReturnPoppingArguments ==
  /\ Ordinary
  /\ sp' = bp - 2 - StackParams
  /\ bp' = stack[bp]
  /\ stack' = Resized(stack, sp, sp')
  /\ Show("ret", <<regs["a"]>>, Junk)
  /\ pc' = "returned"
  /\ UNCHANGED <<k, argument_count, params, regs, next_call_args, intended>>

\* mov bp, sp; pop bp; ret
Return ==
  /\ Ordinary
  /\ sp' = bp - 2
  /\ bp' = stack[bp]
  /\ stack' = Resized(stack, sp, sp')
  /\ Show("ret", <<regs["a"]>>, Junk)
  /\ pc' = IF stack[bp - 1] = RetAddr THEN "returned" ELSE "lost"
  /\ UNCHANGED <<k, argument_count, params, regs, next_call_args, intended>>

-----------------------------------------------------------------------------
(* The call sequence.                                                      *)

\* assert_args_complete: if there are arguments, the highest is the number of them.
ArgumentsComplete ==
  next_call_args # NoArguments =>
    /\ call_argc \in DOMAIN next_call_args
    /\ \A n \in DOMAIN next_call_args : n <= call_argc

\* The program never passes an own register argument to a lower position of
\* a call that sets its register to something else, unless Crossing.
Uncrossed ==
  \A n \in DOMAIN next_call_args :
    LET src == next_call_args[n]
    IN  (src[1] = "arg" /\ n < src[2] /\ src[2] <= Lesser(NumRegs, call_argc))
           => next_call_args[src[2]] = src

BeginCall ==
  /\ pc = "body"
  /\ ArgumentsComplete
  /\ Crossing \/ Uncrossed
  /\ pc' = "save"
  /\ k' = saved_registers
  /\ intended' = [n \in DOMAIN next_call_args |-> Operand(next_call_args[n])]
  /\ UNCHANGED <<argument_count, params, regs, sp, bp, stack, next_call_args, event>>

IncompleteCall ==
  /\ pc = "body"
  /\ ~ArgumentsComplete
  /\ pc' = "ice"
  /\ UNCHANGED <<k, argument_count, params, regs, sp, bp, stack, next_call_args,
                 intended, event>>

SaveRegisterInPlace ==
  /\ pc = "save" /\ k > 0
  /\ stack' = [stack EXCEPT ![sp] = regs[ArgRegs[k]]]
  /\ k' = k - 1
  /\ UNCHANGED <<pc, argument_count, params, regs, sp, bp, next_call_args, intended, event>>

\* Own argument registers are pushed right to left.
SaveRegister ==
  /\ pc = "save" /\ k > 0
  /\ stack' = Pushed(stack, sp, regs[ArgRegs[k]])
  /\ sp' = sp + 1
  /\ k' = k - 1
  /\ UNCHANGED <<pc, argument_count, params, regs, bp, next_call_args, intended, event>>

AlignStackNot ==
  /\ pc = "save" /\ k = 0
  /\ sp' = sp + 2
  /\ stack' = Pushed(Pushed(stack, sp, sp), sp + 1, sp)
  /\ pc' = "push"
  /\ k' = call_argc
  /\ UNCHANGED <<argument_count, params, regs, bp, next_call_args, intended, event>>

\* push sp; push (sp); and -16, sp: the old sp is below an even depth, twice.
AlignStack ==
  /\ pc = "save" /\ k = 0
  /\ sp' = sp + 2 + (sp % 2)
  /\ stack' = Resized(Pushed(Pushed(stack, sp, sp), sp + 1, sp), sp + 2, sp')
  /\ pc' = "push"
  /\ k' = call_argc
  /\ UNCHANGED <<argument_count, params, regs, bp, next_call_args, intended, event>>

PushStackArgumentForward ==
  /\ pc = "push" /\ k > NumRegs
  /\ stack' = Pushed(stack, sp, Operand(next_call_args[NumRegs + 1 + call_argc - k]))
  /\ sp' = sp + 1
  /\ k' = k - 1
  /\ UNCHANGED <<pc, argument_count, params, regs, bp, next_call_args, intended, event>>

\* Stack arguments are pushed right to left.
PushStackArgument ==
  /\ pc = "push" /\ k > NumRegs
  /\ stack' = Pushed(stack, sp, Operand(next_call_args[k]))
  /\ sp' = sp + 1
  /\ k' = k - 1
  /\ UNCHANGED <<pc, argument_count, params, regs, bp, next_call_args, intended, event>>

\* Register arguments are set one mov at a time, the highest first.
SetRegisterArgument ==
  /\ pc = "push" /\ k \in 1..NumRegs
  /\ regs' = [regs EXCEPT ![ArgRegs[k]] = Operand(next_call_args[k])]
  /\ k' = k - 1
  /\ UNCHANGED <<pc, argument_count, params, sp, bp, stack, next_call_args, intended,
                 event>>

\* What a callee with the same calling convention finds as argument n.
Received(n) == IF n <= NumRegs THEN regs[ArgRegs[n]] ELSE stack[sp - (n - NumRegs - 1)]

\* The callee computes some result, leaves sp and bp as they were and the
\* argument registers to chance.
PerformCall ==
  /\ pc = "push" /\ k = 0
  /\ \E r \in Fresh :
       /\ regs' = [s \in Registers |-> IF s = "a" THEN r ELSE Junk]
       /\ Show("call", [n \in 1..call_argc |-> Received(n)], r)
  /\ pc' = "called"
  /\ UNCHANGED <<k, argument_count, params, sp, bp, stack, next_call_args, intended>>

\* add 8 * (call_argc - 6), sp; mov 8(sp), sp
ReleaseStack ==
  /\ pc = "called"
  /\ sp' = stack[sp - StackArgs - 1]
  /\ stack' = Resized(stack, sp, sp')
  /\ pc' = "restore"
  /\ k' = 1
  /\ UNCHANGED <<argument_count, params, regs, bp, next_call_args, intended, event>>

RestoreRegisterBackward ==
  /\ pc = "restore" /\ k <= saved_registers
  /\ regs' = [regs EXCEPT ![ArgRegs[saved_registers + 1 - k]] = stack[sp]]
  /\ sp' = sp - 1
  /\ stack' = Resized(stack, sp, sp')
  /\ k' = k + 1
  /\ UNCHANGED <<pc, argument_count, params, bp, next_call_args, intended, event>>

\* Own argument registers are popped left to right.
RestoreRegister ==
  /\ pc = "restore" /\ k <= saved_registers
  /\ regs' = [regs EXCEPT ![ArgRegs[k]] = stack[sp]]
  /\ sp' = sp - 1
  /\ stack' = Resized(stack, sp, sp')
  /\ k' = k + 1
  /\ UNCHANGED <<pc, argument_count, params, bp, next_call_args, intended, event>>

EndCall ==
  /\ pc = "restore" /\ k > saved_registers
  /\ next_call_args' = NoArguments
  /\ intended' = NoArguments
  /\ pc' = "body"
  /\ k' = 0
  /\ UNCHANGED <<argument_count, params, regs, sp, bp, stack, event>>

-----------------------------------------------------------------------------
Instruction ==
  \/ \E src \in Sources, dst \in Targets : Move(src, dst)
  \/ \E src \in Sources, dst \in General :
       \/ AddOrSub(src, dst)
       \/ Multiply(src, dst)
       \/ Divide(src, dst)
       \/ SignExtend(src, dst)
  \/ \E dst \in General :
       \/ LoadAddress(dst)
       \/ Negate(dst)
       \/ SetCondition(dst)
       \/ \E base \in RegisterAt("base") : Load(base, dst)
  \/ \E src \in Sources, base \in RegisterAt("base") : Store(src, base)
  \/ \E src \in Sources, lhs \in RegisterAt("lhs") : Compare(src, lhs)
  \/ \E n \in 1..MaxCallArgs, src \in Sources : PrepareArgument(n, src)

CallSequence ==
  \/ BeginCall \/ IncompleteCall \/ UnexpectedInstruction
  \/ SaveRegister \/ AlignStack
  \/ PushStackArgument \/ SetRegisterArgument
  \/ PerformCall
  \/ ReleaseStack \/ RestoreRegister \/ EndCall

Next == Prologue \/ Instruction \/ CallSequence \/ Return

Spec == Init /\ [][Next]_vars
-----------------------------------------------------------------------------
(* Properties.                                                             *)

\* The shape of the state: the stack is exactly as deep as sp says.
TypeOK ==
  /\ pc \in {"entry", "body", "save", "push", "called", "restore", "returned", "ice"}
  /\ k \in 0..Greater(NumRegs + 1, MaxCallArgs)
  /\ argument_count \in 0..NParams
  /\ params \in [1..NParams -> Values]
  /\ regs \in [Registers -> Values]
  /\ sp \in Nat /\ bp \in Nat
  /\ stack \in [1..sp -> Cells]
  /\ DOMAIN next_call_args \subseteq 1..MaxCallArgs
  /\ \A n \in DOMAIN next_call_args : next_call_args[n] \in Sources
  /\ DOMAIN intended \subseteq 1..MaxCallArgs
  /\ intended \in [DOMAIN intended -> Values]

\* Between two instructions of the body, whatever calls were made, sp is at
\* the end of the frame the prologue made and the frame still holds the
\* caller's frame pointer and return address (alignment moves sp by an
\* amount only the run knows).
StackBalanced ==
  pc = "body" =>
    /\ sp = bp + Generals
    /\ stack[bp] = CallerBP
    /\ stack[bp - 1] = RetAddr

\* ret finds the return address, restores the caller's frame pointer and
\* leaves the stack arguments on top for the caller to remove.
ReturnsToCaller ==
  pc = "returned" =>
    /\ bp = CallerBP
    /\ sp \in {StackParams, StackParams + 1}
    /\ \A n \in (NumRegs + 1)..NParams : stack[sp - (n - NumRegs - 1)] = params[n]

\* Every parameter the program reads still has the caller's value in the
\* body, although each call overwrites all argument registers
\* ("save own argument registers").
OwnArgumentsPreserved ==
  pc = "body" =>
    \A n \in ArgumentsRead("base") \cup ArgumentsRead("lhs") :
      Operand(<<"arg", n>>) = params[n]

\* At the call instruction every argument, in a register or on the stack, has
\* the value it had when the program reached the call, in whatever order
\* the arguments were prepared.
ArgumentsDelivered ==
  (pc = "push" /\ k = 0) =>
    \A n \in DOMAIN next_call_args : Received(n) = intended[n]

\* A call that is being emitted has arguments 1..n, so next_call_args.at(i)
\* always finds one: comparing the size with the last key is enough.
NoMissingArgument ==
  pc \in {"save", "push"} => DOMAIN next_call_args = 1..call_argc

\* The stack is 16-byte aligned at a call without an odd number of stack
\* arguments, whatever the alignment at entry and the size of the frame.
AlignedUnlessOdd ==
  (pc = "push" /\ k = 0 /\ StackArgs % 2 = 0) => sp % 2 = 0

\* "ensure alignment": the stack is 16-byte aligned at every call.
CallsAligned == (pc = "push" /\ k = 0) => sp % 2 = 0

\* The call sequence touches neither the function's frame nor its caller's.
FrameUntouched ==
  [][(pc \in {"save", "push", "called", "restore"}) =>
       \A d \in 1..(bp + Generals) : stack'[d] = stack[d]]_vars

-----------------------------------------------------------------------------
(* The inductive invariant behind the properties above.                    *)

BodyTop == bp + Generals              \* sp in the body
SavedTop == BodyTop + saved_registers \* sp once the own registers are saved
AlignedTop == SavedTop + 2 + (SavedTop % 2)

\* What the caller left is where the prologue put it, and slots hold data.
FrameIntact ==
  /\ bp \in {StackParams + 2, StackParams + 3}
  /\ sp >= BodyTop
  /\ stack[bp] = CallerBP
  /\ stack[bp - 1] = RetAddr
  /\ \A n \in (NumRegs + 1)..NParams : stack[bp - (n - NumRegs + 1)] = params[n]
  /\ \A n \in 1..Generals : stack[bp + n] \in Values

OwnRegisters(n) == \A i \in 1..n : regs[ArgRegs[i]] = params[i]
SavedRegisters(m) ==
  \A i \in 1..saved_registers : i > m => stack[SavedTop + 1 - i] = params[i]

\* The arguments of the call in progress: `next_call_args' is complete, and
\* arguments up to n can still be read from their operands.
CallPrepared(n) ==
  /\ DOMAIN next_call_args = 1..call_argc
  /\ DOMAIN intended = 1..call_argc
  /\ \A i \in 1..call_argc : i <= n => Operand(next_call_args[i]) = intended[i]
  /\ Crossing \/ Uncrossed

StackArgumentsFrom(n) ==
  \A i \in (NumRegs + 1)..call_argc : i > n => stack[AlignedTop + call_argc - i + 1] = intended[i]
RegisterArgumentsFrom(n) ==
  \A i \in 1..Lesser(NumRegs, call_argc) : i > n => regs[ArgRegs[i]] = intended[i]

AtEntry ==
  /\ OwnRegisters(Lesser(NumRegs, NParams))
  /\ sp \in {StackParams + 1, StackParams + 2}
  /\ stack[sp] = RetAddr
  /\ bp = CallerBP
  /\ \A n \in (NumRegs + 1)..NParams : stack[sp - (n - NumRegs)] = params[n]
  /\ next_call_args = NoArguments

InBody == FrameIntact /\ sp = BodyTop /\ OwnRegisters(saved_registers)

InSave ==
  /\ FrameIntact
  /\ k <= saved_registers
  /\ sp = SavedTop - k
  /\ OwnRegisters(saved_registers)
  /\ SavedRegisters(k)
  /\ CallPrepared(call_argc)

Aligned ==
  /\ FrameIntact
  /\ SavedRegisters(0)
  /\ stack[SavedTop + 1] = SavedTop
  /\ stack[SavedTop + 2] = SavedTop

InPush ==
  /\ Aligned
  /\ k <= call_argc
  /\ sp = AlignedTop + StackArgs - Greater(0, k - NumRegs)
  /\ ~Crossing => CallPrepared(k)
  /\ DOMAIN next_call_args = 1..call_argc
  /\ ~Crossing => StackArgumentsFrom(k)
  /\ ~Crossing => RegisterArgumentsFrom(k)

InCalled == Aligned /\ sp = AlignedTop + StackArgs

InRestore ==
  /\ FrameIntact
  /\ k \in 1..(saved_registers + 1)
  /\ sp = SavedTop + 1 - k
  /\ OwnRegisters(k - 1)
  /\ SavedRegisters(k - 1)

\* Where the values are at each stage, for every stage.
IInv ==
  /\ TypeOK
  /\ pc = "entry" => AtEntry
  /\ pc = "body" => InBody
  /\ pc = "save" => InSave
  /\ pc = "push" => InPush
  /\ pc = "called" => InCalled
  /\ pc = "restore" => InRestore
  /\ ReturnsToCaller

-----------------------------------------------------------------------------
\* The machine code shows the events of the virtual assembly: it is a
\* correct implementation of it.
InFrame == pc \notin {"entry", "returned"}
Slots == [n \in 1..Generals |-> IF InFrame THEN stack[bp + n] ELSE Junk]
Outgoing ==
  IF pc \in {"body", "ice"}
  THEN [n \in DOMAIN next_call_args |-> Operand(next_call_args[n])]
  ELSE IF pc \in {"save", "push"} THEN intended ELSE NoArguments

VM == INSTANCE VirtualMachine WITH
        args <- params, gens <- Slots, result <- regs["a"], outgoing <- Outgoing,
        running <- pc # "returned"
Implements == VM!Spec
=============================================================================
