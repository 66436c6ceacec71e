----------------------- MODULE RegisterAllocatorProofs -----------------------
(***************************************************************************)
(* Proofs about RegisterAllocator for every number of argument registers,  *)
(* parameters, spilled registers and call arguments: what its invariants   *)
(* say, and that it implements the virtual assembly.                       *)
(***************************************************************************)
EXTENDS RegisterAllocator, FiniteSetTheorems, TLAPS

-----------------------------------------------------------------------------
(* Lemmas about the operators of the model.                                *)

\* Pushing makes the stack one cell deeper and keeps the others.
LEMMA PushedType ==
  ASSUME NEW top \in Nat, NEW s \in [1..top -> Cells], NEW cell \in Cells
  PROVE  /\ Pushed(s, top, cell) \in [1..(top + 1) -> Cells]
         /\ Pushed(s, top, cell)[top + 1] = cell
         /\ \A d \in 1..top : Pushed(s, top, cell)[d] = s[d]
BY DEF Pushed

\* Resizing keeps the cells both depths have and pads with junk.
LEMMA ResizedType ==
  ASSUME NEW top \in Nat, NEW s \in [1..top -> Cells], NEW depth \in Nat
  PROVE  /\ Resized(s, top, depth) \in [1..depth -> Cells]
         /\ \A d \in 1..depth : d <= top => Resized(s, top, depth)[d] = s[d]
         /\ \A d \in 1..depth : d > top => Resized(s, top, depth)[d] = Junk
BY ProgramAssumption DEF Resized, Cells

LEMMA CountersType ==
  ASSUME TypeOK
  PROVE  /\ saved_registers \in Nat /\ saved_registers <= NumRegs
         /\ saved_registers <= argument_count
         /\ call_argc \in Nat /\ StackArgs \in Nat /\ StackParams \in Nat
         /\ call_argc <= MaxCallArgs
<1>1. IsFiniteSet(1..MaxCallArgs) /\ Cardinality(1..MaxCallArgs) = MaxCallArgs
  BY FS_Interval, ProgramAssumption
<1>2. IsFiniteSet(DOMAIN next_call_args)
      /\ Cardinality(DOMAIN next_call_args) <= MaxCallArgs
  BY <1>1, FS_Subset DEF TypeOK
<1>3. call_argc \in Nat
  BY <1>2, FS_CardinalityType DEF call_argc
<1>. QED
  BY <1>2, <1>3, ProgramAssumption, RegistersAssumption
  DEF TypeOK, saved_registers, call_argc, StackArgs, StackParams, Lesser, Greater

\* Where the frame is.
LEMMA FrameBounds ==
  ASSUME TypeOK, FrameIntact
  PROVE  /\ bp \in Nat /\ bp >= 2 /\ bp >= StackParams + 2
         /\ sp \in Nat /\ bp + Generals <= sp
<1>1. StackParams \in Nat
  BY CountersType
<1>2. bp \in {StackParams + 2, StackParams + 3} /\ sp >= BodyTop /\ sp \in Nat
  BY DEF FrameIntact, TypeOK
<1>. QED
  BY <1>1, <1>2 DEF BodyTop

\* The caller's stack arguments are below the return address.
LEMMA StackParameters ==
  ASSUME TypeOK, FrameIntact, NEW n \in (NumRegs + 1)..NParams
  PROVE  bp - (n - NumRegs + 1) \in 1..(bp - 2)
<1>1. NParams - NumRegs <= StackParams
  BY RegistersAssumption, ProgramAssumption DEF StackParams, Greater
<1>2. bp \in Nat /\ bp >= StackParams + 2 /\ StackParams \in Nat
  BY FrameBounds, CountersType
<1>. QED
  BY <1>1, <1>2, RegistersAssumption, ProgramAssumption

\* Any operand a counted position can have holds data.
LEMMA OperandType ==
  ASSUME TypeOK, FrameIntact, NEW o \in Sources
  PROVE  Operand(o) \in Values
<1>1. CASE o \in {"imm"} \X Immediates
  BY <1>1, ProgramAssumption DEF Operand
<1>2. CASE o \in {"arg"} \X Counted
  <2>1. o[1] = "arg" /\ o[2] \in 1..NParams
    BY <1>2 DEF Counted
  <2>2. CASE o[2] <= NumRegs
    <3>1. ArgRegs[o[2]] \in Registers
      BY <2>1, <2>2, RegistersAssumption DEF Registers
    <3>. QED
      BY <2>1, <2>2, <3>1 DEF Operand, TypeOK
  <2>3. CASE ~(o[2] <= NumRegs)
    <3>1. o[2] \in (NumRegs + 1)..NParams
      BY <2>1, <2>3, ProgramAssumption, RegistersAssumption
    <3>2. Operand(o) = params[o[2]]
      BY <2>1, <2>3, <3>1 DEF Operand, FrameIntact
    <3>. QED
      BY <2>1, <3>2 DEF TypeOK
  <2>. QED
    BY <2>2, <2>3
<1>3. CASE o \in General
  BY <1>3 DEF General, Operand, FrameIntact
<1>4. CASE o = <<"result", 0>>
  BY <1>4 DEF Operand, TypeOK, Registers
<1>. QED
  BY <1>1, <1>2, <1>3, <1>4 DEF Sources

-----------------------------------------------------------------------------
(* The steps of the body.                                                  *)

\* The program's operands do not depend on anything a step changes.
LEMMA SourcesFixed ==
  ASSUME UNCHANGED argument_count
  PROVE  Sources' = Sources
BY DEF Sources, Counted, General

\* Writing a spilled register or the result leaves the frame in order.
LEMMA WriteKeeps ==
  ASSUME IInv, pc = "body", NEW dst \in Targets,
         \E v \in Values : Write(dst, v), UNCHANGED Frame
  PROVE  IInv'
<1>. PICK v \in Values : Write(dst, v)
  OBVIOUS
<1>. USE DEF Frame
<1>0. TypeOK /\ FrameIntact /\ sp = BodyTop /\ OwnRegisters(saved_registers)
  BY DEF IInv, InBody
<1>c. saved_registers \in Nat /\ saved_registers <= NumRegs /\ StackParams \in Nat
  BY <1>0, CountersType
<1>1. CASE dst \in General
  <2>1. dst[1] = "gen" /\ dst[2] \in 1..Generals
    BY <1>1 DEF General
  <2>2. stack' = [stack EXCEPT ![bp + dst[2]] = v] /\ UNCHANGED regs
    BY <2>1 DEF Write
  <2>3. \A d \in 1..sp : d # bp + dst[2] => stack'[d] = stack[d]
    BY <2>2, <1>0 DEF TypeOK
  <2>4. bp + dst[2] \in 1..sp /\ stack'[bp + dst[2]] = v
    BY <2>1, <2>2, <1>0, <1>c, ProgramAssumption DEF TypeOK, BodyTop
  <2>5. TypeOK'
    <3>1. stack' \in [1..sp' -> Cells]
      BY <1>0, <2>2, <2>4 DEF TypeOK, Cells
    <3>. QED
      BY <1>0, <2>2, <3>1, SourcesFixed DEF TypeOK
  <2>6. FrameIntact'
    <3>1. \A n \in (NumRegs + 1)..NParams :
            /\ bp - (n - NumRegs + 1) \in 1..sp
            /\ bp - (n - NumRegs + 1) # bp + dst[2]
      <4>1. bp \in Nat /\ bp <= sp /\ sp \in Nat
        BY <1>0, FrameBounds, ProgramAssumption
      <4>2. \A n \in (NumRegs + 1)..NParams : bp - (n - NumRegs + 1) \in 1..(bp - 2)
        BY <1>0, StackParameters
      <4>. QED
        BY <2>1, <4>1, <4>2
    <3>2. bp \in 1..sp /\ bp - 1 \in 1..sp /\ bp # bp + dst[2] /\ bp - 1 # bp + dst[2]
      BY <1>0, <2>1, FrameBounds, ProgramAssumption
    <3>3. \A n \in 1..Generals : bp + n \in 1..sp
      BY <1>0, FrameBounds, ProgramAssumption
    <3>4. \A n \in 1..Generals : stack'[bp + n] \in Values
      BY <1>0, <2>3, <2>4, <3>3 DEF FrameIntact
    <3>. QED
      BY <1>0, <2>3, <3>1, <3>2, <3>4 DEF FrameIntact, BodyTop, StackParams
  <2>7. OwnRegisters(saved_registers)'
    BY <1>0, <2>2 DEF OwnRegisters, saved_registers
  <2>. QED
    BY <1>0, <2>5, <2>6, <2>7 DEF IInv, InBody, BodyTop, ReturnsToCaller
<1>2. CASE dst = <<"result", 0>>
  <2>1. regs' = [regs EXCEPT !["a"] = v] /\ UNCHANGED stack
    BY <1>2 DEF Write
  <2>2. TypeOK'
    BY <1>0, <2>1, SourcesFixed DEF TypeOK
  <2>3. \A i \in 1..NumRegs : regs'[ArgRegs[i]] = regs[ArgRegs[i]]
    BY <1>0, <2>1, RegistersAssumption DEF TypeOK, Registers
  <2>4. OwnRegisters(saved_registers)'
    BY <1>0, <1>c, <2>3, RegistersAssumption DEF OwnRegisters, saved_registers
  <2>5. FrameIntact'
    BY <1>0, <2>1 DEF FrameIntact, BodyTop
  <2>. QED
    BY <1>0, <2>2, <2>4, <2>5 DEF IInv, InBody, BodyTop, ReturnsToCaller
<1>. QED
  BY <1>1, <1>2 DEF Targets

\* Every instruction of the body that is not an argument, a call or a return.
LEMMA InstructionKeeps ==
  ASSUME IInv, Instruction
  PROVE  IInv'
<1>0. TypeOK
  BY DEF IInv
<1>1. ASSUME NEW src \in Sources, NEW dst \in Targets, Move(src, dst)
      PROVE  IInv'
  <2>1. pc = "body" /\ FrameIntact
    BY <1>1 DEF Move, Ordinary, IInv, InBody
  <2>2. Operand(src) \in Values
    BY <1>0, <2>1, OperandType
  <2>. QED
    BY <1>1, <2>1, <2>2, WriteKeeps DEF Move
<1>2. ASSUME NEW dst \in General, pc = "body", UNCHANGED Frame,
             \E v \in Fresh : Write(dst, v)
      PROVE  IInv'
  <2>1. dst \in Targets
    BY DEF Targets
  <2>. QED
    BY <1>2, <2>1, WriteKeeps, ProgramAssumption
<1>3. ASSUME NEW src \in Sources, NEW dst \in General,
             \/ AddOrSub(src, dst) \/ Multiply(src, dst)
             \/ Divide(src, dst) \/ SignExtend(src, dst)
      PROVE  IInv'
  BY <1>2, <1>3 DEF AddOrSub, Multiply, Divide, SignExtend, Ordinary
<1>4. ASSUME NEW dst \in General,
             \/ LoadAddress(dst) \/ Negate(dst) \/ SetCondition(dst)
             \/ \E base \in RegisterAt("base") : Load(base, dst)
      PROVE  IInv'
  BY <1>2, <1>4 DEF LoadAddress, Negate, SetCondition, Load, Ordinary
<1>5. ASSUME pc = "body", UNCHANGED <<Frame, regs, stack>>
      PROVE  IInv'
  <2>1. TypeOK'
    BY <1>0, <1>5, SourcesFixed DEF TypeOK, Frame
  <2>2. InBody'
    BY <1>5 DEF IInv, InBody, FrameIntact, BodyTop, OwnRegisters, saved_registers, Frame
  <2>. QED
    BY <1>5, <2>1, <2>2 DEF IInv, Frame, ReturnsToCaller
<1>6. ASSUME NEW n \in 1..MaxCallArgs, NEW src \in Sources, PrepareArgument(n, src)
      PROVE  IInv'
  <2>1. /\ DOMAIN next_call_args' = DOMAIN next_call_args \cup {n}
        /\ \A m \in DOMAIN next_call_args' :
             next_call_args'[m] = IF m = n THEN src ELSE next_call_args[m]
    BY <1>6 DEF PrepareArgument
  <2>2. TypeOK'
    BY <1>0, <1>6, <2>1, SourcesFixed DEF TypeOK, PrepareArgument
  <2>3. InBody'
    BY <1>6 DEF IInv, InBody, FrameIntact, BodyTop, OwnRegisters, saved_registers,
                PrepareArgument
  <2>. QED
    BY <1>6, <2>2, <2>3 DEF IInv, PrepareArgument, ReturnsToCaller
<1>. QED
  BY <1>1, <1>3, <1>4, <1>5, <1>6 DEF Instruction, Store, Compare, Ordinary

-----------------------------------------------------------------------------
(* The call sequence.                                                      *)

\* Whatever happens to the stack above the frame, the frame stays in order.
LEMMA FrameKept ==
  ASSUME TypeOK, FrameIntact, UNCHANGED <<bp, params>>, sp' >= BodyTop,
         \A d \in 1..BodyTop : stack'[d] = stack[d]
  PROVE  FrameIntact'
<1>1. \A n \in (NumRegs + 1)..NParams : bp - (n - NumRegs + 1) \in 1..BodyTop
  <2>1. BodyTop \in Nat /\ bp <= BodyTop
    BY FrameBounds, ProgramAssumption DEF BodyTop
  <2>. QED
    BY <2>1, FrameBounds, StackParameters
<1>2. bp \in 1..BodyTop /\ bp - 1 \in 1..BodyTop
  BY FrameBounds, ProgramAssumption DEF BodyTop
<1>3. \A n \in 1..Generals : bp + n \in 1..BodyTop
  BY FrameBounds, ProgramAssumption DEF BodyTop
<1>. QED
  BY <1>1, <1>2, <1>3 DEF FrameIntact, BodyTop, StackParams

\* An operand on the stack is in the frame.
LEMMA OperandKept ==
  ASSUME TypeOK, FrameIntact, UNCHANGED bp, NEW o \in Sources,
         \A d \in 1..BodyTop : stack'[d] = stack[d],
         \/ UNCHANGED regs
         \/ /\ o # <<"result", 0>> => \A n \in 1..NumRegs :
                o = <<"arg", n>> => regs'[ArgRegs[n]] = regs[ArgRegs[n]]
            /\ regs'["a"] = regs["a"]
  PROVE  Operand(o)' = Operand(o)
<1>1. CASE o \in {"imm"} \X Immediates
  BY <1>1 DEF Operand
<1>2. CASE o \in {"arg"} \X Counted
  <2>1. o[1] = "arg" /\ o[2] \in 1..NParams /\ o = <<"arg", o[2]>>
    BY <1>2 DEF Counted
  <2>2. CASE o[2] <= NumRegs
    <3>1. o[2] \in 1..NumRegs /\ o # <<"result", 0>>
      BY <2>1, <2>2, RegistersAssumption, ProgramAssumption
    <3>2. regs'[ArgRegs[o[2]]] = regs[ArgRegs[o[2]]]
      BY <2>1, <3>1
    <3>. QED
      BY <2>1, <2>2, <3>2 DEF Operand
  <2>3. CASE ~(o[2] <= NumRegs)
    <3>1. bp - (o[2] - NumRegs + 1) \in 1..BodyTop
      BY <2>1, <2>3, FrameBounds, RegistersAssumption, ProgramAssumption
      DEF BodyTop, StackParams, Greater
    <3>. QED
      BY <2>1, <2>3, <3>1 DEF Operand
  <2>. QED
    BY <2>2, <2>3
<1>3. CASE o \in General
  <2>1. o[1] = "gen" /\ bp + o[2] \in 1..BodyTop
    BY <1>3, FrameBounds, ProgramAssumption DEF General, BodyTop
  <2>. QED
    BY <2>1 DEF Operand
<1>4. CASE o = <<"result", 0>>
  BY <1>4 DEF Operand
<1>. QED
  BY <1>1, <1>2, <1>3, <1>4 DEF Sources

\* Comparing the number of arguments with the highest position is enough.
LEMMA CompleteArguments ==
  ASSUME TypeOK, ArgumentsComplete
  PROVE  DOMAIN next_call_args = 1..call_argc
<1>1. CASE next_call_args = NoArguments
  <2>1. DOMAIN next_call_args = {}
    BY <1>1 DEF NoArguments
  <2>. QED
    BY <2>1, FS_EmptySet DEF call_argc
<1>2. CASE next_call_args # NoArguments
  <2>1. call_argc \in Nat
    BY CountersType
  <2>2. DOMAIN next_call_args \subseteq 1..call_argc
    BY <1>2, <2>1, ProgramAssumption DEF ArgumentsComplete, TypeOK
  <2>3. IsFiniteSet(1..call_argc) /\ Cardinality(1..call_argc) = call_argc
    BY <2>1, FS_Interval
  <2>. QED
    BY <2>2, <2>3, FS_Subset DEF call_argc
<1>. QED
  BY <1>1, <1>2

\* As long as registers and frame are left alone, the arguments prepared are
\* still there.
LEMMA CallPreparedKept ==
  ASSUME TypeOK, FrameIntact, NEW n \in Int, CallPrepared(n),
         UNCHANGED <<bp, regs, next_call_args, intended>>,
         \A d \in 1..BodyTop : stack'[d] = stack[d]
  PROVE  CallPrepared(n)'
<1>1. UNCHANGED call_argc
  BY DEF call_argc
<1>2. ASSUME NEW i \in 1..call_argc, i <= n
      PROVE  Operand(next_call_args[i])' = intended'[i]
  <2>1. next_call_args[i] \in Sources /\ Operand(next_call_args[i]) = intended[i]
    BY <1>2 DEF CallPrepared, TypeOK
  <2>2. PICK o \in Sources : o = next_call_args[i]
    BY <2>1
  <2>3. Operand(o)' = Operand(o)
    BY OperandKept
  <2>. QED
    BY <2>1, <2>2, <2>3 DEF Operand
<1>. QED
  BY <1>1, <1>2 DEF CallPrepared, Uncrossed

LEMMA BeginCallKeeps ==
  ASSUME IInv, BeginCall
  PROVE  IInv'
<1>. USE DEF BeginCall
<1>0. TypeOK /\ FrameIntact /\ sp = BodyTop /\ OwnRegisters(saved_registers)
  BY DEF IInv, InBody
<1>1. /\ saved_registers \in Nat /\ saved_registers <= NumRegs
      /\ UNCHANGED <<saved_registers, call_argc>>
  BY <1>0, CountersType DEF saved_registers, call_argc
<1>2. TypeOK'
  <2>1. k' \in 0..Greater(NumRegs + 1, MaxCallArgs)
    BY <1>1, RegistersAssumption, ProgramAssumption DEF Greater
  <2>2. intended' \in [DOMAIN next_call_args -> Values]
    <3>1. \A n \in DOMAIN next_call_args : Operand(next_call_args[n]) \in Values
      <4>1. SUFFICES ASSUME NEW n \in DOMAIN next_call_args
                     PROVE  Operand(next_call_args[n]) \in Values
        OBVIOUS
      <4>2. PICK o \in Sources : o = next_call_args[n]
        BY <1>0 DEF TypeOK
      <4>. QED
        BY <1>0, <4>2, OperandType
    <3>. QED
      BY <3>1
  <2>. QED
    BY <1>0, <2>1, <2>2, SourcesFixed DEF TypeOK
<1>3. FrameIntact'
  BY <1>0 DEF FrameIntact, BodyTop, StackParams
<1>4. DOMAIN next_call_args = 1..call_argc
  BY <1>0, CompleteArguments
<1>5. \A i \in 1..call_argc : Operand(next_call_args[i])' = intended'[i]
  <2>1. \A i \in 1..call_argc : intended'[i] = Operand(next_call_args[i])
    BY <1>4
  <2>2. \A i \in 1..call_argc : Operand(next_call_args[i])' = Operand(next_call_args[i])
    BY DEF Operand
  <2>. QED
    BY <2>1, <2>2
<1>6. CallPrepared(call_argc)'
  BY <1>1, <1>4, <1>5 DEF CallPrepared, Uncrossed
<1>7. SavedRegisters(k)' /\ OwnRegisters(saved_registers)'
  BY <1>0, <1>1 DEF SavedRegisters, OwnRegisters
<1>. QED
  BY <1>0, <1>1, <1>2, <1>3, <1>6, <1>7
  DEF IInv, InSave, SavedTop, BodyTop, ReturnsToCaller, TypeOK

LEMMA SaveRegisterKeeps ==
  ASSUME IInv, SaveRegister
  PROVE  IInv'
<1>. USE DEF SaveRegister
<1>0. TypeOK /\ InSave
  BY DEF IInv
<1>1. /\ saved_registers \in Nat /\ saved_registers <= NumRegs
      /\ saved_registers <= argument_count /\ call_argc \in Nat
      /\ UNCHANGED <<saved_registers, call_argc>>
  BY <1>0, CountersType DEF saved_registers, call_argc
<1>2. k \in 1..saved_registers /\ k - 1 \in 0..saved_registers /\ ArgRegs[k] \in Registers
  BY <1>0, <1>1, RegistersAssumption DEF TypeOK, InSave, Registers
<1>3. bp \in Nat /\ BodyTop \in Nat /\ SavedTop \in Nat /\ sp \in Nat /\ BodyTop <= sp
  BY <1>0, <1>1, FrameBounds, ProgramAssumption DEF InSave, BodyTop, SavedTop
<1>4. regs[ArgRegs[k]] \in Cells
  BY <1>0, <1>2 DEF TypeOK, Cells
<1>5. /\ stack' \in [1..(sp + 1) -> Cells]
      /\ stack'[sp + 1] = regs[ArgRegs[k]]
      /\ \A d \in 1..sp : stack'[d] = stack[d]
  <2>1. stack \in [1..sp -> Cells] /\ sp \in Nat
    BY <1>0 DEF TypeOK
  <2>2. stack' = Pushed(stack, sp, regs[ArgRegs[k]])
    OBVIOUS
  <2>3. /\ Pushed(stack, sp, regs[ArgRegs[k]]) \in [1..(sp + 1) -> Cells]
        /\ Pushed(stack, sp, regs[ArgRegs[k]])[sp + 1] = regs[ArgRegs[k]]
        /\ \A d \in 1..sp : Pushed(stack, sp, regs[ArgRegs[k]])[d] = stack[d]
    BY <1>4, <2>1, PushedType
  <2>. QED
    BY <2>2, <2>3
<1>6. TypeOK'
  <2>1. k' \in 0..Greater(NumRegs + 1, MaxCallArgs)
    BY <1>1, <1>2, RegistersAssumption, ProgramAssumption DEF Greater
  <2>2. stack' \in [1..sp' -> Cells] /\ sp' \in Nat
    BY <1>3, <1>5
  <2>. QED
    BY <1>0, <2>1, <2>2, SourcesFixed DEF TypeOK
<1>7. \A d \in 1..BodyTop : stack'[d] = stack[d]
  BY <1>3, <1>5
<1>8. FrameIntact'
  BY <1>0, <1>3, <1>7, FrameKept DEF InSave
<1>9. CallPrepared(call_argc)'
  <2>1. PICK n \in Int : n = call_argc
    BY <1>1
  <2>2. CallPrepared(n)'
    BY <1>0, <1>7, <2>1, CallPreparedKept DEF InSave
  <2>. QED
    BY <1>1, <2>1, <2>2
<1>10. SavedRegisters(k)'
  <2>1. sp + 1 = SavedTop + 1 - k /\ SavedTop' = SavedTop
    BY <1>0, <1>1, <1>2, <1>3 DEF InSave, SavedTop, BodyTop
  <2>2. stack'[SavedTop + 1 - k] = params[k]
    BY <1>0, <1>2, <1>5, <2>1 DEF InSave, OwnRegisters
  <2>3. \A i \in 1..saved_registers : i > k =>
          SavedTop + 1 - i \in 1..sp /\ stack[SavedTop + 1 - i] = params[i]
    BY <1>0, <1>1, <1>2, <1>3 DEF InSave, SavedRegisters, SavedTop, BodyTop
  <2>. QED
    BY <1>1, <1>2, <1>5, <2>1, <2>2, <2>3 DEF SavedRegisters
<1>. QED
  BY <1>0, <1>1, <1>2, <1>3, <1>6, <1>8, <1>9, <1>10
  DEF IInv, InSave, OwnRegisters, SavedTop, BodyTop, ReturnsToCaller

LEMMA AlignStackKeeps ==
  ASSUME IInv, AlignStack
  PROVE  IInv'
<1>. USE DEF AlignStack
<1>0. TypeOK /\ InSave
  BY DEF IInv
<1>1. /\ saved_registers \in Nat /\ saved_registers <= NumRegs
      /\ call_argc \in Nat /\ call_argc <= MaxCallArgs /\ StackArgs \in Nat
      /\ UNCHANGED <<saved_registers, call_argc, StackArgs>>
  BY <1>0, CountersType DEF saved_registers, call_argc, StackArgs
<1>2. bp \in Nat /\ BodyTop \in Nat /\ SavedTop \in Nat /\ sp = SavedTop /\ BodyTop <= sp
  <2>1. bp \in Nat /\ BodyTop \in Nat /\ sp = SavedTop - k /\ k = 0
    BY <1>0, FrameBounds, ProgramAssumption DEF InSave, BodyTop
  <2>. QED
    BY <1>1, <2>1 DEF SavedTop
<1>3. sp \in Nat /\ sp \in Cells /\ stack \in [1..sp -> Cells]
  BY <1>0 DEF TypeOK, Cells
<1>. DEFINE s1 == Pushed(stack, sp, sp)
            s2 == Pushed(s1, sp + 1, sp)
<1>4. s1 \in [1..(sp + 1) -> Cells] /\ s1[sp + 1] = sp /\ \A d \in 1..sp : s1[d] = stack[d]
  BY <1>3, PushedType
<1>5. /\ s2 \in [1..(sp + 2) -> Cells] /\ s2[sp + 2] = sp
      /\ \A d \in 1..(sp + 1) : s2[d] = s1[d]
  <2>1. sp + 1 \in Nat /\ sp + 1 + 1 = sp + 2
    BY <1>3
  <2>2. /\ Pushed(s1, sp + 1, sp) \in [1..((sp + 1) + 1) -> Cells]
        /\ Pushed(s1, sp + 1, sp)[(sp + 1) + 1] = sp
        /\ \A d \in 1..(sp + 1) : Pushed(s1, sp + 1, sp)[d] = s1[d]
    <3>. HIDE DEF s1
    <3>. QED
      BY <1>3, <1>4, <2>1, PushedType
  <2>. QED
    BY <2>1, <2>2
<1>6. sp' \in Nat /\ sp' >= sp + 2 /\ sp' = AlignedTop
  BY <1>2, <1>3 DEF AlignedTop
<1>7. /\ stack' \in [1..sp' -> Cells]
      /\ \A d \in 1..sp' : d <= sp + 2 => stack'[d] = s2[d]
  <2>1. stack' = Resized(s2, sp + 2, sp')
    OBVIOUS
  <2>2. sp + 2 \in Nat
    BY <1>3
  <2>. HIDE DEF s2
  <2>3. /\ Resized(s2, sp + 2, sp') \in [1..sp' -> Cells]
        /\ \A d \in 1..sp' : d <= sp + 2 => Resized(s2, sp + 2, sp')[d] = s2[d]
    BY <1>5, <1>6, <2>2, ResizedType
  <2>. QED
    BY <2>1, <2>3
<1>8. /\ \A d \in 1..sp : stack'[d] = stack[d]
      /\ stack'[sp + 1] = sp /\ stack'[sp + 2] = sp
  <2>. HIDE DEF s1, s2
  <2>. QED
    BY <1>3, <1>4, <1>5, <1>6, <1>7
<1>. HIDE DEF s1, s2
<1>9. TypeOK'
  <2>1. k' \in 0..Greater(NumRegs + 1, MaxCallArgs)
    BY <1>1, RegistersAssumption, ProgramAssumption DEF Greater
  <2>. QED
    BY <1>0, <1>6, <1>7, <2>1, SourcesFixed DEF TypeOK
<1>10. \A d \in 1..BodyTop : stack'[d] = stack[d]
  BY <1>2, <1>8
<1>11. FrameIntact'
  BY <1>0, <1>2, <1>6, <1>10, FrameKept DEF InSave
<1>12. CallPrepared(call_argc)'
  <2>1. PICK n \in Int : n = call_argc
    BY <1>1
  <2>2. CallPrepared(n)'
    BY <1>0, <1>10, <2>1, CallPreparedKept DEF InSave
  <2>. QED
    BY <1>1, <2>1, <2>2
<1>13. SavedRegisters(0)'
  <2>1. \A i \in 1..saved_registers :
          SavedTop + 1 - i \in 1..sp /\ stack[SavedTop + 1 - i] = params[i]
    BY <1>0, <1>1, <1>2 DEF InSave, SavedRegisters, SavedTop, BodyTop
  <2>. QED
    BY <1>1, <1>8, <2>1 DEF SavedRegisters, SavedTop, BodyTop
<1>14. StackArgumentsFrom(call_argc)' /\ RegisterArgumentsFrom(call_argc)'
  <2>1. \A i \in 1..call_argc : ~(i > call_argc)
    BY <1>1
  <2>2. \A i \in (NumRegs + 1)..call_argc : ~(i > call_argc)
    BY <1>1, RegistersAssumption
  <2>3. 1..Lesser(NumRegs, call_argc) \subseteq 1..call_argc
    BY <1>1, RegistersAssumption DEF Lesser
  <2>. QED
    BY <1>1, <2>1, <2>2, <2>3 DEF StackArgumentsFrom, RegisterArgumentsFrom
<1>15. sp' = AlignedTop + StackArgs - Greater(0, call_argc - NumRegs)
  BY <1>1, <1>6, <1>2 DEF StackArgs, AlignedTop
<1>16. UNCHANGED <<BodyTop, SavedTop, AlignedTop>>
  BY <1>1 DEF BodyTop, SavedTop, AlignedTop
<1>. QED
  BY <1>0, <1>1, <1>2, <1>8, <1>9, <1>11, <1>12, <1>13, <1>14, <1>15, <1>16
  DEF IInv, InPush, Aligned, InSave, CallPrepared, ReturnsToCaller

\* Where the stack is while arguments are passed.
LEMMA PushBounds ==
  ASSUME TypeOK, InPush
  PROVE  /\ saved_registers \in Nat /\ saved_registers <= NumRegs
         /\ call_argc \in Nat /\ k \in Nat /\ NumRegs \in Nat
         /\ bp \in Nat /\ BodyTop \in Nat /\ SavedTop \in Nat /\ AlignedTop \in Nat
         /\ BodyTop <= SavedTop /\ SavedTop + 2 <= AlignedTop /\ AlignedTop <= sp
         /\ sp \in Nat /\ StackArgs \in Nat
<1>1. /\ saved_registers \in Nat /\ saved_registers <= NumRegs
      /\ call_argc \in Nat /\ StackArgs \in Nat
  BY CountersType
<1>2. bp \in Nat /\ k \in Nat /\ NumRegs \in Nat /\ Generals \in Nat /\ sp \in Nat
  BY RegistersAssumption, ProgramAssumption DEF TypeOK
<1>3. BodyTop \in Nat /\ SavedTop \in Nat /\ BodyTop <= SavedTop
  BY <1>1, <1>2 DEF BodyTop, SavedTop
<1>4. AlignedTop \in Nat /\ SavedTop + 2 <= AlignedTop
  BY <1>3 DEF AlignedTop
<1>5. StackArgs - Greater(0, k - NumRegs) >= 0
  BY <1>1, <1>2 DEF InPush, StackArgs, Greater
<1>6. Greater(0, k - NumRegs) \in Nat
  BY <1>2 DEF Greater
<1>7. sp = AlignedTop + StackArgs - Greater(0, k - NumRegs)
  BY DEF InPush
<1>. QED
  BY <1>1, <1>2, <1>3, <1>4, <1>5, <1>6, <1>7

\* What is below the arguments survives a step that changes only the top.
LEMMA AlignedKept ==
  ASSUME TypeOK, InPush, UNCHANGED <<bp, params, argument_count>>,
         sp' \in Nat, sp' >= sp,
         \A d \in 1..sp : stack'[d] = stack[d]
  PROVE  /\ Aligned' /\ UNCHANGED <<BodyTop, SavedTop, AlignedTop, saved_registers>>
         /\ \A d \in 1..BodyTop : stack'[d] = stack[d]
<1>1. UNCHANGED <<BodyTop, SavedTop, AlignedTop, saved_registers>>
  BY DEF BodyTop, SavedTop, AlignedTop, saved_registers
<1>2. \A d \in 1..BodyTop : stack'[d] = stack[d]
  BY PushBounds
<1>3. FrameIntact'
  <2>1. sp' >= BodyTop
    BY PushBounds
  <2>. QED
    BY <1>2, <2>1, FrameKept DEF InPush, Aligned
<1>4. SavedRegisters(0)'
  <2>1. \A i \in 1..saved_registers :
          SavedTop + 1 - i \in 1..sp /\ stack[SavedTop + 1 - i] = params[i]
    <3>1. SavedTop = BodyTop + saved_registers
      BY DEF SavedTop
    <3>2. \A i \in 1..saved_registers : SavedTop + 1 - i \in 1..sp
      BY <3>1, PushBounds
    <3>3. \A i \in 1..saved_registers : i > 0
      BY PushBounds
    <3>. QED
      BY <3>2, <3>3 DEF InPush, Aligned, SavedRegisters
  <2>. QED
    BY <1>1, <2>1 DEF SavedRegisters
<1>5. SavedTop + 1 \in 1..sp /\ SavedTop + 2 \in 1..sp
  BY PushBounds
<1>. QED
  BY <1>1, <1>2, <1>3, <1>4, <1>5 DEF InPush, Aligned

LEMMA PushStackArgumentKeeps ==
  ASSUME IInv, PushStackArgument
  PROVE  IInv'
<1>. USE DEF PushStackArgument
<1>0. TypeOK /\ InPush /\ FrameIntact
  BY DEF IInv, InPush, Aligned
<1>1. /\ NumRegs \in Nat /\ k \in Nat /\ k > NumRegs /\ k <= call_argc
      /\ sp \in Nat /\ call_argc \in Nat
  BY <1>0, PushBounds DEF InPush
<1>2. PICK o \in Sources : o = next_call_args[k]
  BY <1>0, <1>1 DEF InPush, TypeOK
<1>3. Operand(next_call_args[k]) \in Cells
  BY <1>0, <1>2, OperandType DEF Cells
<1>4. /\ stack' \in [1..(sp + 1) -> Cells]
      /\ stack'[sp + 1] = Operand(next_call_args[k])
      /\ \A d \in 1..sp : stack'[d] = stack[d]
  <2>1. stack \in [1..sp -> Cells] /\ sp \in Nat
    BY <1>0 DEF TypeOK
  <2>2. stack' = Pushed(stack, sp, Operand(next_call_args[k]))
    OBVIOUS
  <2>3. LET new == Pushed(stack, sp, Operand(next_call_args[k]))
        IN  /\ new \in [1..(sp + 1) -> Cells]
            /\ new[sp + 1] = Operand(next_call_args[k])
            /\ \A d \in 1..sp : new[d] = stack[d]
    BY <1>3, <2>1, PushedType
  <2>. QED
    BY <2>2, <2>3
<1>5. TypeOK'
  <2>1. k' \in 0..Greater(NumRegs + 1, MaxCallArgs)
    BY <1>0, <1>1, ProgramAssumption DEF TypeOK, Greater
  <2>. QED
    BY <1>0, <1>1, <1>4, <2>1, SourcesFixed DEF TypeOK
<1>6. /\ Aligned' /\ UNCHANGED <<BodyTop, SavedTop, AlignedTop, saved_registers>>
      /\ \A d \in 1..BodyTop : stack'[d] = stack[d]
  BY <1>0, <1>1, <1>4, AlignedKept
<1>7. UNCHANGED <<call_argc, StackArgs>>
  BY DEF call_argc, StackArgs
<1>8. sp = AlignedTop + call_argc - k /\ sp' = AlignedTop + call_argc - k'
  <2>1. sp = AlignedTop + StackArgs - Greater(0, k - NumRegs) /\ AlignedTop \in Nat
    BY <1>0, PushBounds DEF InPush
  <2>2. StackArgs = call_argc - NumRegs /\ Greater(0, k - NumRegs) = k - NumRegs
    BY <1>1 DEF StackArgs, Greater
  <2>. QED
    BY <1>1, <2>1, <2>2
<1>9. sp' = (AlignedTop + StackArgs - Greater(0, k - NumRegs))'
  BY <1>1, <1>6, <1>7, <1>8, <1>0, PushBounds DEF StackArgs, Greater
<1>10. ASSUME ~Crossing
       PROVE  CallPrepared(k)' /\ StackArgumentsFrom(k)' /\ RegisterArgumentsFrom(k)'
  <2>1. CallPrepared(k) /\ StackArgumentsFrom(k) /\ RegisterArgumentsFrom(k)
    BY <1>0, <1>10 DEF InPush
  <2>2. CallPrepared(k)'
    <3>1. PICK n \in Int : n = k'
      BY <1>1
    <3>2. CallPrepared(n)
      BY <1>1, <2>1, <3>1 DEF CallPrepared
    <3>3. CallPrepared(n)'
      BY <1>0, <1>6, <3>2, CallPreparedKept
    <3>. QED
      BY <3>1, <3>3
  <2>3. stack'[sp + 1] = intended[k]
    BY <1>1, <1>4, <2>1 DEF CallPrepared
  <2>4. \A i \in (NumRegs + 1)..call_argc : i > k =>
          AlignedTop + call_argc - i + 1 \in 1..sp
    BY <1>0, <1>1, <1>8, PushBounds
  <2>5. StackArgumentsFrom(k)'
    <3>1. SUFFICES ASSUME NEW i \in (NumRegs + 1)..call_argc, i > k - 1
                   PROVE  stack'[AlignedTop + call_argc - i + 1] = intended[i]
      BY <1>6, <1>7 DEF StackArgumentsFrom
    <3>2. CASE i = k
      BY <1>8, <2>3, <3>2, <1>0, <1>1, PushBounds
    <3>3. CASE i > k
      BY <1>4, <2>1, <2>4, <3>3 DEF StackArgumentsFrom
    <3>. QED
      BY <3>1, <3>2, <3>3, <1>1
  <2>6. RegisterArgumentsFrom(k)'
    <3>1. \A i \in 1..Lesser(NumRegs, call_argc) : ~(i > k - 1)
      BY <1>1 DEF Lesser
    <3>. QED
      BY <1>7, <3>1 DEF RegisterArgumentsFrom
  <2>. QED
    BY <2>2, <2>5, <2>6
<1>11. DOMAIN next_call_args' = 1..call_argc' /\ k' <= call_argc'
  BY <1>0, <1>1, <1>7 DEF InPush
<1>. QED
  BY <1>5, <1>6, <1>9, <1>10, <1>11 DEF IInv, InPush, ReturnsToCaller

LEMMA SetRegisterArgumentKeeps ==
  ASSUME IInv, SetRegisterArgument
  PROVE  IInv'
<1>. USE DEF SetRegisterArgument
<1>0. TypeOK /\ InPush /\ FrameIntact
  BY DEF IInv, InPush, Aligned
<1>1. /\ NumRegs \in Nat /\ k \in 1..NumRegs /\ k <= call_argc
      /\ sp \in Nat /\ call_argc \in Nat
      /\ k \in DOMAIN next_call_args /\ k \in 1..Lesser(NumRegs, call_argc)
  BY <1>0, PushBounds DEF InPush, Lesser
<1>2. PICK o \in Sources : o = next_call_args[k]
  BY <1>0, <1>1 DEF InPush, TypeOK
<1>3. Operand(next_call_args[k]) \in Values
  BY <1>0, <1>2, OperandType
<1>4. /\ ArgRegs[k] \in Registers /\ regs' \in [Registers -> Values]
      /\ regs'[ArgRegs[k]] = Operand(next_call_args[k])
      /\ regs'["a"] = regs["a"]
      /\ \A n \in 1..NumRegs : n # k => regs'[ArgRegs[n]] = regs[ArgRegs[n]]
  BY <1>0, <1>1, <1>3, RegistersAssumption DEF TypeOK, Registers
<1>5. TypeOK'
  <2>1. k' \in 0..Greater(NumRegs + 1, MaxCallArgs)
    BY <1>0, <1>1, ProgramAssumption DEF TypeOK, Greater
  <2>. QED
    BY <1>0, <1>1, <1>4, <2>1, SourcesFixed DEF TypeOK
<1>6. /\ Aligned' /\ UNCHANGED <<BodyTop, SavedTop, AlignedTop, saved_registers>>
  BY <1>0, <1>1, AlignedKept
<1>7. UNCHANGED <<call_argc, StackArgs>>
  BY DEF call_argc, StackArgs
<1>8. sp' = (AlignedTop + StackArgs - Greater(0, k - NumRegs))'
  BY <1>0, <1>1, <1>6, <1>7 DEF InPush, Greater
<1>9. ASSUME ~Crossing
      PROVE  CallPrepared(k)' /\ StackArgumentsFrom(k)' /\ RegisterArgumentsFrom(k)'
  <2>1. CallPrepared(k) /\ StackArgumentsFrom(k) /\ RegisterArgumentsFrom(k)
    BY <1>0, <1>9 DEF InPush
  <2>2. ASSUME NEW i \in 1..call_argc, i <= k - 1
        PROVE  Operand(next_call_args[i])' = intended[i]
    <3>1. PICK p \in Sources : p = next_call_args[i]
      BY <1>0 DEF InPush, TypeOK
    <3>2. Operand(p) = intended[i]
      BY <1>1, <2>1, <2>2, <3>1 DEF CallPrepared
    <3>3. ASSUME NEW n \in 1..NumRegs, p = <<"arg", n>>
          PROVE  regs'[ArgRegs[n]] = regs[ArgRegs[n]]
      <4>1. CASE n = k
        <5>1. next_call_args[k] = p
          <6>1. Uncrossed /\ i \in DOMAIN next_call_args
            BY <1>0, <1>9, <2>1 DEF CallPrepared
          <6>2. p[1] = "arg" /\ p[2] = k
            BY <3>3, <4>1
          <6>3. i < p[2] /\ p[2] <= Lesser(NumRegs, call_argc)
            BY <1>1, <2>2, <6>2
          <6>. QED
            BY <3>1, <6>1, <6>2, <6>3 DEF Uncrossed
        <5>2. Operand(p) = regs[ArgRegs[k]]
          BY <1>1, <3>3, <4>1 DEF Operand
        <5>. QED
          BY <1>4, <4>1, <5>1, <5>2
      <4>. QED
        BY <1>4, <4>1
    <3>4. Operand(p)' = Operand(p)
      BY <1>0, <1>4, <3>3, OperandKept
    <3>. QED
      BY <3>1, <3>2, <3>4
  <2>3. CallPrepared(k)'
    BY <1>7, <2>1, <2>2 DEF CallPrepared, Uncrossed
  <2>4. StackArgumentsFrom(k)'
    <3>1. \A i \in (NumRegs + 1)..call_argc : i > k
      BY <1>1
    <3>. QED
      BY <1>6, <1>7, <2>1, <3>1 DEF StackArgumentsFrom
  <2>5. RegisterArgumentsFrom(k)'
    <3>1. SUFFICES ASSUME NEW i \in 1..Lesser(NumRegs, call_argc), i > k - 1
                   PROVE  regs'[ArgRegs[i]] = intended[i]
      BY <1>7 DEF RegisterArgumentsFrom
    <3>2. CASE i = k
      BY <1>1, <1>4, <2>1, <3>2 DEF CallPrepared
    <3>3. CASE i > k
      <4>1. i \in 1..NumRegs /\ i # k
        BY <1>1, <3>3 DEF Lesser
      <4>. QED
        BY <1>4, <2>1, <3>3, <4>1 DEF RegisterArgumentsFrom
    <3>. QED
      BY <3>1, <3>2, <3>3, <1>1 DEF Lesser
  <2>. QED
    BY <2>3, <2>4, <2>5
<1>10. DOMAIN next_call_args' = 1..call_argc' /\ k' <= call_argc'
  BY <1>0, <1>1, <1>7 DEF InPush
<1>. QED
  BY <1>5, <1>6, <1>8, <1>9, <1>10 DEF IInv, InPush, ReturnsToCaller

LEMMA PerformCallKeeps ==
  ASSUME IInv, PerformCall
  PROVE  IInv'
<1>. USE DEF PerformCall
<1>0. TypeOK /\ InPush /\ k = 0
  BY DEF IInv
<1>1. regs' \in [Registers -> Values]
  <2>1. PICK v \in Fresh : regs' = [s \in Registers |-> IF s = "a" THEN v ELSE Junk]
    OBVIOUS
  <2>. QED
    BY <2>1, ProgramAssumption
<1>2. TypeOK'
  BY <1>0, <1>1, SourcesFixed DEF TypeOK
<1>3. Aligned' /\ UNCHANGED AlignedTop
  BY <1>0, PushBounds, AlignedKept
<1>4. UNCHANGED StackArgs
  BY DEF StackArgs, call_argc
<1>5. sp = AlignedTop + StackArgs
  BY <1>0, PushBounds DEF InPush, Greater
<1>. QED
  BY <1>2, <1>3, <1>4, <1>5 DEF IInv, InCalled, ReturnsToCaller

\* mov 8(sp), sp finds the stack pointer of before the alignment.
LEMMA ReleaseStackKeeps ==
  ASSUME IInv, ReleaseStack
  PROVE  IInv'
<1>. USE DEF ReleaseStack
<1>0. TypeOK /\ InCalled /\ Aligned /\ FrameIntact
  BY DEF IInv, InCalled, Aligned
<1>1. /\ saved_registers \in Nat /\ saved_registers <= NumRegs /\ StackArgs \in Nat
      /\ sp \in Nat /\ bp \in Nat /\ BodyTop \in Nat /\ SavedTop \in Nat
      /\ SavedTop = BodyTop + saved_registers
  <2>1. /\ saved_registers \in Nat /\ saved_registers <= NumRegs /\ StackArgs \in Nat
        /\ sp \in Nat /\ bp \in Nat
    BY <1>0, CountersType DEF TypeOK
  <2>2. BodyTop \in Nat
    BY <2>1, ProgramAssumption DEF BodyTop
  <2>. QED
    BY <2>1, <2>2 DEF SavedTop
<1>2. sp = AlignedTop + StackArgs /\ AlignedTop = SavedTop + 2 + (SavedTop % 2)
  BY <1>0 DEF InCalled, AlignedTop
<1>3. sp - StackArgs - 1 \in {SavedTop + 1, SavedTop + 2} /\ SavedTop <= sp
  BY <1>1, <1>2
<1>4. sp' = SavedTop
  BY <1>0, <1>3 DEF Aligned
<1>5. /\ stack' \in [1..SavedTop -> Cells]
      /\ \A d \in 1..SavedTop : stack'[d] = stack[d]
  <2>1. stack \in [1..sp -> Cells] /\ stack' = Resized(stack, sp, SavedTop)
    BY <1>0, <1>4 DEF TypeOK
  <2>2. /\ Resized(stack, sp, SavedTop) \in [1..SavedTop -> Cells]
        /\ \A d \in 1..SavedTop : d <= sp => Resized(stack, sp, SavedTop)[d] = stack[d]
    BY <1>1, <2>1, ResizedType
  <2>. QED
    BY <1>1, <1>3, <2>1, <2>2
<1>6. TypeOK'
  <2>1. k' \in 0..Greater(NumRegs + 1, MaxCallArgs)
    BY RegistersAssumption, ProgramAssumption DEF Greater
  <2>. QED
    BY <1>0, <1>1, <1>4, <1>5, <2>1, SourcesFixed DEF TypeOK
<1>7. FrameIntact'
  <2>1. \A d \in 1..BodyTop : stack'[d] = stack[d]
    BY <1>1, <1>5
  <2>. QED
    BY <1>0, <1>1, <1>4, <2>1, FrameKept
<1>8. UNCHANGED <<saved_registers, SavedTop>>
  BY DEF saved_registers, SavedTop, BodyTop
<1>9. SavedRegisters(k - 1)' /\ OwnRegisters(k - 1)'
  <2>1. \A i \in 1..saved_registers :
          SavedTop + 1 - i \in 1..SavedTop /\ stack[SavedTop + 1 - i] = params[i]
    <3>1. \A i \in 1..saved_registers : i > 0 /\ SavedTop + 1 - i \in 1..SavedTop
      BY <1>1
    <3>. QED
      BY <1>0, <3>1 DEF Aligned, SavedRegisters
  <2>2. SavedRegisters(0)'
    BY <1>5, <1>8, <2>1 DEF SavedRegisters
  <2>. QED
    BY <2>2 DEF OwnRegisters, SavedRegisters
<1>10. k' \in 1..(saved_registers' + 1) /\ sp' = (SavedTop + 1 - k)'
  BY <1>1, <1>4, <1>8
<1>. QED
  BY <1>6, <1>7, <1>9, <1>10 DEF IInv, InRestore, ReturnsToCaller

LEMMA RestoreRegisterKeeps ==
  ASSUME IInv, RestoreRegister
  PROVE  IInv'
<1>. USE DEF RestoreRegister
<1>0. TypeOK /\ InRestore /\ FrameIntact
  BY DEF IInv, InRestore
<1>1. /\ saved_registers \in Nat /\ saved_registers <= NumRegs
      /\ sp \in Nat /\ BodyTop \in Nat /\ SavedTop = BodyTop + saved_registers
      /\ NumRegs \in Nat
  <2>1. saved_registers \in Nat /\ saved_registers <= NumRegs /\ sp \in Nat /\ bp \in Nat
    BY <1>0, CountersType DEF TypeOK
  <2>. QED
    BY <2>1, ProgramAssumption, RegistersAssumption DEF BodyTop, SavedTop
<1>2. /\ k \in 1..saved_registers /\ k \in 1..NumRegs
      /\ sp = SavedTop + 1 - k /\ sp \in Nat /\ sp - 1 \in Nat /\ sp - 1 >= BodyTop
  BY <1>0, <1>1 DEF InRestore
<1>3. stack[sp] = params[k] /\ params[k] \in Values
  <2>1. k \in 1..NParams
    <3>1. saved_registers <= argument_count /\ argument_count \in 0..NParams
      BY <1>0, CountersType DEF TypeOK
    <3>. QED
      BY <1>1, <1>2, <3>1, ProgramAssumption
  <2>2. params[k] \in Values
    BY <1>0, <2>1 DEF TypeOK
  <2>3. k > k - 1 /\ SavedTop + 1 - k = sp
    BY <1>1, <1>2
  <2>. QED
    BY <1>0, <1>2, <2>2, <2>3 DEF InRestore, SavedRegisters
<1>4. /\ regs' \in [Registers -> Values]
      /\ regs'[ArgRegs[k]] = params[k]
      /\ \A n \in 1..NumRegs : n # k => regs'[ArgRegs[n]] = regs[ArgRegs[n]]
  BY <1>0, <1>2, <1>3, RegistersAssumption DEF TypeOK, Registers
<1>5. /\ stack' \in [1..(sp - 1) -> Cells]
      /\ \A d \in 1..(sp - 1) : stack'[d] = stack[d]
  <2>1. stack \in [1..sp -> Cells] /\ stack' = Resized(stack, sp, sp - 1)
    BY <1>0 DEF TypeOK
  <2>2. /\ Resized(stack, sp, sp - 1) \in [1..(sp - 1) -> Cells]
        /\ \A d \in 1..(sp - 1) : d <= sp => Resized(stack, sp, sp - 1)[d] = stack[d]
    BY <1>1, <1>2, <2>1, ResizedType
  <2>. QED
    BY <1>1, <2>1, <2>2
<1>6. TypeOK'
  <2>1. k' \in 0..Greater(NumRegs + 1, MaxCallArgs)
    BY <1>1, <1>2, ProgramAssumption DEF Greater
  <2>. QED
    BY <1>0, <1>2, <1>4, <1>5, <2>1, SourcesFixed DEF TypeOK
<1>7. FrameIntact'
  <2>1. \A d \in 1..BodyTop : stack'[d] = stack[d]
    BY <1>1, <1>2, <1>5
  <2>. QED
    BY <1>0, <1>2, <2>1, FrameKept
<1>8. UNCHANGED <<saved_registers, SavedTop>>
  BY DEF saved_registers, SavedTop, BodyTop
<1>9. OwnRegisters(k - 1)'
  <2>1. SUFFICES ASSUME NEW i \in 1..k PROVE regs'[ArgRegs[i]] = params[i]
    BY <1>2 DEF OwnRegisters
  <2>2. CASE i = k
    BY <1>4, <2>2
  <2>3. CASE i # k
    <3>1. i \in 1..(k - 1) /\ i \in 1..NumRegs
      BY <1>1, <1>2, <2>1, <2>3
    <3>. QED
      BY <1>0, <1>4, <2>3, <3>1 DEF InRestore, OwnRegisters
  <2>. QED
    BY <2>2, <2>3
<1>10. SavedRegisters(k - 1)'
  <2>1. SUFFICES ASSUME NEW i \in 1..saved_registers, i > k
                 PROVE  stack'[SavedTop + 1 - i] = params[i]
    BY <1>2, <1>8 DEF SavedRegisters
  <2>2. SavedTop + 1 - i \in 1..(sp - 1) /\ i > k - 1
    BY <1>1, <1>2, <2>1
  <2>. QED
    BY <1>0, <1>5, <2>2 DEF InRestore, SavedRegisters
<1>11. k' \in 1..(saved_registers' + 1) /\ sp' = (SavedTop + 1 - k)'
  BY <1>1, <1>2, <1>8
<1>. QED
  BY <1>6, <1>7, <1>9, <1>10, <1>11 DEF IInv, InRestore, ReturnsToCaller

LEMMA EndCallKeeps ==
  ASSUME IInv, EndCall
  PROVE  IInv'
<1>. USE DEF EndCall
<1>0. TypeOK /\ InRestore /\ FrameIntact
  BY DEF IInv, InRestore
<1>1. saved_registers \in Nat /\ k = saved_registers + 1
  BY <1>0, CountersType DEF InRestore
<1>2. sp = BodyTop
  BY <1>0, <1>1, ProgramAssumption DEF InRestore, SavedTop, BodyTop, TypeOK
<1>3. TypeOK'
  <2>1. DOMAIN next_call_args' = {} /\ DOMAIN intended' = {}
    BY DEF NoArguments
  <2>2. k' \in 0..Greater(NumRegs + 1, MaxCallArgs)
    BY RegistersAssumption, ProgramAssumption DEF Greater
  <2>. QED
    BY <1>0, <2>1, <2>2, SourcesFixed DEF TypeOK
<1>4. OwnRegisters(saved_registers)'
  BY <1>0, <1>1 DEF InRestore, OwnRegisters, saved_registers
<1>5. FrameIntact'
  BY <1>0 DEF FrameIntact, BodyTop, StackParams
<1>. QED
  BY <1>2, <1>3, <1>4, <1>5 DEF IInv, InBody, BodyTop, ReturnsToCaller

-----------------------------------------------------------------------------
(* Entry and exit.                                                         *)

LEMMA InitEstablishes ==
  ASSUME Init
  PROVE  IInv
<1>. USE DEF Init
<1>1. NumRegs \in Nat /\ NParams \in Nat /\ StackParams \in Nat /\ sp \in Nat
  BY RegistersAssumption, ProgramAssumption DEF StackParams, Greater
<1>2. params \in [1..NParams -> Values]
  BY ProgramAssumption
<1>3. ASSUME NEW i \in 1..Lesser(NumRegs, NParams)
      PROVE  regs[ArgRegs[i]] = params[i]
  <2>1. i \in 1..NumRegs /\ i \in 1..NParams /\ i <= NumRegs
    BY <1>1 DEF Lesser
  <2>2. ArgRegs[i] \in Registers
    BY <2>1 DEF Registers
  <2>3. \A n \in 1..NParams : n <= NumRegs /\ ArgRegs[i] = ArgRegs[n] => n = i
    BY <1>1, <2>1, RegistersAssumption
  <2>4. (CHOOSE n \in 1..NParams : n <= NumRegs /\ ArgRegs[i] = ArgRegs[n]) = i
    BY <2>1, <2>3
  <2>. QED
    BY <2>1, <2>2, <2>4
<1>4. regs \in [Registers -> Values]
  <2>1. ASSUME NEW r \in Registers
        PROVE  regs[r] \in Values
    <3>1. CASE \E n \in 1..NParams : n <= NumRegs /\ r = ArgRegs[n]
      <4>1. PICK n \in 1..NParams : n <= NumRegs /\ r = ArgRegs[n]
        BY <3>1
      <4>2. n \in 1..Lesser(NumRegs, NParams)
        BY <1>1, <4>1 DEF Lesser
      <4>. QED
        BY <1>2, <1>3, <4>1, <4>2
    <3>2. CASE ~ \E n \in 1..NParams : n <= NumRegs /\ r = ArgRegs[n]
      BY <3>2, ProgramAssumption
    <3>. QED
      BY <3>1, <3>2
  <2>. QED
    BY <2>1
<1>5. \A d \in 1..sp : d # sp /\ d >= sp - StackParams => NumRegs + sp - d \in 1..NParams
  BY <1>1 DEF StackParams, Greater
<1>6. stack \in [1..sp -> Cells]
  <2>1. ASSUME NEW d \in 1..sp PROVE stack[d] \in Cells
    BY <1>2, <1>5, ProgramAssumption DEF Cells
  <2>. QED
    BY <2>1
<1>7. TypeOK
  <2>1. DOMAIN next_call_args = {} /\ DOMAIN intended = {}
    BY DEF NoArguments
  <2>2. k \in 0..Greater(NumRegs + 1, MaxCallArgs)
    BY RegistersAssumption, ProgramAssumption DEF Greater
  <2>. QED
    BY <1>1, <1>2, <1>4, <1>6, <2>1, <2>2, ProgramAssumption DEF TypeOK
<1>8. AtEntry
  <2>1. stack[sp] = RetAddr
    BY <1>1
  <2>2. ASSUME NEW n \in (NumRegs + 1)..NParams
        PROVE  stack[sp - (n - NumRegs)] = params[n]
    <3>1. sp - (n - NumRegs) \in 1..sp /\ sp - (n - NumRegs) # sp
          /\ sp - (n - NumRegs) >= sp - StackParams
          /\ NumRegs + sp - (sp - (n - NumRegs)) = n
      BY <1>1 DEF StackParams, Greater
    <3>. QED
      BY <3>1
  <2>. QED
    BY <1>3, <2>1, <2>2 DEF AtEntry, OwnRegisters
<1>. QED
  BY <1>7, <1>8 DEF IInv, ReturnsToCaller

LEMMA PrologueKeeps ==
  ASSUME IInv, Prologue
  PROVE  IInv'
<1>. USE DEF Prologue
<1>0. TypeOK /\ AtEntry
  BY DEF IInv
<1>1. /\ sp \in Nat /\ bp \in Nat /\ bp \in Cells /\ StackParams \in Nat
      /\ saved_registers \in Nat /\ saved_registers <= NumRegs
      /\ saved_registers <= argument_count /\ NumRegs \in Nat /\ Generals \in Nat
  BY <1>0, CountersType, RegistersAssumption, ProgramAssumption DEF TypeOK, Cells
<1>. DEFINE s1 == Pushed(stack, sp, bp)
<1>2. /\ s1 \in [1..(sp + 1) -> Cells] /\ s1[sp + 1] = bp
      /\ \A d \in 1..sp : s1[d] = stack[d]
  <2>1. stack \in [1..sp -> Cells]
    BY <1>0 DEF TypeOK
  <2>. QED
    BY <1>1, <2>1, PushedType
<1>3. /\ stack' \in [1..sp' -> Cells]
      /\ \A d \in 1..sp' : d <= sp + 1 => stack'[d] = s1[d]
      /\ \A d \in 1..sp' : d > sp + 1 => stack'[d] = Junk
  <2>1. stack' = Resized(s1, sp + 1, sp') /\ sp + 1 \in Nat /\ sp' \in Nat
    BY <1>1
  <2>. HIDE DEF s1
  <2>2. /\ Resized(s1, sp + 1, sp') \in [1..sp' -> Cells]
        /\ \A d \in 1..sp' : d <= sp + 1 => Resized(s1, sp + 1, sp')[d] = s1[d]
        /\ \A d \in 1..sp' : d > sp + 1 => Resized(s1, sp + 1, sp')[d] = Junk
    BY <1>2, <2>1, ResizedType
  <2>. QED
    BY <2>1, <2>2
<1>. HIDE DEF s1
<1>4. sp' \in Nat /\ bp' \in Nat /\ bp' = sp + 1 /\ sp' = bp' + Generals
  BY <1>1
<1>5. TypeOK'
  BY <1>0, <1>3, <1>4, SourcesFixed DEF TypeOK
<1>6. FrameIntact'
  <2>1. bp' \in {StackParams + 2, StackParams + 3}
    BY <1>0, <1>1, <1>4 DEF AtEntry
  <2>2. stack'[bp'] = CallerBP
    BY <1>0, <1>1, <1>2, <1>3, <1>4 DEF AtEntry
  <2>3. \A d \in 1..sp : stack'[d] = stack[d]
    BY <1>1, <1>2, <1>3, <1>4
  <2>4. stack'[bp' - 1] = RetAddr
    BY <1>0, <1>1, <1>4, <2>3 DEF AtEntry
  <2>5. ASSUME NEW n \in (NumRegs + 1)..NParams
        PROVE  stack'[bp' - (n - NumRegs + 1)] = params[n]
    <3>1. /\ sp - (n - NumRegs) \in 1..sp
          /\ bp' - (n - NumRegs + 1) = sp - (n - NumRegs)
      BY <1>0, <1>1, <1>4, ProgramAssumption DEF AtEntry, StackParams, Greater
    <3>. QED
      BY <1>0, <2>3, <3>1 DEF AtEntry
  <2>6. \A n \in 1..Generals : stack'[bp' + n] \in Values
    BY <1>1, <1>3, <1>4, ProgramAssumption
  <2>. QED
    BY <1>4, <2>1, <2>2, <2>4, <2>5, <2>6 DEF FrameIntact, BodyTop, StackParams
<1>7. OwnRegisters(saved_registers)'
  <2>1. 1..saved_registers \subseteq 1..Lesser(NumRegs, NParams)
    BY <1>0, <1>1, ProgramAssumption DEF TypeOK, Lesser
  <2>. QED
    BY <1>0, <2>1 DEF AtEntry, OwnRegisters, saved_registers
<1>. QED
  BY <1>4, <1>5, <1>6, <1>7 DEF IInv, InBody, BodyTop, ReturnsToCaller

LEMMA ReturnKeeps ==
  ASSUME IInv, Return
  PROVE  IInv'
<1>. USE DEF Return, Ordinary
<1>0. TypeOK /\ FrameIntact /\ sp = BodyTop
  BY DEF IInv, InBody
<1>1. /\ pc' = "returned" /\ bp' = CallerBP
      /\ bp \in {StackParams + 2, StackParams + 3}
  BY <1>0 DEF FrameIntact
<1>2. sp \in Nat /\ bp \in Nat /\ bp - 2 \in Nat /\ bp - 2 <= sp /\ StackParams \in Nat
  BY <1>0, FrameBounds, CountersType, ProgramAssumption
<1>3. /\ stack' \in [1..(bp - 2) -> Cells]
      /\ \A d \in 1..(bp - 2) : stack'[d] = stack[d]
  <2>1. stack \in [1..sp -> Cells] /\ stack' = Resized(stack, sp, bp - 2)
    BY <1>0 DEF TypeOK
  <2>2. /\ Resized(stack, sp, bp - 2) \in [1..(bp - 2) -> Cells]
        /\ \A d \in 1..(bp - 2) : d <= sp => Resized(stack, sp, bp - 2)[d] = stack[d]
    BY <1>2, <2>1, ResizedType
  <2>. QED
    BY <1>2, <2>1, <2>2
<1>4. TypeOK'
  BY <1>0, <1>1, <1>2, <1>3, SourcesFixed, ProgramAssumption DEF TypeOK
<1>5. ReturnsToCaller'
  <2>1. sp' \in {StackParams, StackParams + 1}
    BY <1>1, <1>2
  <2>2. ASSUME NEW n \in (NumRegs + 1)..NParams
        PROVE  stack'[sp' - (n - NumRegs - 1)] = params[n]
    <3>1. /\ sp' - (n - NumRegs - 1) = bp - (n - NumRegs + 1)
          /\ bp - (n - NumRegs + 1) \in 1..(bp - 2)
      BY <1>1, <1>2, RegistersAssumption, ProgramAssumption DEF StackParams, Greater
    <3>. QED
      BY <1>0, <1>3, <3>1 DEF FrameIntact
  <2>. QED
    BY <1>1, <2>1, <2>2 DEF ReturnsToCaller, StackParams
<1>. QED
  BY <1>1, <1>4, <1>5 DEF IInv

LEMMA StepKeeps ==
  ASSUME IInv, [Next]_vars
  PROVE  IInv'
<1>1. CASE Prologue
  BY <1>1, PrologueKeeps
<1>2. CASE Instruction
  BY <1>2, InstructionKeeps
<1>3. CASE CallSequence
  <2>1. CASE BeginCall
    BY <2>1, BeginCallKeeps
  <2>2. CASE IncompleteCall \/ UnexpectedInstruction
    BY <2>2, SourcesFixed
    DEF IncompleteCall, UnexpectedInstruction, IInv, TypeOK, ReturnsToCaller
  <2>3. CASE SaveRegister
    BY <2>3, SaveRegisterKeeps
  <2>4. CASE AlignStack
    BY <2>4, AlignStackKeeps
  <2>5. CASE PushStackArgument
    BY <2>5, PushStackArgumentKeeps
  <2>6. CASE SetRegisterArgument
    BY <2>6, SetRegisterArgumentKeeps
  <2>7. CASE PerformCall
    BY <2>7, PerformCallKeeps
  <2>8. CASE ReleaseStack
    BY <2>8, ReleaseStackKeeps
  <2>9. CASE RestoreRegister
    BY <2>9, RestoreRegisterKeeps
  <2>10. CASE EndCall
    BY <2>10, EndCallKeeps
  <2>. QED
    BY <1>3, <2>1, <2>2, <2>3, <2>4, <2>5, <2>6, <2>7, <2>8, <2>9, <2>10
    DEF CallSequence
<1>4. CASE Return
  BY <1>4, ReturnKeeps
<1>5. CASE UNCHANGED vars
  BY <1>5 DEF vars, IInv, TypeOK, Sources, Counted, General, ReturnsToCaller,
     AtEntry, InBody, InSave, InPush, InCalled, InRestore, Aligned, FrameIntact,
     OwnRegisters, SavedRegisters, CallPrepared, Uncrossed, Operand,
     StackArgumentsFrom, RegisterArgumentsFrom, saved_registers, call_argc,
     StackArgs, BodyTop, SavedTop, AlignedTop
<1>. QED
  BY <1>1, <1>2, <1>3, <1>4, <1>5 DEF Next

-----------------------------------------------------------------------------
(* The theorems.                                                           *)

\* The inductive invariant holds whatever the number of registers,
\* parameters, spilled registers and arguments, for every program.
THEOREM Invariance == Spec => []IInv
BY InitEstablishes, StepKeeps, PTL DEF Spec

\* The state keeps its shape; in particular no instruction reads or writes
\* below the stack pointer or above the caller's arguments.
THEOREM TypeCorrect == Spec => []TypeOK
BY Invariance, PTL DEF IInv

\* Every call leaves sp where the prologue put it.
THEOREM Balanced == Spec => []StackBalanced
<1>1. IInv => StackBalanced
  BY DEF IInv, InBody, FrameIntact, BodyTop, StackBalanced
<1>. QED
  BY <1>1, Invariance, PTL

\* ret returns to the caller, with the caller's stack and frame pointer.
THEOREM Returns == Spec => []ReturnsToCaller
BY Invariance, PTL DEF IInv

\* The function's own arguments survive every call, as long as every
\* position that reads one is counted.
THEOREM ArgumentsPreserved ==
  ASSUME Uncounted = {}
  PROVE  Spec => []OwnArgumentsPreserved
<1>1. IInv => OwnArgumentsPreserved
  <2>1. SUFFICES ASSUME IInv, pc = "body", NEW n \in Counted
                 PROVE  Operand(<<"arg", n>>) = params[n]
    BY DEF OwnArgumentsPreserved, ArgumentsRead
  <2>2. TypeOK /\ FrameIntact /\ OwnRegisters(saved_registers)
    BY <2>1 DEF IInv, InBody
  <2>3. CASE n <= NumRegs
    <3>1. n \in 1..saved_registers
      BY <2>2, <2>3, RegistersAssumption, ProgramAssumption
      DEF Counted, saved_registers, Lesser, TypeOK
    <3>. QED
      BY <2>2, <2>3, <3>1 DEF Operand, OwnRegisters
  <2>4. CASE ~(n <= NumRegs)
    <3>1. n \in (NumRegs + 1)..NParams
      BY <2>4, RegistersAssumption, ProgramAssumption DEF Counted
    <3>. QED
      BY <2>2, <2>4, <3>1 DEF Operand, FrameIntact
  <2>. QED
    BY <2>3, <2>4
<1>. QED
  BY <1>1, Invariance, PTL

\* At the call instruction the arguments are where the callee looks for them.
LEMMA IInvDelivers ==
  ASSUME ~Crossing, IInv
  PROVE  ArgumentsDelivered
<1>1. SUFFICES ASSUME pc = "push", k = 0, NEW n \in DOMAIN next_call_args
               PROVE  Received(n) = intended[n]
  BY DEF ArgumentsDelivered
<1>2. TypeOK /\ InPush
  BY <1>1 DEF IInv
<1>3. /\ NumRegs \in Nat /\ call_argc \in Nat /\ n \in 1..call_argc
      /\ AlignedTop \in Nat /\ sp \in Nat
  BY <1>2, PushBounds DEF InPush
<1>4. StackArgumentsFrom(0) /\ RegisterArgumentsFrom(0)
  BY <1>1, <1>2 DEF InPush
<1>5. CASE n <= NumRegs
  <2>1. n \in 1..Lesser(NumRegs, call_argc) /\ n > 0
    BY <1>3, <1>5 DEF Lesser
  <2>. QED
    BY <1>4, <1>5, <2>1 DEF Received, RegisterArgumentsFrom
<1>6. CASE ~(n <= NumRegs)
  <2>1. n \in (NumRegs + 1)..call_argc /\ n > 0
    BY <1>3, <1>6
  <2>2. sp = AlignedTop + (call_argc - NumRegs)
    BY <1>1, <1>2, <1>3, <2>1 DEF InPush, StackArgs, Greater
  <2>3. sp - (n - NumRegs - 1) = AlignedTop + call_argc - n + 1
    BY <1>3, <2>2
  <2>. QED
    BY <1>4, <1>6, <2>1, <2>3 DEF Received, StackArgumentsFrom
<1>. QED
  BY <1>5, <1>6

\* Every argument reaches the callee, as long as no own register argument is
\* passed in a lower position of a call that also sets its register.
THEOREM Delivered ==
  ASSUME ~Crossing
  PROVE  Spec => []ArgumentsDelivered
BY IInvDelivers, Invariance, PTL

\* next_call_args.at(i) finds every argument of a call that is emitted.
THEOREM NothingMissing == Spec => []NoMissingArgument
<1>1. IInv => NoMissingArgument
  BY DEF IInv, InSave, CallPrepared, InPush, NoMissingArgument
<1>. QED
  BY <1>1, Invariance, PTL

\* A call with an even number of stack arguments (none, as a rule) is made
\* on a 16-byte boundary.
THEOREM EvenCallsAligned == Spec => []AlignedUnlessOdd
<1>1. IInv => AlignedUnlessOdd
  <2>1. SUFFICES ASSUME IInv, pc = "push", k = 0, StackArgs % 2 = 0
                 PROVE  sp % 2 = 0
    BY DEF AlignedUnlessOdd
  <2>2. TypeOK /\ InPush
    BY <2>1 DEF IInv
  <2>3. sp = AlignedTop + StackArgs /\ SavedTop \in Nat /\ StackArgs \in Nat
    BY <2>1, <2>2, PushBounds DEF InPush, Greater
  <2>4. AlignedTop % 2 = 0 /\ AlignedTop \in Nat
    BY <2>3 DEF AlignedTop
  <2>. QED
    BY <2>1, <2>3, <2>4
<1>. QED
  BY <1>1, Invariance, PTL

-----------------------------------------------------------------------------
(* The machine code implements the virtual assembly, for every program     *)
(* that reads only counted arguments and crosses none.  The call sequence  *)
(* is a stutter except for the call instruction itself.                    *)

\* A counted operand is worth the same on both machines.
LEMMA SameValue ==
  ASSUME IInv, pc = "body", NEW o \in Sources
  PROVE  Operand(o) = VM!Value(o) /\ o \in VM!Sources
<1>0. TypeOK /\ FrameIntact /\ OwnRegisters(saved_registers)
  BY DEF IInv, InBody
<1>1. CASE o \in {"imm"} \X Immediates
  BY <1>1 DEF Operand, VM!Value, VM!Sources
<1>2. CASE o \in {"arg"} \X Counted
  <2>1. o[1] = "arg" /\ o[2] \in Counted /\ o[2] \in 1..NParams
    BY <1>2 DEF Counted
  <2>2. Operand(o) = params[o[2]]
    <3>1. CASE o[2] <= NumRegs
      <4>1. o[2] \in 1..saved_registers
        BY <1>0, <2>1, <3>1, RegistersAssumption, ProgramAssumption
        DEF Counted, saved_registers, Lesser, TypeOK
      <4>. QED
        BY <1>0, <2>1, <3>1, <4>1 DEF Operand, OwnRegisters
    <3>2. CASE ~(o[2] <= NumRegs)
      <4>1. o[2] \in (NumRegs + 1)..NParams
        BY <2>1, <3>2, RegistersAssumption, ProgramAssumption
      <4>. QED
        BY <1>0, <2>1, <3>2, <4>1 DEF Operand, FrameIntact
    <3>. QED
      BY <3>1, <3>2
  <2>. QED
    BY <1>2, <2>1, <2>2 DEF VM!Value, VM!Sources
<1>3. CASE o \in General
  BY <1>3 DEF General, Operand, Slots, InFrame, VM!Value, VM!Sources
<1>4. CASE o = <<"result", 0>>
  BY <1>4 DEF Operand, VM!Value, VM!Sources
<1>. QED
  BY <1>1, <1>2, <1>3, <1>4 DEF Sources

\* With every position counted, any register operand is a source.
LEMMA RegistersAreSources ==
  ASSUME Uncounted = {}, NEW position, NEW o \in RegisterAt(position)
  PROVE  o \in Sources /\ o \in VM!Bases
BY DEF RegisterAt, ArgumentsRead, Sources, Counted, General, VM!Bases

\* Between calls the abstract machine is waiting for an instruction too.
LEMMA OrdinaryMaps ==
  ASSUME IInv, Ordinary
  PROVE  VM!Ordinary
<1>1. Outgoing = NoArguments
  BY DEF Ordinary, Outgoing, NoArguments
<1>. QED
  BY <1>1 DEF VM!Ordinary, VM!NoArguments, NoArguments, Ordinary

\* An instruction that leaves the arguments alone leaves them alone.
LEMMA OutgoingKept ==
  ASSUME pc = "body", next_call_args = NoArguments, UNCHANGED <<pc, next_call_args>>
  PROVE  UNCHANGED Outgoing
BY DEF Outgoing, NoArguments

\* Writing a register of the virtual machine writes its slot.
LEMMA WriteMaps ==
  ASSUME IInv, pc = "body", UNCHANGED <<pc, bp>>, NEW v, NEW dst \in Targets, Write(dst, v)
  PROVE  VM!Write(dst, v)
<1>0. TypeOK /\ FrameIntact /\ sp = BodyTop
  BY DEF IInv, InBody
<1>1. CASE dst \in General
  <2>1. dst[1] = "gen" /\ dst[2] \in 1..Generals
    BY <1>1 DEF General
  <2>2. stack' = [stack EXCEPT ![bp + dst[2]] = v] /\ UNCHANGED regs
    BY <2>1 DEF Write
  <2>3. bp \in Nat /\ \A n \in 1..Generals : bp + n \in DOMAIN stack
    <3>1. bp \in Nat /\ sp \in Nat /\ bp + Generals <= sp /\ DOMAIN stack = 1..sp
      BY <1>0, FrameBounds DEF TypeOK
    <3>. QED
      BY <3>1, ProgramAssumption
  <2>4. \A n \in 1..Generals : stack'[bp + n] = IF n = dst[2] THEN v ELSE stack[bp + n]
    BY <2>1, <2>2, <2>3
  <2>5. Slots' = [Slots EXCEPT ![dst[2]] = v]
    <3>1. /\ Slots = [n \in 1..Generals |-> stack[bp + n]]
          /\ Slots' = [n \in 1..Generals |-> stack'[bp + n]]
      BY DEF Slots, InFrame
    <3>. QED
      BY <2>1, <2>4, <3>1
  <2>. QED
    BY <2>1, <2>2, <2>5 DEF VM!Write
<1>2. CASE dst = <<"result", 0>>
  <2>1. regs' = [regs EXCEPT !["a"] = v] /\ UNCHANGED stack
    BY <1>2 DEF Write
  <2>2. regs'["a"] = v
    BY <1>0, <2>1 DEF TypeOK, Registers
  <2>3. UNCHANGED Slots
    BY <2>1 DEF Slots, InFrame
  <2>. QED
    BY <1>2, <2>2, <2>3 DEF VM!Write
<1>. QED
  BY <1>1, <1>2 DEF Targets

-----------------------------------------------------------------------------
LEMMA MoveMaps ==
  ASSUME IInv, NEW src \in Sources, NEW dst \in Targets, Move(src, dst)
  PROVE  VM!Next
<1>1. /\ pc = "body" /\ Ordinary /\ Write(dst, Operand(src))
      /\ UNCHANGED <<pc, bp, next_call_args, params>>
  BY DEF Move, Ordinary, Frame
<1>2. Operand(src) = VM!Value(src) /\ src \in VM!Sources
  BY <1>1, SameValue
<1>3. PICK v : v = Operand(src) /\ Write(dst, v)
  BY <1>1
<1>4. VM!Write(dst, v)
  BY <1>1, <1>3, WriteMaps
<1>5. UNCHANGED Outgoing
  BY <1>1, OutgoingKept DEF Ordinary
<1>6. VM!Move(src, dst)
  BY <1>1, <1>2, <1>3, <1>4, <1>5, OrdinaryMaps
  DEF Move, VM!Move, Silent, VM!Silent
<1>7. dst \in VM!Targets
  BY DEF Targets, General, VM!Targets
<1>. QED
  BY <1>2, <1>6, <1>7 DEF VM!Next

\* An instruction that computes from operands of the same value.
LEMMA ComputeMaps ==
  ASSUME IInv, Ordinary, UNCHANGED Frame, NEW dst \in General, NEW op, NEW in,
         \E v \in Fresh : Write(dst, v) /\ Show(op, in, v)
  PROVE  VM!Compute(op, in, dst) /\ dst = <<"gen", dst[2]>> /\ dst[2] \in 1..Generals
<1>1. PICK v \in Fresh : Write(dst, v) /\ Show(op, in, v)
  OBVIOUS
<1>2. dst \in Targets /\ pc = "body" /\ UNCHANGED <<pc, bp, next_call_args, params>>
  BY DEF Targets, Ordinary, Frame
<1>3. VM!Write(dst, v)
  BY <1>1, <1>2, WriteMaps
<1>4. UNCHANGED Outgoing
  BY <1>2, OutgoingKept DEF Ordinary
<1>5. VM!Compute(op, in, dst)
  BY <1>1, <1>2, <1>3, <1>4, OrdinaryMaps DEF VM!Compute, VM!Show, Show
<1>. QED
  BY <1>5 DEF General

LEMMA EffectMaps ==
  ASSUME IInv, Ordinary, UNCHANGED <<Frame, regs, stack>>, NEW op, NEW in, Show(op, in, Junk)
  PROVE  VM!Effect(op, in)
<1>1. pc = "body" /\ UNCHANGED <<pc, bp, next_call_args, params>>
  BY DEF Ordinary, Frame
<1>2. UNCHANGED Outgoing
  BY <1>1, OutgoingKept DEF Ordinary
<1>3. UNCHANGED Slots
  BY <1>1 DEF Slots, InFrame
<1>. QED
  BY <1>1, <1>2, <1>3, OrdinaryMaps DEF VM!Effect, VM!Show, Show

LEMMA PrepareMaps ==
  ASSUME IInv, NEW n \in 1..MaxCallArgs, NEW src \in Sources, PrepareArgument(n, src)
  PROVE  VM!Next
<1>. USE DEF PrepareArgument
<1>1. Operand(src) = VM!Value(src) /\ src \in VM!Sources
  BY SameValue
<1>2. /\ Outgoing = [m \in DOMAIN next_call_args |-> Operand(next_call_args[m])]
      /\ DOMAIN Outgoing = DOMAIN next_call_args
  BY DEF Outgoing
<1>3. Outgoing' = [m \in DOMAIN next_call_args' |-> Operand(next_call_args'[m])]
  <2>1. \A o : Operand(o)' = Operand(o)
    BY DEF Operand
  <2>2. Outgoing' = [m \in DOMAIN next_call_args' |-> Operand(next_call_args[m])']
    BY DEF Outgoing
  <2>. QED
    BY <2>2 DEF Operand
<1>4. Outgoing' = [m \in DOMAIN Outgoing \cup {n} |->
                     IF m = n THEN VM!Value(src) ELSE Outgoing[m]]
  BY <1>1, <1>2, <1>3
<1>5. UNCHANGED Slots
  BY DEF Slots, InFrame
<1>6. VM!Prepare(n, src)
  BY <1>2, <1>4, <1>5 DEF VM!Prepare, Silent, VM!Silent
<1>. QED
  BY <1>1, <1>6 DEF VM!Next

LEMMA InstructionMaps ==
  ASSUME IInv, Uncounted = {}, Instruction
  PROVE  VM!Next
<1>1. ASSUME NEW src \in Sources, NEW dst \in Targets, Move(src, dst)
      PROVE  VM!Next
  BY <1>1, MoveMaps
<1>2. ASSUME NEW src \in Sources, NEW dst \in General,
             \/ AddOrSub(src, dst) \/ Multiply(src, dst)
             \/ Divide(src, dst) \/ SignExtend(src, dst)
      PROVE  VM!Next
  <2>1. Ordinary /\ UNCHANGED Frame /\ pc = "body" /\ dst \in Sources
    BY <1>2 DEF AddOrSub, Multiply, Divide, SignExtend, Ordinary, Sources
  <2>2. Operand(src) = VM!Value(src) /\ src \in VM!Sources
    BY <2>1, SameValue
  <2>3. dst[1] = "gen" /\ dst[2] \in 1..Generals /\ dst = <<"gen", dst[2]>>
    BY DEF General
  <2>4. Operand(dst) = Slots[dst[2]]
    BY <2>1, <2>3 DEF Operand, Slots, InFrame
  <2>5. PICK a, b : a = Operand(src) /\ b = Operand(dst)
    OBVIOUS
  <2>6. CASE AddOrSub(src, dst)
    <3>1. VM!Compute("add", <<a, b>>, dst)
      BY <2>1, <2>5, <2>6, ComputeMaps DEF AddOrSub
    <3>. QED
      BY <2>2, <2>3, <2>4, <2>5, <3>1 DEF VM!Next
  <2>7. CASE Multiply(src, dst)
    <3>1. VM!Compute("imul", <<a, b>>, dst)
      BY <2>1, <2>5, <2>7, ComputeMaps DEF Multiply
    <3>. QED
      BY <2>2, <2>3, <2>4, <2>5, <3>1 DEF VM!Next
  <2>8. CASE Divide(src, dst)
    <3>1. VM!Compute("div", <<a, b>>, dst)
      BY <2>1, <2>5, <2>8, ComputeMaps DEF Divide
    <3>. QED
      BY <2>2, <2>3, <2>4, <2>5, <3>1 DEF VM!Next
  <2>9. CASE SignExtend(src, dst)
    <3>1. VM!Compute("movslq", <<a>>, dst)
      BY <2>1, <2>5, <2>9, ComputeMaps DEF SignExtend
    <3>. QED
      BY <2>2, <2>3, <2>4, <2>5, <3>1 DEF VM!Next
  <2>. QED
    BY <1>2, <2>6, <2>7, <2>8, <2>9
<1>3. ASSUME NEW dst \in General,
             \/ LoadAddress(dst) \/ Negate(dst) \/ SetCondition(dst)
             \/ \E base \in RegisterAt("base") : Load(base, dst)
      PROVE  VM!Next
  <2>1. Ordinary /\ UNCHANGED Frame /\ pc = "body" /\ dst \in Sources
    BY <1>3 DEF LoadAddress, Negate, SetCondition, Load, Ordinary, Sources
  <2>2. dst[1] = "gen" /\ dst[2] \in 1..Generals /\ dst = <<"gen", dst[2]>>
    BY DEF General
  <2>3. CASE LoadAddress(dst)
    <3>1. VM!Compute("lea", <<>>, dst)
      BY <2>1, <2>3, ComputeMaps DEF LoadAddress
    <3>. QED
      BY <2>2, <3>1 DEF VM!Next
  <2>4. CASE Negate(dst)
    <3>1. PICK b : b = Operand(dst)
      OBVIOUS
    <3>2. VM!Compute("neg", <<b>>, dst)
      BY <2>1, <2>4, <3>1, ComputeMaps DEF Negate
    <3>3. b = Slots[dst[2]]
      BY <2>1, <2>2, <3>1 DEF Operand, Slots, InFrame
    <3>. QED
      BY <2>2, <3>2, <3>3 DEF VM!Next
  <2>5. CASE SetCondition(dst)
    <3>1. VM!Compute("set", <<>>, dst)
      BY <2>1, <2>5, ComputeMaps DEF SetCondition
    <3>. QED
      BY <2>2, <3>1 DEF VM!Next
  <2>6. CASE \E base \in RegisterAt("base") : Load(base, dst)
    <3>1. PICK base \in RegisterAt("base") : Load(base, dst)
      BY <2>6
    <3>2. PICK a : a = Operand(base)
      OBVIOUS
    <3>3. VM!Compute("load", <<a>>, dst)
      BY <2>1, <3>1, <3>2, ComputeMaps DEF Load
    <3>4. a = VM!Value(base) /\ base \in VM!Bases
      BY <2>1, <3>1, <3>2, RegistersAreSources, SameValue
    <3>. QED
      BY <2>2, <3>3, <3>4 DEF VM!Next
  <2>. QED
    BY <1>3, <2>3, <2>4, <2>5, <2>6
<1>4. ASSUME NEW src \in Sources, NEW base \in RegisterAt("base"), Store(src, base)
      PROVE  VM!Next
  <2>1. Ordinary /\ UNCHANGED <<Frame, regs, stack>> /\ pc = "body"
    BY <1>4 DEF Store, Ordinary
  <2>2. PICK a, b : a = Operand(src) /\ b = Operand(base)
    OBVIOUS
  <2>3. VM!Effect("store", <<a, b>>)
    BY <1>4, <2>1, <2>2, EffectMaps DEF Store
  <2>4. a = VM!Value(src) /\ src \in VM!Sources
    BY <2>1, <2>2, SameValue
  <2>5. b = VM!Value(base) /\ base \in VM!Bases
    BY <2>1, <2>2, RegistersAreSources, SameValue
  <2>. QED
    BY <2>3, <2>4, <2>5 DEF VM!Next
<1>5. ASSUME NEW src \in Sources, NEW lhs \in RegisterAt("lhs"), Compare(src, lhs)
      PROVE  VM!Next
  <2>1. Ordinary /\ UNCHANGED <<Frame, regs, stack>> /\ pc = "body"
    BY <1>5 DEF Compare, Ordinary
  <2>2. PICK a, b : a = Operand(src) /\ b = Operand(lhs)
    OBVIOUS
  <2>3. VM!Effect("cmp", <<a, b>>)
    BY <1>5, <2>1, <2>2, EffectMaps DEF Compare
  <2>4. a = VM!Value(src) /\ src \in VM!Sources
    BY <2>1, <2>2, SameValue
  <2>5. b = VM!Value(lhs) /\ lhs \in VM!Bases
    BY <2>1, <2>2, RegistersAreSources, SameValue
  <2>. QED
    BY <2>3, <2>4, <2>5 DEF VM!Next
<1>6. ASSUME NEW n \in 1..MaxCallArgs, NEW src \in Sources, PrepareArgument(n, src)
      PROVE  VM!Next
  BY <1>6, PrepareMaps
<1>. QED
  BY <1>1, <1>2, <1>3, <1>4, <1>5, <1>6 DEF Instruction

-----------------------------------------------------------------------------
(* The call sequence.                                                      *)

\* A step of the sequence that leaves a and the frame alone is not seen.
LEMMA SilentStep ==
  ASSUME IInv, pc \in {"save", "push", "called", "restore"}, pc' \notin {"entry", "returned"},
         UNCHANGED <<bp, params, event>>, regs'["a"] = regs["a"], UNCHANGED Outgoing,
         \A d \in 1..BodyTop : stack'[d] = stack[d]
  PROVE  UNCHANGED VM!vars
<1>1. TypeOK /\ FrameIntact
  BY DEF IInv, InSave, InPush, InCalled, InRestore, Aligned
<1>2. \A n \in 1..Generals : bp + n \in 1..BodyTop
  BY <1>1, FrameBounds, ProgramAssumption DEF BodyTop
<1>3. UNCHANGED Slots
  BY <1>2 DEF Slots, InFrame
<1>. QED
  BY <1>3 DEF VM!vars

LEMMA SaveAndPassMap ==
  ASSUME IInv,
         \/ SaveRegister \/ AlignStack \/ PushStackArgument \/ SetRegisterArgument
  PROVE  UNCHANGED VM!vars
<1>1. TypeOK /\ FrameIntact /\ IInv'
  <2>1. Next
    BY DEF Next, CallSequence
  <2>. QED
    BY <2>1, StepKeeps
    DEF IInv, SaveRegister, AlignStack, PushStackArgument, SetRegisterArgument,
        InSave, InPush, Aligned
<1>2. UNCHANGED Outgoing
  BY DEF Outgoing, SaveRegister, AlignStack, PushStackArgument, SetRegisterArgument
<1>3. \A d \in 1..BodyTop : d \in 1..sp
  BY <1>1, FrameBounds, ProgramAssumption DEF BodyTop
<1>4. regs'["a"] = regs["a"]
  BY <1>1, RegistersAssumption
  DEF TypeOK, Registers, SaveRegister, AlignStack, PushStackArgument, SetRegisterArgument
<1>5. \A d \in 1..BodyTop : stack'[d] = stack[d]
  <2>0. sp \in Nat
    BY <1>1 DEF TypeOK
  <2>1. CASE SaveRegister \/ PushStackArgument
    BY <1>3, <2>0, <2>1 DEF SaveRegister, PushStackArgument, Pushed
  <2>2. CASE AlignStack
    BY <1>3, <2>0, <2>2 DEF AlignStack, Pushed, Resized
  <2>3. CASE SetRegisterArgument
    BY <2>3 DEF SetRegisterArgument
  <2>. QED
    BY <2>1, <2>2, <2>3
<1>. QED
  BY <1>2, <1>4, <1>5, SilentStep
  DEF SaveRegister, AlignStack, PushStackArgument, SetRegisterArgument

\* The call instruction is the call: the callee gets what the program passed.
LEMMA PerformCallMaps ==
  ASSUME IInv, ~Crossing, PerformCall
  PROVE  VM!Next
<1>. USE DEF PerformCall
<1>0. TypeOK /\ InPush /\ FrameIntact /\ CallPrepared(0) /\ k = 0
  BY DEF IInv, InPush, Aligned
<1>1. call_argc \in 0..MaxCallArgs /\ DOMAIN intended = 1..call_argc
  BY <1>0, CountersType, ProgramAssumption DEF CallPrepared
<1>2. ArgumentsDelivered /\ DOMAIN next_call_args = 1..call_argc
  BY IInvDelivers, <1>0 DEF CallPrepared
<1>3. intended = [n \in 1..call_argc |-> Received(n)]
  BY <1>0, <1>1, <1>2 DEF ArgumentsDelivered, TypeOK
<1>4. Outgoing = intended /\ Outgoing' = NoArguments
  BY DEF Outgoing
<1>5. UNCHANGED Slots
  BY DEF Slots, InFrame
<1>6. PICK r \in Fresh : /\ regs' = [s \in Registers |-> IF s = "a" THEN r ELSE Junk]
                         /\ Show("call", [n \in 1..call_argc |-> Received(n)], r)
  OBVIOUS
<1>7. regs'["a"] = r
  BY <1>6 DEF Registers
<1>8. VM!Call
  BY <1>1, <1>3, <1>4, <1>5, <1>6, <1>7
  DEF VM!Call, VM!Show, Show, VM!NoArguments, NoArguments
<1>. QED
  BY <1>8 DEF VM!Next

LEMMA RestoreMaps ==
  ASSUME IInv, ReleaseStack \/ RestoreRegister \/ EndCall
  PROVE  UNCHANGED VM!vars
<1>1. TypeOK /\ FrameIntact /\ IInv'
  <2>1. Next
    BY DEF Next, CallSequence
  <2>. QED
    BY <2>1, StepKeeps
    DEF IInv, ReleaseStack, RestoreRegister, EndCall, InCalled, InRestore, Aligned
<1>2. UNCHANGED Outgoing
  BY DEF Outgoing, ReleaseStack, RestoreRegister, EndCall, NoArguments
<1>3. /\ sp' \in Nat /\ sp' >= BodyTop' /\ BodyTop' = BodyTop /\ sp \in Nat
      /\ \A d \in 1..BodyTop : d \in 1..sp /\ d \in 1..sp'
  <2>1. BodyTop' = BodyTop
    BY DEF BodyTop, ReleaseStack, RestoreRegister, EndCall
  <2>2. TypeOK' /\ FrameIntact'
    BY <1>1
    DEF IInv, ReleaseStack, RestoreRegister, EndCall, InRestore, InBody
  <2>3. sp' \in Nat /\ sp \in Nat /\ sp' >= BodyTop' /\ sp >= BodyTop /\ bp \in Nat
    BY <1>1, <2>2 DEF TypeOK, FrameIntact
  <2>. QED
    BY <2>1, <2>3, ProgramAssumption DEF BodyTop
<1>4. regs'["a"] = regs["a"]
  <2>1. CASE ReleaseStack \/ EndCall
    BY <2>1 DEF ReleaseStack, EndCall
  <2>2. CASE RestoreRegister
    <3>1. k \in Nat /\ k >= 1 /\ k <= saved_registers
      BY <2>2, <1>1 DEF RestoreRegister, IInv, InRestore, TypeOK
    <3>2. saved_registers \in Nat /\ saved_registers <= NumRegs
      BY <1>1, CountersType
    <3>3. ArgRegs[k] # "a"
      BY <3>1, <3>2, RegistersAssumption
    <3>. QED
      BY <1>1, <2>2, <3>3 DEF RestoreRegister, TypeOK, Registers
  <2>. QED
    BY <2>1, <2>2
<1>5. \A d \in 1..BodyTop : stack'[d] = stack[d]
  <2>1. CASE ReleaseStack \/ RestoreRegister
    BY <1>3, <2>1 DEF ReleaseStack, RestoreRegister, Resized
  <2>2. CASE EndCall
    BY <2>2 DEF EndCall
  <2>. QED
    BY <2>1, <2>2
<1>. QED
  BY <1>2, <1>4, <1>5, SilentStep DEF ReleaseStack, RestoreRegister, EndCall

\* Reaching a call freezes the arguments at the values they have.
LEMMA BeginCallMaps ==
  ASSUME IInv, BeginCall
  PROVE  UNCHANGED VM!vars
BY DEF BeginCall, Outgoing, Slots, InFrame, VM!vars

LEMMA CompilerErrorMaps ==
  ASSUME IInv, IncompleteCall \/ UnexpectedInstruction
  PROVE  UNCHANGED VM!vars
BY DEF IncompleteCall, UnexpectedInstruction, Outgoing, Slots, InFrame, VM!vars, Operand

-----------------------------------------------------------------------------
(* Entry and exit.                                                         *)

LEMMA InitMaps ==
  ASSUME Init
  PROVE  VM!Init
<1>1. regs["a"] = Junk
  <2>1. "a" \in Registers
    BY DEF Registers
  <2>2. ~ \E n \in 1..NParams : n <= NumRegs /\ "a" = ArgRegs[n]
    BY RegistersAssumption, ProgramAssumption
  <2>. QED
    BY <2>1, <2>2 DEF Init
<1>2. params \in [1..NParams -> Values]
  BY ProgramAssumption DEF Init
<1>. QED
  BY <1>1, <1>2
  DEF Init, VM!Init, Slots, InFrame, Outgoing, Silent, VM!Silent, NoArguments, VM!NoArguments

\* The prologue makes the slots, all junk.
LEMMA PrologueMaps ==
  ASSUME IInv, Prologue
  PROVE  UNCHANGED VM!vars
<1>. USE DEF Prologue
<1>0. TypeOK /\ AtEntry
  BY DEF IInv
<1>1. sp \in Nat /\ Generals \in Nat
  BY <1>0, ProgramAssumption DEF TypeOK
<1>2. \A n \in 1..Generals : stack'[bp' + n] = Junk
  BY <1>1 DEF Resized
<1>3. UNCHANGED Slots
  BY <1>2 DEF Slots, InFrame
<1>4. UNCHANGED Outgoing
  BY <1>0 DEF Outgoing, AtEntry, NoArguments
<1>. QED
  BY <1>3, <1>4 DEF VM!vars

LEMMA ReturnMaps ==
  ASSUME IInv, Return
  PROVE  VM!Next
<1>. USE DEF Return
<1>1. pc' = "returned"
  BY DEF Ordinary, IInv, InBody, FrameIntact
<1>2. Outgoing = NoArguments /\ Outgoing' = NoArguments
  BY <1>1 DEF Ordinary, Outgoing, NoArguments
<1>3. Slots' = [n \in 1..Generals |-> Junk]
  BY <1>1 DEF Slots, InFrame
<1>4. VM!Return
  BY <1>1, <1>2, <1>3, OrdinaryMaps DEF VM!Return, VM!Show, Show
<1>. QED
  BY <1>4 DEF VM!Next

LEMMA StepMaps ==
  ASSUME IInv, Uncounted = {}, ~Crossing, [Next]_vars
  PROVE  [VM!Next]_(VM!vars)
<1>1. CASE Prologue
  BY <1>1, PrologueMaps
<1>2. CASE Instruction
  BY <1>2, InstructionMaps
<1>3. CASE CallSequence
  <2>1. CASE BeginCall \/ IncompleteCall \/ UnexpectedInstruction
    BY <2>1, BeginCallMaps, CompilerErrorMaps
  <2>2. CASE SaveRegister \/ AlignStack \/ PushStackArgument \/ SetRegisterArgument
    BY <2>2, SaveAndPassMap
  <2>3. CASE PerformCall
    BY <2>3, PerformCallMaps
  <2>4. CASE ReleaseStack \/ RestoreRegister \/ EndCall
    BY <2>4, RestoreMaps
  <2>. QED
    BY <1>3, <2>1, <2>2, <2>3, <2>4 DEF CallSequence
<1>4. CASE Return
  BY <1>4, ReturnMaps
<1>5. CASE UNCHANGED vars
  BY <1>5 DEF vars, VM!vars, Slots, Outgoing, InFrame, Operand
<1>. QED
  BY <1>1, <1>2, <1>3, <1>4, <1>5 DEF Next

\* allocate_registers is correct: what the machine code does is what the
\* virtual assembly means, if every position that reads an own argument is
\* counted and no call crosses register arguments.
THEOREM Refinement ==
  ASSUME Uncounted = {}, ~Crossing
  PROVE  Spec => Implements
<1>1. Init => VM!Init
  BY InitMaps
<1>2. IInv /\ [Next]_vars => [VM!Next]_(VM!vars)
  BY StepMaps
<1>. QED
  BY <1>1, <1>2, Invariance, PTL DEF Spec, Implements, VM!Spec

\* The call sequence touches neither the function's frame nor its caller's.
THEOREM CallsKeepFrame == Spec => FrameUntouched
<1>1. ASSUME IInv, [Next]_vars, pc \in {"save", "push", "called", "restore"}
      PROVE  \A d \in 1..(bp + Generals) : stack'[d] = stack[d]
  <2>1. CallSequence \/ UNCHANGED vars
    BY <1>1 DEF Next, Prologue, Instruction, Return, Ordinary, Move, AddOrSub, Multiply,
       Divide, SignExtend, LoadAddress, Negate, SetCondition, Load, Store, Compare,
       PrepareArgument
  <2>2. TypeOK /\ FrameIntact /\ IInv'
    BY <1>1, StepKeeps DEF IInv, InSave, InPush, InCalled, InRestore, Aligned
  <2>3. /\ sp \in Nat /\ BodyTop \in Int /\ bp \in Nat
        /\ \A d \in 1..BodyTop : d \in 1..sp
    BY <2>2, FrameBounds, ProgramAssumption DEF BodyTop
  <2>4. CASE SaveRegister \/ PushStackArgument
    BY <2>3, <2>4 DEF SaveRegister, PushStackArgument, Pushed, BodyTop
  <2>5. CASE AlignStack
    BY <2>3, <2>5 DEF AlignStack, Pushed, Resized, BodyTop
  <2>6. CASE ReleaseStack \/ RestoreRegister
    <3>1. UNCHANGED BodyTop /\ pc' = "restore"
      BY <1>1, <2>6 DEF ReleaseStack, RestoreRegister, BodyTop
    <3>2. FrameIntact' /\ TypeOK'
      BY <2>2, <3>1 DEF IInv, InRestore
    <3>3. sp' \in Nat /\ sp' >= BodyTop
      BY <3>1, <3>2 DEF TypeOK, FrameIntact
    <3>. QED
      BY <2>3, <2>6, <3>3 DEF ReleaseStack, RestoreRegister, Resized, BodyTop
  <2>7. CASE \/ BeginCall \/ IncompleteCall \/ UnexpectedInstruction
             \/ SetRegisterArgument \/ PerformCall \/ EndCall \/ UNCHANGED vars
    BY <2>7 DEF BeginCall, IncompleteCall, UnexpectedInstruction, SetRegisterArgument,
                PerformCall, EndCall, vars
  <2>. QED
    BY <2>1, <2>4, <2>5, <2>6, <2>7 DEF CallSequence
<1>2. IInv /\ [Next]_vars =>
        [(pc \in {"save", "push", "called", "restore"}) =>
           \A d \in 1..(bp + Generals) : stack'[d] = stack[d]]_vars
  BY <1>1
<1>. QED
  BY <1>2, Invariance, PTL DEF Spec, FrameUntouched
=============================================================================
