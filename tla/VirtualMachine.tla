--------------------------- MODULE VirtualMachine ---------------------------
(***************************************************************************)
(* What a listing of virtual assembly means (src/src/core/asm/register.hpp *)
(* and the instructions src/src/core/asm/generator.cpp emits): a machine   *)
(* with unlimited registers, where the argument registers the function     *)
(* reads are the values its caller passed and the ones it writes are the   *)
(* arguments of its next call.                                             *)
(*                                                                         *)
(* Operations on data are uninterpreted: each computes some value, and     *)
(* `event' shows the values it was applied to.  Two machines that show the *)
(* same events run the same program.  Control flow between blocks is       *)
(* abstracted to "any next instruction".                                   *)
(***************************************************************************)
EXTENDS Naturals

CONSTANTS
  Values,       \* the data a register can hold
  Junk,         \* the value of a register nobody has written yet
  Fresh,        \* the results a computation, a load or a call may have
  Immediates,   \* immediate operands of the program
  Generals,     \* number of general-purpose virtual registers in use
  NParams,      \* number of parameters of the compiled function
  MaxCallArgs   \* bound on the number of arguments of a call

VARIABLES
  args,         \* argument registers, as read: the function's parameters
  gens,         \* general-purpose registers
  result,       \* the function return value register
  outgoing,     \* argument registers, as written: the next call's arguments
  event,        \* the last instruction's inputs and output
  running       \* FALSE once the function has returned

vars == <<args, gens, result, outgoing, event, running>>

Silent == [op |-> "none", in |-> <<>>, res |-> Junk]
NoArguments == [n \in {} |-> Junk]

Init ==
  /\ args \in [1..NParams -> Values]
  /\ gens = [n \in 1..Generals |-> Junk]
  /\ result = Junk
  /\ outgoing = NoArguments
  /\ event = Silent
  /\ running = TRUE

-----------------------------------------------------------------------------
(* Operands: <<"imm", v>>, <<"arg", n>>, <<"gen", n>> and <<"result", 0>>. *)

Sources ==
  ({"imm"} \X Immediates) \cup ({"arg"} \X (1..NParams))
    \cup ({"gen"} \X (1..Generals)) \cup {<<"result", 0>>}

Bases == ({"arg"} \X (1..NParams)) \cup ({"gen"} \X (1..Generals))
Targets == ({"gen"} \X (1..Generals)) \cup {<<"result", 0>>}

Value(o) ==
  IF o[1] = "imm" THEN o[2]
  ELSE IF o[1] = "arg" THEN args[o[2]]
  ELSE IF o[1] = "gen" THEN gens[o[2]]
  ELSE result

Write(o, v) ==
  \/ /\ o[1] = "gen"
     /\ gens' = [gens EXCEPT ![o[2]] = v]
     /\ UNCHANGED result
  \/ /\ o[1] = "result"
     /\ result' = v
     /\ UNCHANGED gens

Show(op, in, res) == event' = [op |-> op, in |-> in, res |-> res]

-----------------------------------------------------------------------------
(* One action per kind of virtual instruction. *)

Ordinary == running /\ outgoing = NoArguments

Move(src, dst) ==
  /\ Ordinary
  /\ Write(dst, Value(src))
  /\ event' = Silent
  /\ UNCHANGED <<args, outgoing, running>>

Compute(op, in, dst) ==
  /\ Ordinary
  /\ \E r \in Fresh : Write(dst, r) /\ Show(op, in, r)
  /\ UNCHANGED <<args, outgoing, running>>

Effect(op, in) ==
  /\ Ordinary
  /\ Show(op, in, Junk)
  /\ UNCHANGED <<args, gens, result, outgoing, running>>

Prepare(n, src) ==
  /\ running
  /\ n \notin DOMAIN outgoing
  /\ outgoing' = [m \in DOMAIN outgoing \cup {n} |->
                    IF m = n THEN Value(src) ELSE outgoing[m]]
  /\ event' = Silent
  /\ UNCHANGED <<args, gens, result, running>>

\* The callee receives arguments numbered 1..n and may compute any result.
Call ==
  /\ running
  /\ \E n \in 0..MaxCallArgs : DOMAIN outgoing = 1..n
  /\ \E r \in Fresh : result' = r /\ Show("call", outgoing, r)
  /\ outgoing' = NoArguments
  /\ UNCHANGED <<args, gens, running>>

Return ==
  /\ Ordinary
  /\ running' = FALSE
  /\ Show("ret", <<result>>, Junk)
  /\ gens' = [n \in 1..Generals |-> Junk]
  /\ UNCHANGED <<args, result, outgoing>>

Next ==
  \/ \E src \in Sources, dst \in Targets : Move(src, dst)
  \/ \E n \in 1..Generals :
       LET dst == <<"gen", n>>
       IN  \/ \E src \in Sources : Compute("add", <<Value(src), gens[n]>>, dst)
           \/ \E src \in Sources : Compute("imul", <<Value(src), gens[n]>>, dst)
           \/ \E src \in Sources : Compute("div", <<Value(src), gens[n]>>, dst)
           \/ \E src \in Sources : Compute("movslq", <<Value(src)>>, dst)
           \/ \E base \in Bases : Compute("load", <<Value(base)>>, dst)
           \/ Compute("neg", <<gens[n]>>, dst)
           \/ Compute("lea", <<>>, dst)
           \/ Compute("set", <<>>, dst)
  \/ \E src \in Sources, base \in Bases : Effect("store", <<Value(src), Value(base)>>)
  \/ \E src \in Sources, lhs \in Bases : Effect("cmp", <<Value(src), Value(lhs)>>)
  \/ \E n \in 1..MaxCallArgs, src \in Sources : Prepare(n, src)
  \/ Call
  \/ Return

Spec == Init /\ [][Next]_vars
=============================================================================
