# A TLA+ model of the MiniJava compiler

MiniJava is a compiler for a small subset of Java, written in C++14 on top of
libfirm. These modules model its own logic: how it reads a program and decides
whether it is one, how it turns trees into SSA graphs and optimizes them, how it
turns graphs into code, allocates registers and lays out calls, and how a run of
the compiler handles files, the host C compiler and failure. Every definition is translated
from the source; `PROJECT.json` ("map") says which lines each one stands for.
Paths below are relative to the repository; the compiler is in `src/core`.

- [The system](#the-system): its parts, their state, what is hard about them
- [What is modelled](#what-is-modelled): modules, and how they correspond to the code
- [The runs](#the-runs): what TLC checks, bounds, fairness, disagreements found
- [The proofs](#the-proofs): theorems, assumptions, invariants
- [What is not modelled](#what-is-not-modelled), and [the plan](#the-plan)

## The system

`minijava` reads one source file and runs a fixed pipeline. Stages call each
other directly; nothing runs concurrently inside the compiler, but it forks a
process for the host C compiler.

    cli.cpp  real_main -> run_compiler -> run_compiler_stages
       file_data -> lexer -> parser -> AST -> check_program
         -> global_firm_state, create_firm_ir -> optimize
           -> assemble: generator -> allocator -> macros -> output
             -> link_runtime -> run_subprocess -> a.out

| part | state it keeps | operations | what is hard, and what has to hold |
|---|---|---|---|
| driver (`cli.cpp`, `minijava.cpp`, `runtime/host_cc.cpp`) | the output object, two temporary files, their guards | parse options, run the stages, link | every stage can fail: success only when the output is complete, nothing left behind otherwise, an old `a.out` left alone |
| files (`io/`) | streams with buffers; a mapping or a copy of the input; guards | open, write, flush, close, finalize, clean up | output errors that show up as late as the last flush; the input and the output may be one file |
| subprocess (`system/subprocess*`) | a pipe, a child process | fork, exec, report, wait | two processes that wait for each other through a pipe; an exec that fails in the child must be reported in the parent |
| libfirm's lifetime (`irg/global_firm_state.*`) | one flag per process, a counter of live graphs | initialise, finish, guard the current program | global state that outlives a call of `real_main` |
| code generator (`asm/generator.*`) | registers of nodes, lists of instructions per block and per edge | two walks over the graph, one method per node kind | phis are parallel, code is sequential; registers must exist before they are used, also around loops |
| register allocator (`asm/allocator.*`, `asm/macros.*`) | the highest argument seen, the arguments prepared for the next call | one pass over the virtual instructions | registers and stack shared with caller and callee; alignment; order of saves and moves |
| optimizer (`opt/opt.*`) | global list of passes, worklist, node links | rounds over the passes, a worklist per graph | must end; must not stop before nothing changes; passes invalidate what others computed |
| passes (`opt/folding`, `inline`, `unroll`, `control_flow`, `conditional`, `load_store`, `tailrec`, `unused_params`, `unused_method`, `lowering`, `gc`) | per-node values, call-graph information | rewrite one graph | each must keep what the program does |
| symbol table, name and type analysis (`semantic/symbol_table.*`, `name_type_analysis.*`) | a stack of scopes, attributes on AST nodes | enter, leave, add, look up; two walks | which definitions may hide which |
| definite return, constants (`semantic/thou_shalt_return.*`, `constant.*`) | attributes of nodes | walks over the AST | 32-bit arithmetic at compile time as at run time |
| lexer, parser (`lexer/`, `parser/`) | position, one token of look-ahead | next token; recursive descent, operator precedence | agreement with the grammar; a pretty-printed AST parses to itself |
| symbols (`symbol/`) | an interning table | normalize, compare | symbols of one pool only are comparable |
| construction of graphs (`irg/`) | libfirm's current graph and block | one method per AST node | short-circuit evaluation becomes control flow and flags phis |
| runtime library (`src/runtime/mj_runtime.c`) | none beyond the C library's | new, read, write, main | memory exhausted, division by zero |

The hazards of each part, at their lines and with the properties that cover
them, are listed in `PROJECT.json` ("hazards").

## What is modelled

### Register allocation and calls

| module | what it is |
|---|---|
| `VirtualMachine` | abstract: what a listing of virtual assembly means |
| `RegisterAllocator` | the machine code `allocate_registers` emits, running |
| `MCRegisterAllocator` | values for TLC |
| `RegisterAllocatorProofs` | the inductive invariant and what follows from it; the machine code implements the virtual assembly |

`RegisterAllocator` is one invocation of one compiled function. Each kind of
virtual instruction is an action that does what the emitted real instructions
do: `Move`, `AddOrSub`, `Multiply`, `Divide`, `SignExtend`, `Load`, `Store`,
`LoadAddress`, `Negate`, `SetCondition`, `Compare`, `PrepareArgument` (a write
to an argument register, which only fills `next_call_args`), `Prologue` and
`Return`. A call is the exception: `BeginCall`, `SaveRegister`, `AlignStack`,
`PushStackArgument`, `SetRegisterArgument`, `PerformCall`, `ReleaseStack`,
`RestoreRegister`, `EndCall` are one machine instruction each, because there the
function shares registers and stack with somebody else. `IncompleteCall` and
`UnexpectedInstruction` are the two internal compiler errors.

The state is a machine: `regs`, `stack`, `sp`, `bp`. The stack is a function
from depths, counted in 8-byte slots from an aligned address, to cells; reading
a slot below `sp` is an error TLC reports. `argument_count` is what the
allocator counted in its first pass. `params` and `intended` are history: what
the caller passed, and what the arguments were worth when the call was reached.
Data operations are uninterpreted: each yields some value of `Fresh`, and
`event` shows what it was applied to, so that two machines with the same events
run the same program whatever the operations compute. Between blocks control may
go anywhere: any instruction can follow any other.

Two constants describe the program being compiled rather than the compiler.
`Uncounted` are operand positions in which the program may use a parameter that
`argument_count` overlooks; `Crossing` says whether a call may pass one of the
function's own register arguments at a lower position than the register it is
in. The code does not exclude either, and the two findings are what happens
then; with `Uncounted = {}` and `Crossing = FALSE` everything else is shown to
be right.

The implementation's rewriting of two-memory-operand instructions through r10
and r11 is part of the instruction that needs it: no value lives there longer.

### Code generation

| module | what it is |
|---|---|
| `ProgramGraph` | the part of a lowered libfirm graph the generator reads |
| `StaticSingleAssignment` | abstract: what such a graph means |
| `Generator` | the walks of class `generator`, then the listing of `get()` running |
| `MCGenerator` | six small graphs and one variation, one per difficulty |
| `GeneratorProofs` | three invariants of the walk and of the moves on edges; registers written before they are read; the listing implements the graph |

`FirstPass` is `irg_walk_blkwise_graph` over the phis followed by
`handle_parameters`. The second pass has an action for each kind of visit:
`VisitOperation`, `VisitConversion`, `VisitCompare`, `VisitDataPhi`,
`VisitFlagsPhi`, `VisitOther`, `VisitExit`. The walk may take any topological
order (`Ready`): libfirm's order is one of them. `Get` ends it; then `Execute`,
`Leave`, `MovePhi`, `Enter`, `Return` run the listing an instruction at a time.

`registers` is `_registers`, `body` and `moves` are the lists of `bb_meta`,
`jump` is the final jump of a block with its operands. An edge is a block and
the branch it takes, as the two lists `phis_on_cond_branch` and
`phis_on_fall_through` are. `graph.kind` says which visit a node gets: "op" is
every node that takes its operands as they are, "conv" one that needs its
operand in a register (a widening conversion, a load); a narrowing conversion
and a projection share the register of their operand and are part of it. A phi
of mode b ("flags") keeps a comparison, which is made again on each edge.
With `firm::set_optimize(0)` every literal has a Const node of its own; a
constant used in two places comes from a local variable (`int k = 1;`).

### The compiler driver

| module | what it is |
|---|---|
| `Command` | abstract: what `run_subprocess` promises |
| `Subprocess` | parent, child and pipe of `subprocess_posix.tpp` |
| `CompilerDriver` | `real_main` and everything it does outside the compiler proper; extends `Subprocess` |
| `MCCompilerDriver` | command lines for TLC |
| `CompilerDriverProofs` | two inductive invariants, Told and Kept, and what follows |

`Subprocess` has an action for each system call: of the parent `CreatePipe`,
`Fork`, `CloseWriteEnd`, `ReadCode` / `ReadEndOfFile` / `ReadFails`, `Wait` /
`WaitFails`; of the child `CloseReadEnd`, `Execute` (which may fail),
`WriteError`; and `Killed` and `CommandEnds` for what happens to it. The pipe is
modelled by who has which end open, since the protocol rests on it: a successful
exec closes the child's write end, and the parent learns of success by reading
the end of the file. Calls interrupted by a signal are repeated and are
stuttering steps; `errno` is not modelled.

`CompilerDriver` is one process that may call `real_main` again and again, as
the unit tests do. `pc` is the place in `real_main` and its callees, `raised`
says that an exception is on its way. A file has contents, a stream may be dirty
(something is in its buffer), and every operation on a file may fail; a flush
may lose what was buffered. Destructors are part of the way out: `LeaveLink`
(the runtime source and its guard), `LeaveStages` (the assembly, its guard, and
libfirm), `Leave` (output and input). Exceptions and normal returns take the
same way, so there is one action for each. What is wrong with the program
(`source`) is an input, drawn at `Call`. `HostCompilerEnds` is external: the host compiler
makes a program out of two complete files and something "wrong" out of others.

Abstracted: logging, the text of options and errors, the stack limit; that
removing a temporary file succeeds; libfirm's own dumps, which have no error
path in this code. Bound: no further call is made while a child is left that
could not be waited for (`Abandoned`); the real process may do so, but the child
then writes to the first call's files.

### Text to trees

| module | what it is |
|---|---|
| `Lexer` | the scanning automaton of `lexer.tpp`, a step per character |
| `LexerProofs` | theorems about it: positions, longest tokens |
| `AbstractSyntax` | the nodes of `ast.hpp`: one constructor per class |
| `SyntaxGrammar` | reference: the grammar `syntaxgen.tpp` writes down |
| `Parser` | the recursive descent of `parser.tpp`, with its look-ahead and its expected tokens |
| `PrettyPrinter` | `pretty_printer.cpp`, as the sequence of tokens it prints |
| `MCSyntax` | small texts, and programs that grow token by token; the properties |

`do_advance` skips white space and then calls the routine for the next character;
a step of `Lexer` is one character of one of these: `skip_white_space`,
`scan_identifier`, `scan_integer_literal`, `maybe_token` (with its chains of
alternatives as the table `Longer`), `OpenComment`, `skip_block_comment`. `scanning`
is what the routine has so far (`_lexbuf`, `_current_token`, the state of the
comment's automaton) and where it began (`current_position`). The routines have no other
state, so what ends a token is the character at which the routine returns.

A parse function maps the state of the parser to its next one, as a member
function does; `at` goes back when a token is put back. Nothing is said about
trees that no text denotes. `Sentence` and `Viable` of the grammar (is this a
program; can it become one) do not know how the parser works.

### Trees to graphs

| module | what it is |
|---|---|
| `Scoping` | abstract: what nested scopes promise |
| `SymbolTable` | the stack of scopes of `symbol_table.tpp` and the check for conflicts |
| `SymbolTableProofs` | theorems about it: what may be hidden, and that it implements `Scoping` |
| `MachineIntegers` | two's complement of `IntBits` bits |
| `NameTypeAnalysis` | both visitors: names, types, every error, the attributes of nodes |
| `CompileTimeConstants` | `constant.cpp` |
| `Semantic` | `check_program`: built-in classes, user classes, definite return, constants |
| `FirmGraph` | external: libfirm's construction of graphs, and what a whole method means |
| `MethodBuilder` | every visit of `method_builder.cpp`, types, globals |
| `MiniJava` | reference: what a program means, on its tree alone, with types at run time |
| `Frontend` | `CreateFirmIr` after `check_program`, and the properties |
| `SymbolPool` | symbols and pools: moved, swapped, destroyed, their memory used again |
| `SymbolPoolProofs` | theorems about them: valid symbols read their texts and compare as these do |
| `MCFrontend` | the programs |

`phase` is how far the program is, `info` the attributes (a map per attribute,
from paths in the tree), `consts` the constants, `graphs` a graph per method. An
expression visitor is the graph so far with the visitor's members `do_store` and
`var_id`; a value in the graph that has no node or block is node 0, and using it
sets `broken`. Graphs are run by `RunMethod`, block by block, with the memory as
a value that is passed along: an operation the memory chain leaves out has no effect.

### The optimizer

| module | what it is |
|---|---|
| `FirmNodes` | nodes and their rewriting (`exchange`), what nodes without effects compute, values known at compile time, helpers of `opt.hpp` |
| `FirmPasses` | external: libfirm's walks, `remove_unreachable_code`, `remove_bads` |
| `Folding` | `folding.cpp` and `conditional.cpp`: what they do with one node, and what they rely on (`WellFormed`) |
| `GraphRun` | abstract: what a graph does, an operation or an edge at a time |
| `ValuePasses` | both passes over one graph, a node of the worklist per step; then the graph runs |
| `ValuePassesProofs` | theorems about them: values are right, and the meaning is kept |
| `MemoryPasses` | `load_store.cpp`, `gc.cpp`, `unused_method.cpp` |
| `ControlFlow` | `control_flow.cpp` and `ssa_helper.cpp` |
| `Loops` | `tailrec.cpp`, and the search for loops of `unroll.cpp` |
| `Inliner` | `inline.cpp` |
| `Optimizer` | `opt.cpp`: options, rounds, the worklist; the properties |

One action is one pass over all graphs: `Worklist` for the passes with a queue,
and `ControlFlow_`, `TailRecursion_`, `Unroll`, `UnusedMethod`, `Inlining`;
`NextRound` and `LastRound` end a round. Inside, a worklist pass is a record
with the graph, the values linked to nodes and the queue, and `run` takes a node
at a time from it. A block that is split keeps its number for the upper half,
since the first block is always number 1; nodes are numbered again, operands
first, at each `remove_bads`.

`ValuePasses` has the same handlers (`handle_value`, `cleanup_value`) in smaller
steps: `Handle` takes one node off the queue (`worklist::run`), `BeginCleanup` and
`Cleanup` are the second walk, and the walk is in any order `WalkOrder` gives. `work` is the
record of the pass. When it is done the graph as it was (`source`) runs, by
`GraphRun`: a block computes each of its nodes once, operands first; what is not
arithmetic yields any value and is an `event`, with its operands; control takes the
edge its condition selects, and the Phis of the block it enters change all at once.
`KeepsMeaning` says that `work.g`, with the values of the nodes that are left, does
the same: same events, same edges, no node computed from what is not there. The
removal of what cannot be reached, libfirm's, is not part of it.

What is abstracted: keep-alive edges (programs that do not end are not compared);
the order in which libfirm lists users where it does not matter for a result; a
member's entity is its name. Links of nodes are fresh in every pass. The inliner
leaves out its estimate of what a call is worth, since every method of fewer
than 30 nodes is worth it, and the limits of 1024 nodes and 100 calls, which
programs of this size do not reach. Methods that lead nowhere but to themselves
may be inlined in any order. libfirm folds nothing on its own
(`set_optimize(0)`, `global_firm_state.cpp`).

`unroll` never finds a loop to take apart, and the model says so by making any
such graph useless: the condition of an if or a loop is `Cmp(Mux(..), 1)`, no
pass takes the Mux away (`conditional.cpp` has that line commented out), and
`is_const_loop` wants a Phi there. It is looked for with fewer conditions than
the code has, so that is not an accident of the bounds of loops.

## The runs

All with `tlc -workers 2 -config <run>.cfg <module>`. Deadlock is not checked:
functions return, compilers exit, and the bounded number of calls runs out.

| run | module | distinct states | shows |
|---|---|---|---|
| `alloc_registers` | `MCRegisterAllocator` | 151 658 | the inductive invariant, the frame, the saved registers, and the refinement of `VirtualMachine` |
| `alloc_stack_args` | `MCRegisterAllocator` | 187 166 | arguments on the stack, in both parities |
| `gen_graphs` | `MCGenerator` | 16 214 | registers, moves and the refinement of `StaticSingleAssignment`, for every order of the walk and every path |
| `compiler` | `MCCompilerDriver` | 326 762 | all promises of the driver and the subprocess, and that every call ends |
| `syntax` | `MCSyntax` | 84 181 | the lexer against longest match, the parser and the printer against the grammar |
| `frontend` | `MCFrontend` | 176 620 | analysis, construction and optimization of small programs against what they mean; folding and conditions node by node; the table and the pools under any sequence of calls |
| `alloc_crossed`, `alloc_uncounted`, `alloc_odd_stack` | `MCRegisterAllocator` | | findings, below |
| `gen_swap`, `gen_constant` | `MCGenerator` | | findings, below |
| `compiler_input` | `MCCompilerDriver` | | finding, below |

**Bounds of the allocator runs.** Two argument registers instead of six (one in
`alloc_stack_args`), one general register, a function with one more parameter
than registers, and calls with one argument more than registers, or with up to
three on the stack. The code treats all registers alike and all stack arguments
alike, distinguishing only first, last and the border between the two kinds,
and all of these occur. Any number of calls follow each other. The theorems
remove the bounds. `TypeOK`, `StackBalanced` and `NoMissingArgument` are theorems
that follow from `IInv`; the run checks `IInv`.

**Bounds of the generator run.** Five graphs: a short circuit with a comparison
kept in a phi, the same with a constant operand, a loop whose phi is used after
it, a branch both ways of which lead to one block, and a constant needed in a
register several times where the first load dominates the others. Results of operations
are two values, enough to tell a value from another that overwrote it.
What the theorems assume of a graph, `Uncrossed` (no phi takes another phi of its
block as operand), `LoadsOnce` (no constant is needed in a register in two blocks)
and `Strict` (definitions dominate uses), are ASSUMEs that TLC evaluates for these
graphs. `Swap` and `Siblings`, the graphs of the findings, are strict too, but
one is not uncrossed and the other loads twice (`MCGraphsCovered`).

**Bounds of the compiler run.** Two calls per process (the second is the first
to find libfirm finished), every stage with every kind of output, a list of
passes with a repetition, every place where something may fail. Nothing in
the code counts calls.

**Bounds of the syntax run.** Every text of up to four of nine characters (one
letter stands for all, 0 and 1 for the digits), every text of six of `/`, `*` and
line feed, every text of five of `<`, `>`, `=`, `&`. Programs grow in twelve
contexts (classes, members, main methods, statements, two groups of operators,
calls, arrays, ...) by up to six tokens of the five to ten that matter there,
ten in a main method's head; every prefix and its completion is judged.

**Bounds of the front end run.** Integers have 4 bits, so that every operation
can overflow; 8 and 9 are the literals at the border. A run has 6 steps (blocks
and calls in a row) and one byte of input; what is not finished by then is not
compared. `Sets` are some 6 400 programs: two operands of every kind under every
operator, short circuits in short circuits, three statements of control flow,
declarations in nested blocks, main methods, repeated members. The optimizer gets
another 89, made for its passes: constants that fold, fields that are read and
written through two names, empty blocks, six ways to end with a call of the same
method, methods that call each other; each with the default list, with a list in
reverse order without inlining, and with folding alone. `MaxDepth` is 2 instead
of 20. The table has two names, two declarations, three scopes; two pools share
four cells of memory. The two graphs of `ValuePasses` have what is difficult for
folding and conditions: `LoopGraph` a Phi that is handled before the sum in the
loop that it depends on, a difference of equal nodes and a product with
zero; `BranchGraph` two decided conditions, one of which selects by way of two
Muxes and the other of which decides where control goes, and Phis of both kinds that
nothing decides. An operation may yield 0, 3 or -8, the value that is its own negative.

**Fairness.** Only `CallEnds` needs any. The compiler's own steps, the parent's
and the child's are weakly fair: each is a thread of control the system keeps
scheduling. The host compiler is assumed to end some time; the code relies on
that too, since `waitpid` has no time limit. Failures and signals have no fairness:
nothing may depend on their happening. Actions that can fail or succeed are fair
as a whole, not in either outcome. `CallEnds` would fail if parent
and child could wait for each other (the mutant that leaves the parent's write end open shows it).

**What the properties say.** Each is stated above its definition. The ones to
argue about: `OwnArgumentsPreserved`, `ArgumentsDelivered` and `Implements` of
the allocator; `EdgeMovesParallel` and `DefinedBeforeUse` of the generator;
`SuccessMeansDone`, `LinkerSeesCompleteFiles`, `NoTemporaryLeft`,
`DefaultOutputKept`, `OptimizedAsRequested`, `ReportsTruly` of the driver;
`ErrorAtFirstImpossibleToken` (however far the parser read ahead),
`ExpectedTokensPossible` and `PrintedTextParses` of the front;
`AcceptedProgramsRun`, `GraphsDoWhatTheTreeSays` and `HidesOnlyWhatMayBeHidden`
of the front end; `OptimizedProgramsBehaveTheSame` after every round and
`ReportedChangesShrink`, the measure that ends the rounds: calls that may still be
inlined, then calls, then nodes and blocks (tail recursion adds nodes but removes
a call, inlining adds calls but leaves fewer that may be inlined). Each
property of a passing run has a plausible bug, a definition beside the correct
one, that TLC finds with it (`PROJECT.json`, "mutants"). `GraphsAreWellFormed` says
of every graph a pass may get what `ValuePasses` assumes of its inputs;
`LinkedValuesHold` and `KeepsMeaning` are about every run of a graph, also those
that do not end.

**Disagreements found.** Each is a run that ends in a counterexample:

- `alloc_crossed`: arguments are moved into registers one at a time, so
  `g(this, b, 0)` in `f(this, a, b)` passes 0 twice.
- `alloc_uncounted`: a parameter that is only used as an address or as the
  second operand of a comparison is not saved around calls.
- `alloc_odd_stack`: the stack is aligned before an odd number of arguments is pushed.
- `gen_swap`: `while (p < q) { int t = p; p = q; q = t; }` loses a value, since
  phi moves are made one after the other.
- `gen_constant`: a constant loaded into a register in one branch is used in
  the other, where it was not loaded.
- `compiler_input`: if the output is the input file, the mapped input is
  truncated before it is read; the documentation promises it was loaded.

With the allocator's findings assumed away, the rest of the calling sequence is
correct, and likewise for the generator. The driver has no other.

**Known differences.** The properties of the front end and of the optimizer make
exceptions for what the code does otherwise; each is named where it is made.

- A line feed that is the very first character of a text is not counted.
- A statement that begins `int [` without `]` is reported at its type
  (`ErrorPlace`). After `new int` an error names "(" as possible, which is then
  refused. `-5[0]` is parsed as `(-5)[0]`.
- Printing loses empty statements that are no body, and the tree of
  `-(2147483648)`, which is refused, is printed as `-2147483648`, which is not (`Normal`).
- `f() == g()` with two void methods is accepted (a FIXME at
  `name_type_analysis.cpp:784`), and the graph is then built with a null node,
  which a comment in `method_builder.cpp` says is never used (`ComparesVoid`).
- A local variable is visible in its own initial value, a call on null reaches
  the method, and an index is not checked: such programs are "undefined".
- A pool that another was move-constructed from has no anchor
  (`symbol_pool.tpp:46`): what it hands out later never counts as its own. Moving
  a pool to itself empties it. Two symbols of dead pools count as compatible.
- `load_store` drops loads nobody uses and `gc` arrays nobody reads, with the
  error they would have ended in; so only programs that end by themselves are compared.
- `conditional` never reports a change, which `opt.hpp:36` asks of every pass.
  `folding` compares a node's new value with itself (`folding.cpp:147`) and never
  queues a node again: harmless, since a value that was linked stays right (`LinkedValuesHold`)
  and a node without one is not replaced: at worst something is not folded.
  Divisions are never folded: their operands are conversions.
- `tailrec` reads the mode of a null pointer for a parameter nobody uses
  (`tailrec.cpp:158`; `ReadsNull`).
- `ssa_helper` drops an edge if the false branch comes first where its comment
  (`ssa_helper.cpp:28`) says the order does not matter; with the lists of passes
  checked here no graph gets there (`LosesAnEdge`).
- The inliner asserts that a method it copies returns somewhere (`inline.cpp`, `arity > 0`);
  one that never does fails it. What a call is worth is computed from counts of
  the called graph that may not have been made yet. `unroll` would miscount
  `i = 1 - i`, if it ever applied.

## The proofs

`tlapm` proves these for every value of the constants: any number of registers,
parameters, arguments and values; any set of well-formed graphs; any set of
command lines and any number of calls; any names, declarations and depth of
scopes; any number of pools, symbols and texts; any text over any characters; any
set of well-formed graphs of nodes, any order of the walk and integers of any width.
What is assumed of the constants is
named: `RegistersAssumption`, `ProgramAssumption`, `GraphsAssumption`,
`SetupsAssumption`, `SymbolAssumption`, `LayoutAssumption`, `TextsAssumption`,
`AnchorsAssumption` (the allocator finds an address that no anchor in use has),
`InputsAssumption` (a pass gets well-formed graphs, which `GraphsAreWellFormed`
checks of those that come out of construction and every pass, and libfirm walks over nodes),
`ResultsAssumption` (operations yield integers), `IntBitsAssumption` (integers have a
bit, and what powers of two are),
`CharacterClasses` (letters, digits, white space and operators have no character in
common) and `PunctuationAssumption` (the chains of `maybe_token` lead to every
spelling in the table of token types), all evaluated by TLC on the instances.

**Allocator.** `Invariance` proves `IInv`, and the others follow from it:
`TypeCorrect`, `Balanced`, `Returns`, `NothingMissing`, `EvenCallsAligned`, and
under the assumption named in each statement `ArgumentsPreserved` (for
`Uncounted = {}`) and `Delivered` (for `Crossing = FALSE`). The properties are
about the start and the end of a call; `IInv` says for each stage in between
what is where: which registers still hold parameters, which have been saved in
which slot, where the old stack pointer is (twice, below an alignment gap whose
size depends on the run), and which arguments have been passed. `AtEntry`,
`InBody`, `InSave`, `InPush`, `InCalled`, `InRestore` are the stages, and the
proof has a lemma for every action. `Refinement` proves `Implements` from it:
each instruction is the abstract instruction on the mapped state, and
every step of the call sequence except `PerformCall` stutters.

**Generator.** `RegistersAllocated`: an order of the walk never matters, because
`RegistersKnown` holds (phis and parameters have registers from the first pass,
and whatever else is used was visited before). `EveryPhiMovedOnce`: from
`MovesKnown`, the list of every edge has exactly one move per visited phi of the
target, with that edge's operand. `MovesAreParallel`, for graphs that are
`Uncrossed`: while the moves of an edge are made (`InParallel`), phis already
moved have their new value and the operands of the others are unchanged.

`ListingImplementsGraph` proves `Implements`, for sets of graphs that are uncrossed and
load once; `gen_swap` and `gen_constant` show what happens without either. Two
invariants carry it. `ListingKnown`: during the walk the list of a block holds
exactly the visited nodes it is to compute and the constants loaded for them,
each once and after what it reads (`Ordered`); a visit appends loads and then at
most its own node, and no later visit comes between. `RunKnown`: while the listing
runs, what is behind `pos` in the block's list has been done, and constants loaded there hold
their value. Then an instruction at `pos` is the next computation of the graph, a
load is a stutter, and the moves of an edge together are its parallel assignment
(`InParallel`). `RegistersWrittenFirst` adds `Strict`: everything in a block that
dominates the current one has been written (`DefinedKnown`). A block that control enters
has the same dominators as the block it comes from, but for itself
and that block, which is why dominance is stated with a set of blocks that control cannot
leave except through the dominator. It also assumes that the unwritten value
`Junk` is no pair, since a comparison of two registers yields one. `GeneratorTypes`
needs none of these assumptions.

**Driver.** `Told` relates the parent's place in the protocol to the child's,
to the open ends of the pipe and to what is in it. `Truth` uses it to prove that
`Subprocess` implements `Command`. `Kept` relates the compiler's place to
everything else, in named parts: `Progress` (how far which input gets),
`Registered` (libfirm and the passes), `Connected` (the output object and the
only streams that are open), `Guarded` (temporary files and guards), `Waited`
(the subprocess and who waits for it), `Produced` (what the destination holds on
the way to success). Each part has a lemma with one step per action. From `Kept`
follow `Typed`, `Success`, `CompleteFiles`, `TemporariesRemoved`,
`Optimizations` and `OlderProgramKept`.

**Symbol table.** `HiddenMayBe`: of two open scopes the outer one may be shadowed
or they have no name in common. The step that matters is `AddDef`: a definition
that conflicts with nothing is declared in no scope that may not be hidden
(`NoConflict`), although the code looks only at the innermost of the scopes that
count. `Refinement` proves `ImplementsScoping`: the meaning of a name in a scope
depends on that scope and those around it only (`MeaningDependsOnOuter`) and is
its own declaration or else the meaning outside (`MeaningIsInnermost`), so
entering, leaving and adding do to the table of meanings what `Scoping` says. The
innermost scope is the largest index of a set of them, which exists since the
order of the naturals is well-founded (`Minimum`, `Maximum`).

**Pools.** `PoolsOwnTheirEntries`: `Kept` says that no two pools have one anchor,
that entries of all pools are in memory that is theirs alone and read the text they
were made of up to their NUL (`PoolsKnown`), and that a symbol whose anchor belongs
to a pool has its entry in that pool (`SymbolsKnown`). Construction needs an anchor
that no symbol that outlived its pool still holds; `normalize` writes to cells that no entry owns; a
move, a swap or an assignment rearranges whole pools, entries with
anchors (`Rearranged`), and destruction frees a pool's cells and its anchor together.
From `Kept` follow `ValidSymbolsRead` and `SymbolsCompareTexts`: symbols of one
pool with different entries have different texts, as `normalize` only adds what `find` does
not find. The exceptions are those of the code's own check: symbols of dead pools are not valid.

**Lexer.** `PositionsAreTrue`: the cursor and the place where the current token
began count their line feeds (`PositionsInv`), and `next` counts one more exactly where
the set `Feeds` grows. `TokensAreTheLongest`: besides the property itself, the
invariant `LongestInv` says that only white space and comments lie between the last
token and the place where the current one began, and what is known of the
characters since: all of the class of a word or number, exactly the spelling of
the operator so far, or a comment that nothing has closed yet, whose
automaton is in `q1` exactly after a star (`PartOfToken`, `PartOfComment`). A token
that ends is the longest because any longer lexeme would contain the character at
which the routine returned (`LongestIdentifier`, `LongestNumber`,
`LongestPunctuation`). That a refused text cannot be divided otherwise
(`BlankEnds`) rests on `SkippedOnce`: white space or a comment at a place
ends at one other place only, so two ways to cut the same stretch agree cut by cut.

**Folding and conditions.** `ValuesHold` proves `LinkedValuesHold`. What a pass
knows is a fixed point in the making: a value is linked to a node only if what it now
knows of the operands gives the same (`Consistent`). Learning more never changes a
value a node has: its operands keep the values it was computed from (`OperandsKeepValues`,
`TarvalsKeepValues`), and a Phi has a value, or `BadTarval`, only when all its operands up
to the one that decides are known. So the order of the
queue does not matter for what is right, nor that nodes are not queued again. While the graph runs,
what is computed has the kind of its mode (`ComputedValues`: a truth value
for mode b, else an integer), and a node with a value is computed from nodes with
values or does not depend on the others (`FoldedIsComputed`, `ConditionalIsComputed`:
`x - x`, `0 * x`, `x == x`). A Phi yields what its operand on the edge taken
yields, which is the value all of them have (`PhisAgree`); so no
induction over the graph is needed, only over the run. `WrapIsTheInt` says that what
the passes compute is the one int that differs from the exact result by a multiple
of 2^32 (2^`IntBits`), as the machine's is.

`MeaningKept` proves `KeepsMeaning`. `Rewritten` is the invariant of the second walk:
nodes keep their number, block and operation, or are gone; every operand and every
predecessor of a block is what it was or what stands for it (`Stands`), a constant with the
node's value, a jump in the block of a decided condition, or a Bad where the condition
is decided otherwise. Replacing one more node keeps it (`FoldingKeepsRewritten`,
`ConditionalKeepsRewritten`). Then computing a node of the source is computing it in what is
left, from the same operands (`KnownAfter`), or a stutter if it is gone
(`ComputeKeepsMeaning`): one that is gone has a value and so performs no operation
(`EffectsHaveNoValue`). An edge that is taken can be taken in what is left
(`TakenAfter`): a Bad stands only for edges whose condition yields the other truth
value, and the jump is in the block control leaves, because a condition is
decided only where it was compared (`NodeAllowed`), which holds as libfirm's graphs
are made here and would not in general.

**Only model-checked.** `CallEnds` (liveness is beyond the prover), and what the runs
`syntax` and `frontend` show of the parser, the printer, the analysis, the
construction of graphs and the rest of the optimizer: trees and graphs are recursive
data, over which the prover has no induction, and the functions on them are
RECURSIVE operators. `GraphsAreWellFormed` is one of these, so that it is for TLC
to say that the graphs of small programs are such as the theorems assume.

## What is not modelled

- Assembly output (`data.cpp`, `output.cpp`), messages, the C translator, the
  generators of test inputs: text without state.
- Lowering (`lowering.cpp`), which is three calls of libfirm.
- `unused_params`, which is commented out of the list of passes (`opt.cpp:41`),
  and what `unroll` would do to a loop (`do_unroll`), since it never applies.
- The storage policies of attribute containers: an attribute is a function.
- Hashes of symbols; memory that runs out in the runtime library; the stack limit.
- Windows and the generic fallback of `run_subprocess`.
- `_visit_cond` on a constant condition (`generator.cpp:857`): the code passes
  the wrong node to libfirm, and what comes back is not this code's to say. A
  store through a constant pointer (`generator.cpp:768`) stops on an assertion.

## The plan

The order was: what decides whether compiled programs run correctly (allocator,
generator), then what touches the world (driver, subprocess), then the front end
and the optimizer. All safety properties that the runs check of the allocator, the
generator, the driver, the lexer, the symbol table, the pools, constant folding and
constant conditions are theorems. What is left to prove:

1. The other passes in small steps, as `ValuePasses` is for two of them:
   `load_store` first, whose walks along the memory chain would become actions.
2. That a round with passes that report truly ends only when nothing changes. It
   needs the passes as parameters, as they are recursive.
3. `remove_unreachable_code` and `remove_bads` as a refinement: renumbering is a
   bijection between two graphs.

Not planned: the rest of the generator on null pointers and memory (its graph has
neither), and instruction widths in `output.cpp`.
