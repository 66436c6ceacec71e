--------------------------- MODULE CompilerDriver ---------------------------
(***************************************************************************)
(* real_main and everything it does outside the compiler proper            *)
(* (src/src/core/cli.cpp, runtime/host_cc.cpp, io/, irg/global_firm_state) *)
(* : the files it opens, the stages it runs and may stop after, the        *)
(* temporary files and their guards, the call of the host C compiler, and  *)
(* what is undone on the way out when anything fails.                      *)
(*                                                                         *)
(* One process may call real_main several times, as the unit tests do:     *)
(* libfirm's state and the list of registered optimizations are global.    *)
(* Any operation on a file may fail.  What is left in a stream's buffer    *)
(* is written when the stream is flushed or closed.                        *)
(***************************************************************************)
EXTENDS Subprocess, Naturals, Sequences

CONSTANTS
  Setups,  \* parsed command lines: [stage, output, optimizations]
  MaxCalls \* bound on the calls of real_main in one process

Stages == {"input", "lexer", "parser", "print_ast", "semantic",
           "dump_ir", "dump_ir_opt", "compile_firm", "default"}
Printing == {"input", "lexer", "print_ast"}
Compiling == {"compile_firm", "default"}
Temporary == {"asm", "runtime"}
Named == {"-", "out", "in"} \* values of --output; "in" is the input file itself
Files == {"stdout", "in", "out", "a.out"} \cup Temporary

ASSUME SetupsAssumption ==
  /\ Setups # {}
  /\ Setups \subseteq [stage : Stages, output : Named, optimizations : Seq(STRING)]
  /\ MaxCalls \in Nat

VARIABLES
  pc, setup, source, \* source: which stage, if any, finds an error in the input
  input,      \* how the input is held: "none", "loaded" or "mapped" (file_data)
  out,        \* file the output object of real_main is connected to
  files,      \* file -> its contents
  streams,    \* file -> "closed", "open", or "dirty" with something in its buffer
  guards,     \* file_cleanup objects
  keep,       \* MINIJAVA_KEEP_TEMPORARY_FILES, read once per process
  firm,       \* libfirm: "fresh", "live", "finished"
  registered, \* the global list of optimizations
  raised, result, calls

driver == <<pc, setup, source, input, out, files, streams, guards, keep,
            firm, registered, raised, result, calls>>
vars == <<driver, subprocess>>

Sources == {"good", "lexical", "syntax", "semantic"}

Places ==
  {"idle", "load", "open", "run", "print", "check", "firm", "optimize", "output",
   "open_asm", "emit", "close_asm", "open_runtime", "write_runtime", "close_runtime",
   "link", "leave_link", "leave_stages", "finalize", "leave", "killed"}
Contents == {"absent", "old", "empty", "partial", "text", "program", "wrong"}
Streams == {"closed", "open", "dirty"}
Registrable == {<<>>} \cup {s.optimizations : s \in Setups}

\* Every variable has a value of its kind; the registered optimizations are
\* those of one command line, and between calls nothing is left open, guarded
\* or in libfirm (the destructors of real_main's and its callees' objects).
ControlTypeOK ==
  /\ pc \in Places
  /\ setup \in Setups
  /\ source \in Sources
  /\ input \in {"none", "loaded", "mapped"}
  /\ raised \in BOOLEAN
  /\ result \in {"none", "answered", "success", "failure"}
  /\ calls \in 0..MaxCalls

StoreTypeOK ==
  /\ out \in Files \cup {"none"}
  /\ files \in [Files -> Contents]
  /\ streams \in [Files -> Streams]
  /\ guards \subseteq Temporary
  /\ keep \in BOOLEAN
  /\ firm \in {"fresh", "live", "finished"}
  /\ registered \in Registrable

DriverTypeOK == ControlTypeOK /\ StoreTypeOK

AtRest ==
  /\ guards = {}
  /\ firm # "live"
  /\ input = "none" /\ out = "none"
  /\ \A f \in Files : streams[f] = "closed"

TypeOK == SubprocessTypeOK /\ DriverTypeOK /\ (pc = "idle" => AtRest)

Init ==
  /\ SubprocessInit
  /\ pc = "idle"
  /\ setup = CHOOSE s \in Setups : TRUE
  /\ source = "good"
  /\ input = "none"
  /\ out = "none"
  /\ files = [f \in Files |-> IF f \in Temporary THEN "absent" ELSE "old"]
  /\ streams = [f \in Files |-> "closed"]
  /\ guards = {}
  /\ keep \in BOOLEAN
  /\ firm = "fresh"
  /\ registered = <<>>
  /\ raised = FALSE
  /\ result = "none"
  /\ calls = 0

-----------------------------------------------------------------------------
(* Control, and the operations of a file_output.                           *)

Goto(p) == pc' = p /\ UNCHANGED raised
Throw(p) == pc' = p /\ raised' = TRUE
ThenOrThrow(p, h) == Goto(p) \/ Throw(h)

Opened(f) ==
  /\ files' = [files EXCEPT ![f] = "empty"]
  /\ streams' = [streams EXCEPT ![f] = "open"]

Written(f) ==
  /\ files' = [files EXCEPT ![f] = "partial"]
  /\ streams' = [streams EXCEPT ![f] = "dirty"]

Flushed(f) == IF streams[f] = "dirty" THEN "text" ELSE files[f]
\* What is buffered may be lost when the device is full, and nobody is told.
Lost(f) == IF streams[f] = "dirty" THEN "partial" ELSE files[f]

\* close() and flush() throw when they fail, and the stream is closed for good.
Close(f, next, handler) ==
  /\ streams' = [streams EXCEPT ![f] = "closed"]
  /\ \/ files' = [files EXCEPT ![f] = Flushed(f)] /\ Goto(next)
     \/ files' = [files EXCEPT ![f] = Lost(f)] /\ Throw(handler)

-----------------------------------------------------------------------------
(* real_main up to the compiler stages.                                    *)

\* parse_cmd_options: help, version and the list of optimizations end the call,
\* and so does an invalid command line.
Answer ==
  /\ pc = "idle" /\ calls < MaxCalls
  /\ calls' = calls + 1
  /\ result' \in {"answered", "failure"}
  /\ UNCHANGED <<pc, setup, source, input, out, files, streams, guards, keep,
                 firm, registered, raised, subprocess>>

\* Bound: no call is made while a child is left that could not be waited for.
Abandoned == child \in {"close", "exec", "write", "running"}

Call ==
  /\ pc = "idle" /\ calls < MaxCalls
  /\ ~Abandoned
  /\ calls' = calls + 1
  /\ setup' \in Setups
  /\ source' \in Sources
  /\ files' = [files EXCEPT !["in"] = "text", !["stdout"] = "empty"]
  /\ pc' = "load" /\ raised' = FALSE /\ result' = "none"
  /\ UNCHANGED <<input, out, streams, guards, keep, firm, registered, subprocess>>

\* A file is mapped if that is possible and not disabled, and read otherwise.
LoadInput ==
  /\ pc = "load"
  /\ \/ Goto("open") /\ input' \in {"loaded", "mapped"}
     \/ Throw("leave") /\ UNCHANGED input
  /\ UNCHANGED <<setup, source, out, files, streams, guards, keep,
                 firm, registered, result, calls, subprocess>>

\* A plausible bug: the default output is opened when all others are.
OpenOutputByDefault ==
  /\ pc = "open"
  /\ LET f == IF setup.output = "-" THEN "a.out" ELSE setup.output
     IN  Goto("run") /\ out' = f /\ Opened(f)
  /\ UNCHANGED <<setup, source, input, guards, keep,
                 firm, registered, result, calls, subprocess>>

OpenOutput ==
  /\ pc = "open"
  /\ IF setup.output = "-"
     THEN Goto("run") /\ out' = "stdout" /\ UNCHANGED <<files, streams>>
     ELSE \/ Goto("run") /\ out' = setup.output /\ Opened(setup.output)
          \/ Throw("leave") /\ UNCHANGED <<out, files, streams>>
  /\ UNCHANGED <<setup, source, input, guards, keep,
                 firm, registered, result, calls, subprocess>>

\* A mapping of a file that has been truncated cannot be read: SIGBUS.
Readable == input = "mapped" => files["in"] = "text"

ReadTruncated ==
  /\ pc = "run"
  /\ ~Readable
  /\ Goto("killed")
  /\ UNCHANGED <<setup, source, input, out, files, streams, guards, keep,
                 firm, registered, result, calls, subprocess>>

-----------------------------------------------------------------------------
(* run_compiler and the stages that only read.                             *)

StageKeeps == UNCHANGED <<setup, source, input, out, guards, keep,
                          firm, registered, result, calls, subprocess>>

\* Echoed, or printed token by token until an error is found.
PrintInput ==
  /\ pc = "run"
  /\ Readable
  /\ setup.stage \in {"input", "lexer"}
  /\ Written(out)
  /\ IF setup.stage = "lexer" /\ source = "lexical"
     THEN Throw("leave")
     ELSE ThenOrThrow("finalize", "leave")
  /\ StageKeeps

Parse ==
  /\ pc = "run"
  /\ Readable
  /\ setup.stage \notin {"input", "lexer"}
  /\ IF source \in {"lexical", "syntax"}
     THEN Throw("leave")
     ELSE \/ setup.stage = "parser" /\ Goto("finalize")
          \/ setup.stage = "print_ast" /\ Goto("print")
          \/ setup.stage \notin {"parser", "print_ast"} /\ Goto("check")
  /\ UNCHANGED <<files, streams>>
  /\ StageKeeps

PrintAst ==
  /\ pc = "print"
  /\ Written(out)
  /\ ThenOrThrow("finalize", "leave")
  /\ StageKeeps

CheckProgram ==
  /\ pc = "check"
  /\ IF source = "semantic"
     THEN Throw("leave")
     ELSE Goto(IF setup.stage = "semantic" THEN "finalize" ELSE "firm")
  /\ UNCHANGED <<files, streams>>
  /\ StageKeeps

-----------------------------------------------------------------------------
(* The stages that need libfirm, up to the assembly.                       *)

FirmKeeps == UNCHANGED <<setup, source, input, files, streams, guards, keep,
                         result, calls, subprocess>>

\* A plausible bug: a second call finds libfirm as the first one left it.
InitializeFirmAgain ==
  /\ pc = "firm"
  /\ firm' = "live"
  /\ Goto(IF setup.stage = "dump_ir" THEN "leave_stages" ELSE "optimize")
  /\ UNCHANGED <<out, registered>>
  /\ FirmKeeps

\* libfirm can be initialised only once per process.
InitializeFirm ==
  /\ pc = "firm"
  /\ \/ /\ firm = "fresh"
        /\ firm' = "live"
        /\ Goto(IF setup.stage = "dump_ir" THEN "leave_stages" ELSE "optimize")
     \/ firm # "fresh" /\ Throw("leave") /\ UNCHANGED firm
  /\ UNCHANGED <<out, registered>>
  /\ FirmKeeps

Optimize ==
  /\ pc = "optimize"
  /\ registered' = registered \o setup.optimizations
  /\ Goto(IF setup.stage = "dump_ir_opt" THEN "leave_stages" ELSE "output")
  /\ UNCHANGED <<out, firm>>
  /\ FirmKeeps

LinkKeeps == UNCHANGED <<setup, source, input, keep, firm, registered, result, calls>>

\* From now on the output defaults to a.out: a stream without a file name is
\* replaced, and the old one flushed.
DefaultOutput ==
  /\ pc = "output"
  /\ IF out = "stdout"
     THEN \/ Goto("open_asm") /\ out' = "a.out" /\ Opened("a.out")
          \/ Throw("leave_stages") /\ UNCHANGED <<out, files, streams>>
     ELSE Goto("open_asm") /\ UNCHANGED <<out, files, streams>>
  /\ UNCHANGED <<guards, subprocess>>
  /\ LinkKeeps

-----------------------------------------------------------------------------
(* The temporary files.  The guard is there before the file.               *)

\* A plausible bug: the file has no guard.
OpenTemporaryUnguarded(f, next, handler) ==
  /\ \/ Goto(next) /\ Opened(f)
     \/ Throw(handler) /\ UNCHANGED <<files, streams>>
  /\ UNCHANGED <<out, guards, subprocess>>
  /\ LinkKeeps

OpenTemporary(f, next, handler) ==
  /\ guards' = guards \cup {f}
  /\ \/ Goto(next) /\ Opened(f)
     \/ Throw(handler) /\ UNCHANGED <<files, streams>>
  /\ UNCHANGED <<out, subprocess>>
  /\ LinkKeeps

WriteTemporary(f, next, handler) ==
  /\ Written(f)
  /\ ThenOrThrow(next, handler)
  /\ UNCHANGED <<out, guards, subprocess>>
  /\ LinkKeeps

OpenAssembly == pc = "open_asm" /\ OpenTemporary("asm", "emit", "leave_stages")
\* emit_x64_assembly_firm or assemble.
Emit == pc = "emit" /\ WriteTemporary("asm", "close_asm", "leave_stages")

\* A plausible bug: the assembly is left to the destructor to close.
CloseAssemblyForgotten ==
  /\ pc = "close_asm"
  /\ Goto("open_runtime")
  /\ UNCHANGED <<files, streams, out, guards, subprocess>>
  /\ LinkKeeps

CloseAssembly ==
  /\ pc = "close_asm"
  /\ Close("asm", "open_runtime", "leave_stages")
  /\ UNCHANGED <<out, guards, subprocess>>
  /\ LinkKeeps

\* link_runtime
OpenRuntime == pc = "open_runtime" /\ OpenTemporary("runtime", "write_runtime", "leave_link")
WriteRuntime == pc = "write_runtime" /\ WriteTemporary("runtime", "close_runtime", "leave_link")

CloseRuntime ==
  /\ pc = "close_runtime"
  /\ Close("runtime", "link", "leave_link")
  /\ UNCHANGED <<out, guards, subprocess>>
  /\ LinkKeeps

Link ==
  /\ pc = "link"
  /\ report = "none"
  /\ RunSubprocess
  /\ UNCHANGED driver

Linked ==
  /\ pc = "link"
  /\ report # "none"
  /\ IF report = "ok" THEN Goto("leave_link") ELSE Throw("leave_link")
  /\ UNCHANGED <<out, files, streams, guards, subprocess>>
  /\ LinkKeeps

-----------------------------------------------------------------------------
(* The way out, the same whether or not something was thrown.              *)

\* Destructors: the stream is closed and the file removed, if there is one.
Cleaned(f) ==
  /\ guards' = guards \ {f}
  /\ streams' = [streams EXCEPT ![f] = "closed"]
  /\ files' = [files EXCEPT ![f] = IF keep \/ f \notin guards THEN Flushed(f) ELSE "absent"]

LeaveLink ==
  /\ pc = "leave_link"
  /\ Cleaned("runtime")
  /\ Goto("leave_stages")
  /\ UNCHANGED <<out, subprocess>>
  /\ LinkKeeps

LeaveStages ==
  /\ pc = "leave_stages"
  /\ Cleaned("asm")
  /\ firm' = IF firm = "live" THEN "finished" ELSE firm
  /\ Goto(IF raised THEN "leave" ELSE "finalize")
  /\ UNCHANGED <<setup, source, input, out, keep, registered, result, calls, subprocess>>

\* A plausible bug: success is reported before the output is flushed.
FinalizeForgotten ==
  /\ pc = "finalize"
  /\ Goto("leave")
  /\ UNCHANGED <<files, streams>>
  /\ StageKeeps

Finalize ==
  /\ pc = "finalize"
  /\ Close(out, "leave", "leave")
  /\ StageKeeps

\* What the destructors of `out` and `in` do goes unnoticed if it fails.
Leave ==
  /\ pc = "leave"
  /\ \/ out = "none" /\ UNCHANGED <<files, streams>>
     \/ /\ out # "none"
        /\ streams' = [streams EXCEPT ![out] = "closed"]
        /\ \/ files' = [files EXCEPT ![out] = Flushed(out)]
           \/ files' = [files EXCEPT ![out] = Lost(out)]
  /\ out' = "none"
  /\ input' = "none"
  /\ result' = IF raised THEN "failure" ELSE "success"
  /\ Goto("idle")
  /\ UNCHANGED <<setup, source, guards, keep, firm, registered, calls, subprocess>>

-----------------------------------------------------------------------------
(* The host compiler: a program if it succeeds on complete files.          *)

\* The file real_main's output goes to.
Destination == IF setup.output # "-" THEN setup.output
               ELSE IF setup.stage \in Compiling THEN "a.out" ELSE "stdout"

HostCompilerEnds(s) ==
  /\ CommandEnds(s)
  /\ \/ /\ s = "zero"
        /\ files' = [files EXCEPT ![Destination] =
                       IF \A f \in Temporary : files[f] = "text" THEN "program" ELSE "wrong"]
     \/ s # "zero" /\ files' \in {files, [files EXCEPT ![Destination] = "absent"]}
  /\ UNCHANGED <<pc, setup, source, input, out, streams, guards, keep,
                 firm, registered, raised, result, calls>>

Compile ==
  \/ LoadInput \/ OpenOutput \/ ReadTruncated
  \/ PrintInput \/ Parse \/ PrintAst \/ CheckProgram
  \/ InitializeFirm \/ Optimize \/ DefaultOutput
  \/ OpenAssembly \/ Emit \/ CloseAssembly
  \/ OpenRuntime \/ WriteRuntime \/ CloseRuntime \/ Link \/ Linked
  \/ LeaveLink \/ LeaveStages \/ Finalize \/ Leave

Parent == CreatePipe \/ Fork \/ CloseWriteEnd \/ ReadCode \/ ReadEndOfFile \/ Wait
Child == CloseReadEnd \/ Execute \/ WriteError
HostCompiler == \E s \in {"zero", "nonzero", "signal"} : HostCompilerEnds(s)

Next ==
  \/ Answer \/ Call \/ Compile
  \/ (Parent \/ ReadFails \/ WaitFails) /\ UNCHANGED driver
  \/ (Child \/ Killed) /\ UNCHANGED driver
  \/ HostCompiler

\* Every thread of control goes on, and the host compiler ends some time.
Fairness ==
  /\ WF_vars(Compile)
  /\ WF_vars(Parent /\ UNCHANGED driver)
  /\ WF_vars(Child /\ UNCHANGED driver)
  /\ WF_vars(HostCompiler)

Spec == Init /\ [][Next]_vars /\ Fairness

-----------------------------------------------------------------------------
(* What the calls of real_main promise.                                    *)

\* What a stage has to find wrong with the input.
Rejects(stage) ==
  {e \in {"lexical", "syntax", "semantic"} :
     \/ e = "lexical" /\ stage # "input"
     \/ e = "syntax" /\ stage \notin {"input", "lexer"}
     \/ e = "semantic" /\ stage \notin {"input", "lexer", "parser", "print_ast"}}

\* real_main returns normally only if the stage asked for accepted the input
\* and its output is complete where it was to go: text flushed to it, or a
\* program the host compiler made from complete files.
SuccessMeansDone ==
  result = "success" =>
    /\ source \notin Rejects(setup.stage)
    /\ setup.stage \in Printing => files[Destination] = "text"
    /\ setup.stage \in Compiling => files[Destination] = "program"

\* While the host compiler runs, both files it was given are there and nothing
\* of them is left in a buffer of the compiler (asmout.close() before
\* link_runtime, runtime_file.close() before run_subprocess, guards that live
\* until it has been waited for).  Excepted is a pipe that cannot be read.
LinkerSeesCompleteFiles ==
  child = "running" /\ report # "system" =>
    \A f \in Temporary : files[f] = "text" /\ streams[f] = "closed"

\* However a call ends, it leaves no temporary file behind, unless asked to.
NoTemporaryLeft == pc = "idle" /\ ~keep => \A f \in Temporary : files[f] = "absent"

\* The optimizer runs the passes of this call's command line, each as often as
\* it is named and in that order, although they are registered in a global
\* list nothing ever clears.
OptimizedAsRequested ==
  setup.stage \in Compiling \cup {"dump_ir_opt"} /\ firm = "live" /\ pc \notin {"firm", "optimize"}
    => registered = setup.optimizations

\* The input is what it was when the file_data object was made, for as long as
\* the stages that read it run (file_data.hpp).
InputStaysLoaded == pc = "run" => Readable

\* A program that is not accepted leaves an older a.out as it was.
DefaultOutputKept ==
  [][files'["a.out"] # files["a.out"] =>
       source = "good" /\ setup.stage \in Compiling /\ setup.output = "-"]_vars

\* run_subprocess reports what happened to the command.
Promise == INSTANCE Command
ReportsTruly == Promise!Spec

\* Every call comes to an end, if only because the compiler is killed: parent
\* and child never wait for each other on the pipe.
CallEnds == pc # "idle" ~> pc \in {"idle", "killed"}
=============================================================================
