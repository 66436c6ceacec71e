------------------------ MODULE CompilerDriverProofs ------------------------
(***************************************************************************)
(* Two inductive invariants.  Told relates parent, child and pipe of a     *)
(* subprocess call to what has become of the command.  Kept relates the    *)
(* place the compiler is at to its files, streams, guards, to libfirm and  *)
(* to the subprocess.                                                      *)
(***************************************************************************)
EXTENDS CompilerDriver, TLAPS

-----------------------------------------------------------------------------
(* The subprocess. *)

BeforeExec == child \in {"close", "exec", "write"}

Told ==
  /\ SubprocessTypeOK
  /\ report # "none" => parent = "idle"
  /\ parent = "idle" /\ report = "none" => child = "none"
  /\ parent \in {"pipe", "fork"} => child = "none"
  /\ parent \in {"close", "read", "wait"} => child \notin {"none", "reaped"}
  /\ parent \in {"fork", "close"} => parentEnds = Ends
  /\ parent \in {"read", "wait"} => parentEnds = {"read"}
  /\ child = "none" => ~executed
  /\ child \in {"none", "close", "exec", "write", "running"} => status = "none" /\ ~pipe
  /\ BeforeExec => "write" \in childEnds /\ ~executed
  /\ child = "running" => executed
  /\ child \in {"zombie", "reaped"} => status # "none"
  /\ pipe => ~executed
  /\ child = "zombie" /\ ~executed /\ status # "signal" => pipe \/ parent = "idle"
  /\ parent = "wait" => ~pipe /\ child \in {"running", "zombie"}
  /\ report \in {"ok", "failed", "abnormal"} => child = "reaped"
  /\ report = "unstarted" => pipe
  /\ Promise!Truthful(report)

LEMMA ToldInit == SubprocessInit => Told
BY DEF SubprocessInit, Told, SubprocessTypeOK, BeforeExec, Promise!Truthful

LEMMA RunTold ==
  ASSUME Told, RunSubprocess, report = "none"
  PROVE  Told'
BY DEF Told, SubprocessTypeOK, BeforeExec, Ends, Promise!Truthful, RunSubprocess, ParentKeeps

SubprocessStep ==
  \/ Parent \/ ReadFails \/ WaitFails
  \/ Child \/ Killed
  \/ \E s \in {"zero", "nonzero", "signal"} : CommandEnds(s)

\* Every step of parent and child keeps the two consistent.
LEMMA ToldStep ==
  ASSUME Told, SubprocessStep
  PROVE  Told'
<1> USE DEF Told, SubprocessTypeOK, BeforeExec, Ends, Promise!Truthful
<1>1. CASE CreatePipe
  BY <1>1 DEF CreatePipe, Finish, ParentKeeps
<1>2. CASE Fork
  BY <1>2 DEF Fork, Finish
<1>3. CASE CloseWriteEnd
  BY <1>3 DEF CloseWriteEnd, ParentKeeps
<1>4. CASE ReadCode
  BY <1>4 DEF ReadCode, Finish, ParentKeeps
<1>5. CASE ReadEndOfFile
  BY <1>5 DEF ReadEndOfFile, ParentKeeps
<1>6. CASE ReadFails
  BY <1>6 DEF ReadFails, Finish, ParentKeeps
<1>7. CASE Wait
  BY <1>7 DEF Wait, Finish, Meaning
<1>8. CASE WaitFails
  BY <1>8 DEF WaitFails, Finish
<1>9. CASE CloseReadEnd
  BY <1>9 DEF CloseReadEnd, ChildKeeps
<1>10. CASE Execute
  <2>1. CASE child' = "running"
    BY <1>10, <2>1 DEF Execute, ChildKeeps
  <2>2. CASE child' = "write"
    <3>1. /\ child = "exec"
          /\ executed' = executed /\ childEnds' = childEnds
          /\ UNCHANGED <<pipe, status>>
          /\ ChildKeeps
      BY <1>10, <2>2 DEF Execute
    <3> QED BY <2>2, <3>1 DEF ChildKeeps
  <2> QED BY <1>10, <2>1, <2>2 DEF Execute
<1>11. CASE WriteError
  BY <1>11 DEF WriteError, Exit, ChildKeeps
<1>12. CASE Killed
  BY <1>12 DEF Killed, Exit, ChildKeeps
<1>13. ASSUME NEW s \in {"zero", "nonzero", "signal"}, CommandEnds(s)
       PROVE  Told'
  BY <1>13 DEF CommandEnds, Exit, ChildKeeps
<1> QED
  BY <1>1, <1>2, <1>3, <1>4, <1>5, <1>6, <1>7, <1>8, <1>9, <1>10, <1>11, <1>12, <1>13
  DEF SubprocessStep, Parent, Child

\* What a step of the subprocess is to the caller of run_subprocess.
LEMMA ReportStep ==
  ASSUME Told, SubprocessStep
  PROVE  [Promise!Next]_Promise!vars
<1> USE DEF Told, SubprocessTypeOK, BeforeExec, Promise!Truthful, Promise!Next, Promise!vars,
            Promise!Report, Promise!Reports
<1>1. CASE CreatePipe
  BY <1>1 DEF CreatePipe, Finish, ParentKeeps
<1>2. CASE Fork
  BY <1>2 DEF Fork, Finish
<1>3. CASE CloseWriteEnd
  BY <1>3 DEF CloseWriteEnd, ParentKeeps
<1>4. CASE ReadCode
  BY <1>4 DEF ReadCode, Finish, ParentKeeps
<1>5. CASE ReadEndOfFile
  BY <1>5 DEF ReadEndOfFile, ParentKeeps
<1>6. CASE ReadFails
  BY <1>6 DEF ReadFails, Finish, ParentKeeps
<1>7. CASE Wait
  BY <1>7 DEF Wait, Finish, Meaning
<1>8. CASE WaitFails
  BY <1>8 DEF WaitFails, Finish
<1>9. CASE CloseReadEnd
  BY <1>9 DEF CloseReadEnd, ChildKeeps
<1>10. CASE Execute
  <2>1. CASE child' = "running"
    BY <1>10, <2>1 DEF Execute, ChildKeeps, Promise!Execute
  <2>2. CASE child' = "write"
    <3>1. executed' = executed /\ UNCHANGED status /\ ChildKeeps
      BY <1>10, <2>2 DEF Execute
    <3> QED BY <3>1 DEF ChildKeeps
  <2> QED BY <1>10, <2>1, <2>2 DEF Execute
<1>11. CASE WriteError
  BY <1>11 DEF WriteError, Exit, ChildKeeps, Promise!End, Promise!Statuses
<1>12. CASE Killed
  BY <1>12 DEF Killed, Exit, ChildKeeps, Promise!End, Promise!Statuses
<1>13. ASSUME NEW s \in {"zero", "nonzero", "signal"}, CommandEnds(s)
       PROVE  [Promise!Next]_Promise!vars
  BY <1>13 DEF CommandEnds, Exit, ChildKeeps, Promise!End, Promise!Statuses
<1> QED
  BY <1>1, <1>2, <1>3, <1>4, <1>5, <1>6, <1>7, <1>8, <1>9, <1>10, <1>11, <1>12, <1>13
  DEF SubprocessStep, Parent, Child

\* A step of the compiler is one of the subprocess, starts one, or is neither.
LEMMA Steps ==
  ASSUME [Next]_vars
  PROVE  UNCHANGED subprocess \/ (RunSubprocess /\ report = "none") \/ SubprocessStep
<1>1. CASE UNCHANGED vars
  BY <1>1 DEF vars
<1>2. CASE Answer \/ Call
  BY <1>2 DEF Answer, Call
<1>3. CASE LoadInput \/ OpenOutput \/ ReadTruncated
  BY <1>3 DEF LoadInput, OpenOutput, ReadTruncated
<1>4. CASE PrintInput \/ Parse \/ PrintAst \/ CheckProgram \/ Finalize
  BY <1>4 DEF PrintInput, Parse, PrintAst, CheckProgram, Finalize, StageKeeps
<1>5. CASE InitializeFirm \/ Optimize
  BY <1>5 DEF InitializeFirm, Optimize, FirmKeeps
<1>6. CASE DefaultOutput \/ CloseAssembly \/ CloseRuntime \/ Linked
  BY <1>6 DEF DefaultOutput, CloseAssembly, CloseRuntime, Linked
<1>7. CASE OpenAssembly \/ Emit \/ OpenRuntime \/ WriteRuntime
  BY <1>7 DEF OpenAssembly, Emit, OpenRuntime, WriteRuntime, OpenTemporary, WriteTemporary
<1>8. CASE Link
  BY <1>8 DEF Link
<1>9. CASE LeaveLink \/ LeaveStages \/ Leave
  BY <1>9 DEF LeaveLink, LeaveStages, Leave
<1>10. CASE HostCompiler
  BY <1>10 DEF HostCompiler, HostCompilerEnds, SubprocessStep
<1>11. CASE Parent \/ ReadFails \/ WaitFails \/ Child \/ Killed
  BY <1>11 DEF SubprocessStep
<1> QED
  BY <1>1, <1>2, <1>3, <1>4, <1>5, <1>6, <1>7, <1>8, <1>9, <1>10, <1>11 DEF Next, Compile

THEOREM ToldAlways == Spec => []Told
<1>1. Init => Told
  BY ToldInit DEF Init
<1>2. Told /\ [Next]_vars => Told'
  <2> SUFFICES ASSUME Told, [Next]_vars PROVE Told'
    OBVIOUS
  <2>1. CASE UNCHANGED subprocess
    BY <2>1 DEF subprocess, Told, SubprocessTypeOK, BeforeExec, Promise!Truthful
  <2> QED BY <2>1, Steps, RunTold, ToldStep
<1> QED BY <1>1, <1>2, PTL DEF Spec

\* However parent and child take turns, and whatever fails, run_subprocess
\* keeps the promise of subprocess.hpp.
THEOREM Truth == Spec => ReportsTruly
<1>1. Init => Promise!Init
  BY DEF Init, SubprocessInit, Promise!Init
<1>2. Told /\ [Next]_vars => [Promise!Next]_Promise!vars
  <2> SUFFICES ASSUME Told, [Next]_vars PROVE [Promise!Next]_Promise!vars
    OBVIOUS
  <2>1. CASE UNCHANGED subprocess
    BY <2>1 DEF subprocess, Promise!vars
  <2>2. CASE RunSubprocess
    BY <2>2 DEF RunSubprocess, ParentKeeps, Promise!vars
  <2> QED BY <2>1, <2>2, Steps, ReportStep
<1> QED BY <1>1, <1>2, ToldAlways, PTL DEF Spec, ReportsTruly, Promise!Spec

-----------------------------------------------------------------------------
(* The compiler. *)

WithRuntime == {"write_runtime", "close_runtime", "link", "leave_link"}
WithAssembly == {"emit", "close_asm", "open_runtime", "leave_stages"} \cup WithRuntime
Linking == {"open_asm"} \cup (WithAssembly \ {"leave_link", "leave_stages"})
WithFirm == {"optimize", "output", "open_asm"} \cup WithAssembly
WayOut == {"leave_link", "leave_stages", "leave"}

\* Which input and which stage get how far, and that nothing is raised there.
Progress ==
  /\ pc \notin WayOut \cup {"idle"} => ~raised
  /\ pc \in {"print", "check"} => source \in {"good", "semantic"}
  /\ pc = "print" => setup.stage = "print_ast"
  /\ pc \in {"check", "firm"} => setup.stage \notin Printing \cup {"parser"}
  /\ pc = "firm" => setup.stage # "semantic"
  /\ pc \in {"firm"} \cup WithFirm => source = "good"
  /\ pc \in WithFirm => setup.stage \in Compiling \cup {"dump_ir", "dump_ir_opt"}
  /\ pc = "optimize" => setup.stage # "dump_ir"
  /\ pc \in {"output", "leave_link"} \cup Linking => setup.stage \in Compiling
  /\ pc \in {"finalize", "leave"} /\ ~raised => source \notin Rejects(setup.stage)
  /\ result = "success" => pc = "idle" /\ source \notin Rejects(setup.stage)

\* libfirm and the list of optimizations.
Registered ==
  /\ firm = "live" <=> pc \in WithFirm
  /\ firm = "fresh" \/ pc = "optimize" => registered = <<>>
  /\ firm = "live" /\ pc # "optimize" /\ setup.stage # "dump_ir"
       => registered = setup.optimizations

\* The output object, and the only streams that are not closed.
Connected ==
  /\ pc = "idle" => input = "none"
  /\ pc \in {"idle", "load", "open"} => out = "none"
  /\ pc \in {"run", "print", "check", "firm", "optimize", "output"}
       => out = IF setup.output = "-" THEN "stdout" ELSE setup.output
  /\ pc \in {"leave_link", "finalize"} \cup Linking => out = Destination
  /\ pc \in {"leave_stages", "leave"} /\ ~raised => out = Destination
  /\ out \in {"none", "stdout", "a.out", setup.output}
  /\ out = "a.out" => source = "good" /\ setup.stage \in Compiling /\ setup.output = "-"
  /\ streams["stdout"] # "open"
  /\ \A f \in Files \ Temporary :
       /\ streams[f] # "closed" => f = out
       /\ streams[f] = "dirty" => setup.stage \in Printing

\* The temporary files and their guards.
Guarded ==
  /\ \A f \in Temporary \ guards : streams[f] = "closed" /\ (keep \/ files[f] = "absent")
  /\ "asm" \in guards => pc \in WithAssembly
  /\ "runtime" \in guards => pc \in WithRuntime
  /\ pc = "emit" => "asm" \in guards
  /\ pc = "write_runtime" => "runtime" \in guards
  /\ pc = "close_asm" => streams["asm"] = "dirty"
  /\ pc \in {"open_runtime", "write_runtime", "close_runtime", "link"}
       => files["asm"] = "text" /\ streams["asm"] = "closed"
  /\ pc = "close_runtime" => streams["runtime"] = "dirty"
  /\ pc = "link" => files["runtime"] = "text" /\ streams["runtime"] = "closed"

\* The host compiler and who waits for it.
Waited ==
  /\ parent # "idle" => pc = "link"
  /\ firm = "fresh" \/ pc \in WithFirm \ {"link", "leave_link", "leave_stages"}
       => parent = "idle" /\ child = "none" /\ report = "none"
  /\ Abandoned => setup.stage \in Compiling /\ source = "good"
  /\ Abandoned /\ pc # "link"
       => report = "system" /\ (raised \/ pc = "idle") /\ result # "success"
  /\ Abandoned => pc \in {"idle", "link"} \cup WayOut

\* What the output holds on the way to reporting success.
Produced ==
  /\ pc = "link" /\ executed /\ status = "zero" => files[Destination] = "program"
  /\ pc \in {"leave_link", "leave_stages", "finalize", "leave"} /\ ~raised
       /\ setup.stage \in Compiling => files[Destination] = "program"
  /\ pc = "finalize" /\ setup.stage \in Printing => streams[out] = "dirty"
  /\ pc = "leave" /\ ~raised /\ setup.stage \in Printing
       => files[Destination] = "text" /\ streams[out] = "closed"
  /\ SuccessMeansDone

Kept == DriverTypeOK /\ Progress /\ Registered /\ Connected /\ Guarded /\ Waited /\ Produced

LEMMA CommandLine ==
  ASSUME DriverTypeOK
  PROVE  /\ setup.stage \in Stages
         /\ setup.output \in Named
         /\ setup.optimizations \in Seq(STRING)
BY SetupsAssumption DEF DriverTypeOK, ControlTypeOK

\* Every step goes to a place the code has, with values of the right kind.
LEMMA ControlTypeOKStep ==
  ASSUME Kept, Told, [Next]_vars
  PROVE  ControlTypeOK'
<1> USE CommandLine DEF Registered, Kept, DriverTypeOK, ControlTypeOK, Places, Sources
<1>1. CASE Answer
  <2>1. calls' \in 0..MaxCalls
    BY <1>1, SetupsAssumption DEF Answer
  <2> QED BY <1>1, <2>1 DEF Answer
<1>2. CASE Call
  <2>1. calls' \in 0..MaxCalls
    BY <1>2, SetupsAssumption DEF Call
  <2> QED BY <1>2, <2>1 DEF Call
<1>3. CASE LoadInput
  BY <1>3 DEF LoadInput, Goto, Throw
<1>4. CASE OpenOutput
  BY <1>4 DEF OpenOutput, Opened, Goto, Throw
<1>5. CASE ReadTruncated
  BY <1>5 DEF ReadTruncated, Goto, Throw
<1>6. CASE PrintInput
  BY <1>6 DEF PrintInput, Written, ThenOrThrow, StageKeeps, Goto, Throw
<1>7. CASE Parse
  BY <1>7 DEF Parse, StageKeeps, Goto, Throw
<1>8. CASE PrintAst
  BY <1>8 DEF PrintAst, Written, ThenOrThrow, StageKeeps, Goto, Throw
<1>9. CASE CheckProgram
  BY <1>9 DEF CheckProgram, StageKeeps, Goto, Throw
<1>10. CASE InitializeFirm
  BY <1>10 DEF InitializeFirm, FirmKeeps, Goto, Throw
<1>11. CASE Optimize
  BY <1>11 DEF Optimize, FirmKeeps, Goto, Throw
<1>12. CASE DefaultOutput
  BY <1>12 DEF DefaultOutput, Opened, LinkKeeps, Goto, Throw
<1>13. CASE OpenAssembly
  BY <1>13 DEF OpenAssembly, OpenTemporary, Opened, LinkKeeps, Goto, Throw
<1>14. CASE Emit
  BY <1>14 DEF Emit, WriteTemporary, Written, ThenOrThrow, LinkKeeps, Goto, Throw
<1>15. CASE CloseAssembly
  BY <1>15 DEF CloseAssembly, Close, Flushed, Lost, LinkKeeps, Goto, Throw
<1>16. CASE OpenRuntime
  BY <1>16 DEF OpenRuntime, OpenTemporary, Opened, LinkKeeps, Goto, Throw
<1>17. CASE WriteRuntime
  BY <1>17 DEF WriteRuntime, WriteTemporary, Written, ThenOrThrow, LinkKeeps, Goto, Throw
<1>18. CASE CloseRuntime
  BY <1>18 DEF CloseRuntime, Close, Flushed, Lost, LinkKeeps, Goto, Throw
<1>19. CASE Link
  BY <1>19 DEF Link, driver, RunSubprocess, ParentKeeps, Goto, Throw
<1>20. CASE Linked
  BY <1>20 DEF Linked, LinkKeeps, Goto, Throw
<1>21. CASE LeaveLink
  BY <1>21 DEF LeaveLink, Cleaned, Flushed, LinkKeeps, Goto, Throw
<1>22. CASE LeaveStages
  BY <1>22 DEF LeaveStages, Cleaned, Flushed, Goto, Throw
<1>23. CASE Finalize
  BY <1>23 DEF Finalize, Close, Flushed, Lost, StageKeeps, Goto, Throw
<1>24. CASE Leave
  BY <1>24 DEF Leave, Flushed, Lost, Goto, Throw
<1>25. CASE HostCompiler
  BY <1>25 DEF HostCompiler, HostCompilerEnds, CommandEnds, Exit, ChildKeeps
<1>26. CASE UNCHANGED driver
  BY <1>26 DEF driver
<1> QED
  BY <1>1, <1>2, <1>3, <1>4, <1>5, <1>6, <1>7, <1>8, <1>9, <1>10, <1>11, <1>12, <1>13, <1>14, <1>15, <1>16, <1>17, <1>18, <1>19, <1>20, <1>21, <1>22, <1>23, <1>24, <1>25, <1>26
  DEF Next, Compile, vars

\* The same for files, streams, guards and what libfirm keeps.
LEMMA StoreTypeOKStep ==
  ASSUME Kept, Told, [Next]_vars
  PROVE  StoreTypeOK'
<1> USE CommandLine DEF Kept, DriverTypeOK, StoreTypeOK, Registered, Registrable, Contents, Streams, Files, Temporary, Named
<1>1. CASE Answer
  BY <1>1 DEF Answer, Goto, Throw
<1>2. CASE Call
  BY <1>2 DEF Call, Goto, Throw
<1>3. CASE LoadInput
  BY <1>3 DEF LoadInput, Goto, Throw
<1>4. CASE OpenOutput
  BY <1>4 DEF OpenOutput, Opened, Goto, Throw
<1>5. CASE ReadTruncated
  BY <1>5 DEF ReadTruncated, Goto, Throw
<1>6. CASE PrintInput
  BY <1>6 DEF PrintInput, Written, ThenOrThrow, StageKeeps, Goto, Throw
<1>7. CASE Parse
  BY <1>7 DEF Parse, StageKeeps, Goto, Throw
<1>8. CASE PrintAst
  BY <1>8 DEF PrintAst, Written, ThenOrThrow, StageKeeps, Goto, Throw
<1>9. CASE CheckProgram
  BY <1>9 DEF CheckProgram, StageKeeps, Goto, Throw
<1>10. CASE InitializeFirm
  BY <1>10 DEF InitializeFirm, FirmKeeps, Goto, Throw
<1>11. CASE Optimize
  <2>1. registered' = setup.optimizations
    BY <1>11, CommandLine DEF Optimize
  <2>2. registered' \in Registrable
    BY <2>1 DEF ControlTypeOK
  <2> QED BY <1>11, <2>2 DEF Optimize, FirmKeeps
<1>12. CASE DefaultOutput
  BY <1>12 DEF DefaultOutput, Opened, LinkKeeps, Goto, Throw
<1>13. CASE OpenAssembly
  BY <1>13 DEF OpenAssembly, OpenTemporary, Opened, LinkKeeps, Goto, Throw
<1>14. CASE Emit
  BY <1>14 DEF Emit, WriteTemporary, Written, ThenOrThrow, LinkKeeps, Goto, Throw
<1>15. CASE CloseAssembly
  BY <1>15 DEF CloseAssembly, Close, Flushed, Lost, LinkKeeps, Goto, Throw
<1>16. CASE OpenRuntime
  BY <1>16 DEF OpenRuntime, OpenTemporary, Opened, LinkKeeps, Goto, Throw
<1>17. CASE WriteRuntime
  BY <1>17 DEF WriteRuntime, WriteTemporary, Written, ThenOrThrow, LinkKeeps, Goto, Throw
<1>18. CASE CloseRuntime
  BY <1>18 DEF CloseRuntime, Close, Flushed, Lost, LinkKeeps, Goto, Throw
<1>19. CASE Link
  BY <1>19 DEF Link, driver, RunSubprocess, ParentKeeps, Goto, Throw
<1>20. CASE Linked
  BY <1>20 DEF Linked, LinkKeeps, Goto, Throw
<1>21. CASE LeaveLink
  BY <1>21 DEF LeaveLink, Cleaned, Flushed, LinkKeeps, Goto, Throw
<1>22. CASE LeaveStages
  BY <1>22 DEF LeaveStages, Cleaned, Flushed, Goto, Throw
<1>23. CASE Finalize
  BY <1>23 DEF Finalize, Close, Flushed, Lost, StageKeeps, Goto, Throw
<1>24. CASE Leave
  BY <1>24 DEF Leave, Flushed, Lost, Goto, Throw
<1>25. CASE HostCompiler
  BY <1>25 DEF HostCompiler, HostCompilerEnds, CommandEnds, Exit, ChildKeeps
<1>26. CASE UNCHANGED driver
  BY <1>26 DEF driver
<1> QED
  BY <1>1, <1>2, <1>3, <1>4, <1>5, <1>6, <1>7, <1>8, <1>9, <1>10, <1>11, <1>12, <1>13, <1>14, <1>15, <1>16, <1>17, <1>18, <1>19, <1>20, <1>21, <1>22, <1>23, <1>24, <1>25, <1>26
  DEF Next, Compile, vars

\* Only accepted input gets as far as libfirm, and nothing raised is forgotten.
LEMMA ProgressStep ==
  ASSUME Kept, Told, [Next]_vars
  PROVE  Progress'
<1> USE CommandLine DEF Kept, Progress, Rejects, Stages, Printing, Compiling, Temporary, Named, Files, Sources, WithRuntime, WithAssembly, Linking, WithFirm, WayOut
<1>1. CASE Answer
  BY <1>1 DEF Answer, Goto, Throw
<1>2. CASE Call
  BY <1>2 DEF Call, Goto, Throw
<1>3. CASE LoadInput
  BY <1>3 DEF LoadInput, Goto, Throw
<1>4. CASE OpenOutput
  BY <1>4 DEF OpenOutput, Opened, Goto, Throw
<1>5. CASE ReadTruncated
  BY <1>5 DEF ReadTruncated, Goto, Throw
<1>6. CASE PrintInput
  BY <1>6 DEF PrintInput, Written, ThenOrThrow, StageKeeps, Goto, Throw
<1>7. CASE Parse
  <2>1. CASE source \in {"lexical", "syntax"}
    BY <1>7, <2>1 DEF Parse, StageKeeps, Goto, Throw
  <2>2. CASE source \notin {"lexical", "syntax"} /\ pc' = "check"
    BY <1>7, <2>2 DEF Parse, StageKeeps, Goto, Throw, DriverTypeOK, ControlTypeOK, StoreTypeOK
  <2>3. CASE source \notin {"lexical", "syntax"} /\ pc' # "check"
    BY <1>7, <2>3 DEF Parse, StageKeeps, Goto, Throw, DriverTypeOK, ControlTypeOK, StoreTypeOK
  <2> QED BY <2>1, <2>2, <2>3
<1>8. CASE PrintAst
  BY <1>8 DEF PrintAst, Written, ThenOrThrow, StageKeeps, Goto, Throw
<1>9. CASE CheckProgram
  BY <1>9 DEF CheckProgram, StageKeeps, Goto, Throw
<1>10. CASE InitializeFirm
  BY <1>10 DEF InitializeFirm, FirmKeeps, Goto, Throw
<1>11. CASE Optimize
  BY <1>11 DEF Optimize, FirmKeeps, Goto, Throw
<1>12. CASE DefaultOutput
  BY <1>12 DEF DefaultOutput, Opened, LinkKeeps, Goto, Throw
<1>13. CASE OpenAssembly
  BY <1>13 DEF OpenAssembly, OpenTemporary, Opened, LinkKeeps, Goto, Throw
<1>14. CASE Emit
  BY <1>14 DEF Emit, WriteTemporary, Written, ThenOrThrow, LinkKeeps, Goto, Throw
<1>15. CASE CloseAssembly
  BY <1>15 DEF CloseAssembly, Close, Flushed, Lost, LinkKeeps, Goto, Throw
<1>16. CASE OpenRuntime
  BY <1>16 DEF OpenRuntime, OpenTemporary, Opened, LinkKeeps, Goto, Throw
<1>17. CASE WriteRuntime
  BY <1>17 DEF WriteRuntime, WriteTemporary, Written, ThenOrThrow, LinkKeeps, Goto, Throw
<1>18. CASE CloseRuntime
  BY <1>18 DEF CloseRuntime, Close, Flushed, Lost, LinkKeeps, Goto, Throw
<1>19. CASE Link
  BY <1>19 DEF Link, driver, RunSubprocess, ParentKeeps, Goto, Throw
<1>20. CASE Linked
  BY <1>20 DEF Linked, LinkKeeps, Goto, Throw
<1>21. CASE LeaveLink
  BY <1>21 DEF LeaveLink, Cleaned, Flushed, LinkKeeps, Goto, Throw
<1>22. CASE LeaveStages
  BY <1>22 DEF LeaveStages, Cleaned, Flushed, Goto, Throw
<1>23. CASE Finalize
  BY <1>23 DEF Finalize, Close, Flushed, Lost, StageKeeps, Goto, Throw
<1>24. CASE Leave
  BY <1>24 DEF Leave, Flushed, Lost, Goto, Throw
<1>25. CASE HostCompiler
  BY <1>25 DEF HostCompiler, HostCompilerEnds, CommandEnds, Exit, ChildKeeps
<1>26. CASE UNCHANGED driver
  BY <1>26 DEF driver
<1> QED
  BY <1>1, <1>2, <1>3, <1>4, <1>5, <1>6, <1>7, <1>8, <1>9, <1>10, <1>11, <1>12, <1>13, <1>14, <1>15, <1>16, <1>17, <1>18, <1>19, <1>20, <1>21, <1>22, <1>23, <1>24, <1>25, <1>26
  DEF Next, Compile, vars

\* libfirm is initialised once, so that the list is empty when it is filled.
LEMMA RegisteredStep ==
  ASSUME Kept, Told, [Next]_vars
  PROVE  Registered'
<1> USE CommandLine DEF Kept, Progress, Registered, DriverTypeOK, ControlTypeOK, StoreTypeOK, Stages, Printing, Compiling, Temporary, Named, Files, Sources, WithRuntime, WithAssembly, Linking, WithFirm, WayOut
<1>1. CASE Answer
  BY <1>1 DEF Answer, Goto, Throw
<1>2. CASE Call
  BY <1>2 DEF Call, Goto, Throw
<1>3. CASE LoadInput
  BY <1>3 DEF LoadInput, Goto, Throw
<1>4. CASE OpenOutput
  BY <1>4 DEF OpenOutput, Opened, Goto, Throw
<1>5. CASE ReadTruncated
  BY <1>5 DEF ReadTruncated, Goto, Throw
<1>6. CASE PrintInput
  BY <1>6 DEF PrintInput, Written, ThenOrThrow, StageKeeps, Goto, Throw
<1>7. CASE Parse
  BY <1>7 DEF Parse, StageKeeps, Goto, Throw
<1>8. CASE PrintAst
  BY <1>8 DEF PrintAst, Written, ThenOrThrow, StageKeeps, Goto, Throw
<1>9. CASE CheckProgram
  BY <1>9 DEF CheckProgram, StageKeeps, Goto, Throw
<1>10. CASE InitializeFirm
  BY <1>10 DEF InitializeFirm, FirmKeeps, Goto, Throw
<1>11. CASE Optimize
  BY <1>11 DEF Optimize, FirmKeeps, Goto, Throw
<1>12. CASE DefaultOutput
  BY <1>12 DEF DefaultOutput, Opened, LinkKeeps, Goto, Throw
<1>13. CASE OpenAssembly
  BY <1>13 DEF OpenAssembly, OpenTemporary, Opened, LinkKeeps, Goto, Throw
<1>14. CASE Emit
  BY <1>14 DEF Emit, WriteTemporary, Written, ThenOrThrow, LinkKeeps, Goto, Throw
<1>15. CASE CloseAssembly
  BY <1>15 DEF CloseAssembly, Close, Flushed, Lost, LinkKeeps, Goto, Throw
<1>16. CASE OpenRuntime
  BY <1>16 DEF OpenRuntime, OpenTemporary, Opened, LinkKeeps, Goto, Throw
<1>17. CASE WriteRuntime
  BY <1>17 DEF WriteRuntime, WriteTemporary, Written, ThenOrThrow, LinkKeeps, Goto, Throw
<1>18. CASE CloseRuntime
  BY <1>18 DEF CloseRuntime, Close, Flushed, Lost, LinkKeeps, Goto, Throw
<1>19. CASE Link
  BY <1>19 DEF Link, driver, RunSubprocess, ParentKeeps, Goto, Throw
<1>20. CASE Linked
  BY <1>20 DEF Linked, LinkKeeps, Goto, Throw
<1>21. CASE LeaveLink
  BY <1>21 DEF LeaveLink, Cleaned, Flushed, LinkKeeps, Goto, Throw
<1>22. CASE LeaveStages
  BY <1>22 DEF LeaveStages, Cleaned, Flushed, Goto, Throw
<1>23. CASE Finalize
  BY <1>23 DEF Finalize, Close, Flushed, Lost, StageKeeps, Goto, Throw
<1>24. CASE Leave
  BY <1>24 DEF Leave, Flushed, Lost, Goto, Throw
<1>25. CASE HostCompiler
  BY <1>25 DEF HostCompiler, HostCompilerEnds, CommandEnds, Exit, ChildKeeps
<1>26. CASE UNCHANGED driver
  BY <1>26 DEF driver
<1> QED
  BY <1>1, <1>2, <1>3, <1>4, <1>5, <1>6, <1>7, <1>8, <1>9, <1>10, <1>11, <1>12, <1>13, <1>14, <1>15, <1>16, <1>17, <1>18, <1>19, <1>20, <1>21, <1>22, <1>23, <1>24, <1>25, <1>26
  DEF Next, Compile, vars

\* Only the stream of the output object and the guarded ones are ever open.
LEMMA ConnectedStep ==
  ASSUME Kept, Told, [Next]_vars
  PROVE  Connected'
<1> USE CommandLine DEF Kept, Progress, Connected, DriverTypeOK, ControlTypeOK, StoreTypeOK, Destination, Stages, Printing, Compiling, Temporary, Named, Files, Sources, WithRuntime, WithAssembly, Linking, WithFirm, WayOut
<1>1. CASE Answer
  BY <1>1 DEF Answer, Goto, Throw
<1>2. CASE Call
  BY <1>2 DEF Call, Goto, Throw
<1>3. CASE LoadInput
  BY <1>3 DEF LoadInput, Goto, Throw
<1>4. CASE OpenOutput
  BY <1>4 DEF OpenOutput, Opened, Goto, Throw
<1>5. CASE ReadTruncated
  BY <1>5 DEF ReadTruncated, Goto, Throw
<1>6. CASE PrintInput
  BY <1>6 DEF PrintInput, Written, ThenOrThrow, StageKeeps, Goto, Throw
<1>7. CASE Parse
  BY <1>7 DEF Parse, StageKeeps, Goto, Throw
<1>8. CASE PrintAst
  BY <1>8 DEF PrintAst, Written, ThenOrThrow, StageKeeps, Goto, Throw
<1>9. CASE CheckProgram
  BY <1>9 DEF CheckProgram, StageKeeps, Goto, Throw
<1>10. CASE InitializeFirm
  BY <1>10 DEF InitializeFirm, FirmKeeps, Goto, Throw
<1>11. CASE Optimize
  BY <1>11 DEF Optimize, FirmKeeps, Goto, Throw
<1>12. CASE DefaultOutput
  <2>1. pc = "output" /\ setup.stage \in Compiling /\ source = "good"
    BY <1>12 DEF DefaultOutput
  <2>2. UNCHANGED <<setup, source>>
    BY <1>12 DEF DefaultOutput, LinkKeeps
  <2>3. CASE out = "stdout" /\ pc' = "open_asm"
    <3>1. out' = "a.out" /\ streams' = [streams EXCEPT !["a.out"] = "open"]
      BY <1>12, <2>3 DEF DefaultOutput, Opened, Goto, Throw
    <3>2. setup.output = "-"
      BY <2>1, <2>3
    <3>3. streams'["stdout"] = "closed"
      <4>1. streams["stdout"] \in Streams
        OBVIOUS
      <4>2. streams["stdout"] = "closed"
        BY <2>1, <4>1 DEF Streams
      <4> QED BY <3>1, <4>2
    <3>4. \A f \in Files \ Temporary : streams'[f] # "closed" => f = "a.out" /\ streams'[f] = "open"
      BY <2>3, <3>1, <3>3
    <3>5. pc' = "open_asm" /\ out' = Destination
      BY <2>1, <2>3, <3>1, <3>2
    <3> QED BY <2>1, <2>2, <3>1, <3>2, <3>3, <3>4, <3>5
  <2>4. CASE out = "stdout" /\ pc' # "open_asm"
    <3>1. pc' = "leave_stages" /\ raised' /\ UNCHANGED <<out, streams>>
      BY <1>12, <2>4 DEF DefaultOutput, Opened, Goto, Throw
    <3> QED BY <2>1, <2>2, <3>1
  <2>5. CASE out # "stdout"
    BY <1>12, <2>5 DEF DefaultOutput, Opened, LinkKeeps, Goto, Throw
  <2> QED BY <2>3, <2>4, <2>5
<1>13. CASE OpenAssembly
  BY <1>13 DEF OpenAssembly, OpenTemporary, Opened, LinkKeeps, Goto, Throw
<1>14. CASE Emit
  BY <1>14 DEF Emit, WriteTemporary, Written, ThenOrThrow, LinkKeeps, Goto, Throw
<1>15. CASE CloseAssembly
  BY <1>15 DEF CloseAssembly, Close, Flushed, Lost, LinkKeeps, Goto, Throw
<1>16. CASE OpenRuntime
  BY <1>16 DEF OpenRuntime, OpenTemporary, Opened, LinkKeeps, Goto, Throw
<1>17. CASE WriteRuntime
  BY <1>17 DEF WriteRuntime, WriteTemporary, Written, ThenOrThrow, LinkKeeps, Goto, Throw
<1>18. CASE CloseRuntime
  BY <1>18 DEF CloseRuntime, Close, Flushed, Lost, LinkKeeps, Goto, Throw
<1>19. CASE Link
  BY <1>19 DEF Link, driver, RunSubprocess, ParentKeeps, Goto, Throw
<1>20. CASE Linked
  BY <1>20 DEF Linked, LinkKeeps, Goto, Throw
<1>21. CASE LeaveLink
  BY <1>21 DEF LeaveLink, Cleaned, Flushed, LinkKeeps, Goto, Throw
<1>22. CASE LeaveStages
  BY <1>22 DEF LeaveStages, Cleaned, Flushed, Goto, Throw
<1>23. CASE Finalize
  BY <1>23 DEF Finalize, Close, Flushed, Lost, StageKeeps, Goto, Throw
<1>24. CASE Leave
  BY <1>24 DEF Leave, Flushed, Lost, Goto, Throw
<1>25. CASE HostCompiler
  BY <1>25 DEF HostCompiler, HostCompilerEnds, CommandEnds, Exit, ChildKeeps
<1>26. CASE UNCHANGED driver
  BY <1>26 DEF driver
<1> QED
  BY <1>1, <1>2, <1>3, <1>4, <1>5, <1>6, <1>7, <1>8, <1>9, <1>10, <1>11, <1>12, <1>13, <1>14, <1>15, <1>16, <1>17, <1>18, <1>19, <1>20, <1>21, <1>22, <1>23, <1>24, <1>25, <1>26
  DEF Next, Compile, vars

\* The guards live as long as the files, and the files are closed in time.
LEMMA GuardedStep ==
  ASSUME Kept, Told, [Next]_vars
  PROVE  Guarded'
<1> USE CommandLine DEF Kept, Connected, Guarded, DriverTypeOK, ControlTypeOK, StoreTypeOK, Destination, Stages, Printing, Compiling, Temporary, Named, Files, Sources, WithRuntime, WithAssembly, Linking, WithFirm, WayOut
<1>1. CASE Answer
  BY <1>1 DEF Answer, Goto, Throw
<1>2. CASE Call
  BY <1>2 DEF Call, Goto, Throw
<1>3. CASE LoadInput
  BY <1>3 DEF LoadInput, Goto, Throw
<1>4. CASE OpenOutput
  BY <1>4 DEF OpenOutput, Opened, Goto, Throw
<1>5. CASE ReadTruncated
  BY <1>5 DEF ReadTruncated, Goto, Throw
<1>6. CASE PrintInput
  BY <1>6 DEF PrintInput, Written, ThenOrThrow, StageKeeps, Goto, Throw
<1>7. CASE Parse
  BY <1>7 DEF Parse, StageKeeps, Goto, Throw
<1>8. CASE PrintAst
  BY <1>8 DEF PrintAst, Written, ThenOrThrow, StageKeeps, Goto, Throw
<1>9. CASE CheckProgram
  BY <1>9 DEF CheckProgram, StageKeeps, Goto, Throw
<1>10. CASE InitializeFirm
  BY <1>10 DEF InitializeFirm, FirmKeeps, Goto, Throw
<1>11. CASE Optimize
  BY <1>11 DEF Optimize, FirmKeeps, Goto, Throw
<1>12. CASE DefaultOutput
  BY <1>12 DEF DefaultOutput, Opened, LinkKeeps, Goto, Throw
<1>13. CASE OpenAssembly
  BY <1>13 DEF OpenAssembly, OpenTemporary, Opened, LinkKeeps, Goto, Throw
<1>14. CASE Emit
  BY <1>14 DEF Emit, WriteTemporary, Written, ThenOrThrow, LinkKeeps, Goto, Throw
<1>15. CASE CloseAssembly
  BY <1>15 DEF CloseAssembly, Close, Flushed, Lost, LinkKeeps, Goto, Throw
<1>16. CASE OpenRuntime
  BY <1>16 DEF OpenRuntime, OpenTemporary, Opened, LinkKeeps, Goto, Throw
<1>17. CASE WriteRuntime
  BY <1>17 DEF WriteRuntime, WriteTemporary, Written, ThenOrThrow, LinkKeeps, Goto, Throw
<1>18. CASE CloseRuntime
  BY <1>18 DEF CloseRuntime, Close, Flushed, Lost, LinkKeeps, Goto, Throw
<1>19. CASE Link
  BY <1>19 DEF Link, driver, RunSubprocess, ParentKeeps, Goto, Throw
<1>20. CASE Linked
  BY <1>20 DEF Linked, LinkKeeps, Goto, Throw
<1>21. CASE LeaveLink
  BY <1>21 DEF LeaveLink, Cleaned, Flushed, LinkKeeps, Goto, Throw
<1>22. CASE LeaveStages
  BY <1>22 DEF LeaveStages, Cleaned, Flushed, Goto, Throw
<1>23. CASE Finalize
  BY <1>23 DEF Finalize, Close, Flushed, Lost, StageKeeps, Goto, Throw
<1>24. CASE Leave
  BY <1>24 DEF Leave, Flushed, Lost, Goto, Throw
<1>25. CASE HostCompiler
  BY <1>25 DEF HostCompiler, HostCompilerEnds, CommandEnds, Exit, ChildKeeps
<1>26. CASE UNCHANGED driver
  BY <1>26 DEF driver
<1> QED
  BY <1>1, <1>2, <1>3, <1>4, <1>5, <1>6, <1>7, <1>8, <1>9, <1>10, <1>11, <1>12, <1>13, <1>14, <1>15, <1>16, <1>17, <1>18, <1>19, <1>20, <1>21, <1>22, <1>23, <1>24, <1>25, <1>26
  DEF Next, Compile, vars

\* The compiler stays at the link until the subprocess call has reported.
LEMMA WaitedStep ==
  ASSUME Kept, Told, [Next]_vars
  PROVE  Waited'
<1> USE CommandLine DEF subprocess, Kept, Told, SubprocessTypeOK, Abandoned, BeforeExec, Progress, Registered, Waited, Stages, Printing, Compiling, Temporary, Named, Files, Sources, WithRuntime, WithAssembly, Linking, WithFirm, WayOut
<1>1. CASE Answer
  BY <1>1 DEF Answer, Goto, Throw
<1>2. CASE Call
  BY <1>2 DEF Call, Goto, Throw
<1>3. CASE LoadInput
  BY <1>3 DEF LoadInput, Goto, Throw
<1>4. CASE OpenOutput
  BY <1>4 DEF OpenOutput, Opened, Goto, Throw
<1>5. CASE ReadTruncated
  BY <1>5 DEF ReadTruncated, Goto, Throw
<1>6. CASE PrintInput
  BY <1>6 DEF PrintInput, Written, ThenOrThrow, StageKeeps, Goto, Throw
<1>7. CASE Parse
  BY <1>7 DEF Parse, StageKeeps, Goto, Throw
<1>8. CASE PrintAst
  BY <1>8 DEF PrintAst, Written, ThenOrThrow, StageKeeps, Goto, Throw
<1>9. CASE CheckProgram
  BY <1>9 DEF CheckProgram, StageKeeps, Goto, Throw
<1>10. CASE InitializeFirm
  BY <1>10 DEF InitializeFirm, FirmKeeps, Goto, Throw
<1>11. CASE Optimize
  BY <1>11 DEF Optimize, FirmKeeps, Goto, Throw
<1>12. CASE DefaultOutput
  BY <1>12 DEF DefaultOutput, Opened, LinkKeeps, Goto, Throw
<1>13. CASE OpenAssembly
  BY <1>13 DEF OpenAssembly, OpenTemporary, Opened, LinkKeeps, Goto, Throw
<1>14. CASE Emit
  BY <1>14 DEF Emit, WriteTemporary, Written, ThenOrThrow, LinkKeeps, Goto, Throw
<1>15. CASE CloseAssembly
  BY <1>15 DEF CloseAssembly, Close, Flushed, Lost, LinkKeeps, Goto, Throw
<1>16. CASE OpenRuntime
  BY <1>16 DEF OpenRuntime, OpenTemporary, Opened, LinkKeeps, Goto, Throw
<1>17. CASE WriteRuntime
  BY <1>17 DEF WriteRuntime, WriteTemporary, Written, ThenOrThrow, LinkKeeps, Goto, Throw
<1>18. CASE CloseRuntime
  BY <1>18 DEF CloseRuntime, Close, Flushed, Lost, LinkKeeps, Goto, Throw
<1>19. CASE Link
  BY <1>19 DEF Link, driver, RunSubprocess, ParentKeeps, Goto, Throw
<1>20. CASE Linked
  BY <1>20 DEF Linked, LinkKeeps, Goto, Throw
<1>21. CASE LeaveLink
  BY <1>21 DEF LeaveLink, Cleaned, Flushed, LinkKeeps, Goto, Throw
<1>22. CASE LeaveStages
  BY <1>22 DEF LeaveStages, Cleaned, Flushed, Goto, Throw
<1>23. CASE Finalize
  BY <1>23 DEF Finalize, Close, Flushed, Lost, StageKeeps, Goto, Throw
<1>24. CASE Leave
  BY <1>24 DEF Leave, Flushed, Lost, Goto, Throw
<1>25. CASE HostCompiler
  BY <1>25 DEF HostCompiler, HostCompilerEnds, CommandEnds, Exit, ChildKeeps
<1>26. CASE (Parent \/ ReadFails \/ WaitFails \/ Child \/ Killed) /\ UNCHANGED driver
  <2> USE <1>26 DEF driver
  <2>1. CASE CreatePipe
    BY <2>1 DEF CreatePipe, Finish, ParentKeeps
  <2>2. CASE Fork
    BY <2>2 DEF Fork, Finish
  <2>3. CASE CloseWriteEnd
    BY <2>3 DEF CloseWriteEnd, ParentKeeps
  <2>4. CASE ReadCode
    BY <2>4 DEF ReadCode, Finish, ParentKeeps
  <2>5. CASE ReadEndOfFile
    BY <2>5 DEF ReadEndOfFile, ParentKeeps
  <2>6. CASE ReadFails
    BY <2>6 DEF ReadFails, Finish, ParentKeeps
  <2>7. CASE Wait
    BY <2>7 DEF Wait, Finish, Meaning
  <2>8. CASE WaitFails
    BY <2>8 DEF WaitFails, Finish
  <2>9. CASE CloseReadEnd
    BY <2>9 DEF CloseReadEnd, ChildKeeps
  <2>10. CASE Execute
    BY <2>10 DEF Execute, ChildKeeps
  <2>11. CASE WriteError
    BY <2>11 DEF WriteError, Exit, ChildKeeps
  <2>12. CASE Killed
    BY <2>12 DEF Killed, Exit, ChildKeeps
  <2> QED BY <2>1, <2>2, <2>3, <2>4, <2>5, <2>6, <2>7, <2>8, <2>9, <2>10, <2>11, <2>12 DEF Parent, Child
<1>27. CASE UNCHANGED vars
  BY <1>27 DEF vars, driver
<1> QED
  BY <1>1, <1>2, <1>3, <1>4, <1>5, <1>6, <1>7, <1>8, <1>9, <1>10, <1>11, <1>12, <1>13, <1>14, <1>15, <1>16, <1>17, <1>18, <1>19, <1>20, <1>21, <1>22, <1>23, <1>24, <1>25, <1>26, <1>27
  DEF Next, Compile, vars

\* What the destination holds at each place on the way to success.
LEMMA ProducedStep ==
  ASSUME Kept, Told, [Next]_vars
  PROVE  Produced'
<1> USE CommandLine DEF subprocess, Kept, Told, SubprocessTypeOK, Abandoned, BeforeExec, DriverTypeOK, ControlTypeOK, StoreTypeOK, SuccessMeansDone, Progress, Connected, Guarded, Waited, Produced, Destination, Stages, Printing, Compiling, Temporary, Named, Files, Sources, WithRuntime, WithAssembly, Linking, WithFirm, WayOut
<1>1. CASE Answer
  BY <1>1 DEF Answer, Goto, Throw
<1>2. CASE Call
  BY <1>2 DEF Call, Goto, Throw
<1>3. CASE LoadInput
  BY <1>3 DEF LoadInput, Goto, Throw
<1>4. CASE OpenOutput
  BY <1>4 DEF OpenOutput, Opened, Goto, Throw
<1>5. CASE ReadTruncated
  BY <1>5 DEF ReadTruncated, Goto, Throw
<1>6. CASE PrintInput
  BY <1>6 DEF PrintInput, Written, ThenOrThrow, StageKeeps, Goto, Throw
<1>7. CASE Parse
  BY <1>7 DEF Parse, StageKeeps, Goto, Throw
<1>8. CASE PrintAst
  BY <1>8 DEF PrintAst, Written, ThenOrThrow, StageKeeps, Goto, Throw
<1>9. CASE CheckProgram
  BY <1>9 DEF CheckProgram, StageKeeps, Goto, Throw
<1>10. CASE InitializeFirm
  BY <1>10 DEF InitializeFirm, FirmKeeps, Goto, Throw
<1>11. CASE Optimize
  BY <1>11 DEF Optimize, FirmKeeps, Goto, Throw
<1>12. CASE DefaultOutput
  BY <1>12 DEF DefaultOutput, Opened, LinkKeeps, Goto, Throw
<1>13. CASE OpenAssembly
  BY <1>13 DEF OpenAssembly, OpenTemporary, Opened, LinkKeeps, Goto, Throw
<1>14. CASE Emit
  BY <1>14 DEF Emit, WriteTemporary, Written, ThenOrThrow, LinkKeeps, Goto, Throw
<1>15. CASE CloseAssembly
  BY <1>15 DEF CloseAssembly, Close, Flushed, Lost, LinkKeeps, Goto, Throw
<1>16. CASE OpenRuntime
  BY <1>16 DEF OpenRuntime, OpenTemporary, Opened, LinkKeeps, Goto, Throw
<1>17. CASE WriteRuntime
  BY <1>17 DEF WriteRuntime, WriteTemporary, Written, ThenOrThrow, LinkKeeps, Goto, Throw
<1>18. CASE CloseRuntime
  BY <1>18 DEF CloseRuntime, Close, Flushed, Lost, LinkKeeps, Goto, Throw
<1>19. CASE Link
  BY <1>19 DEF Link, driver, RunSubprocess, ParentKeeps, Goto, Throw
<1>20. CASE Linked
  <2>1. CASE report = "ok"
    <3>1. executed /\ status = "zero"
      BY <2>1 DEF Promise!Truthful
    <3> QED BY <1>20, <2>1, <3>1 DEF Linked, LinkKeeps, Goto
  <2>2. CASE report # "ok"
    BY <1>20, <2>2 DEF Linked, LinkKeeps, Throw
  <2> QED BY <2>1, <2>2
<1>21. CASE LeaveLink
  BY <1>21 DEF LeaveLink, Cleaned, Flushed, LinkKeeps, Goto, Throw
<1>22. CASE LeaveStages
  BY <1>22 DEF LeaveStages, Cleaned, Flushed, Goto, Throw
<1>23. CASE Finalize
  BY <1>23 DEF Finalize, Close, Flushed, Lost, StageKeeps, Goto, Throw
<1>24. CASE Leave
  BY <1>24 DEF Leave, Flushed, Lost, Goto, Throw
<1>25. CASE HostCompiler
  BY <1>25 DEF HostCompiler, HostCompilerEnds, CommandEnds, Exit, ChildKeeps
<1>26. CASE (Parent \/ ReadFails \/ WaitFails \/ Child \/ Killed) /\ UNCHANGED driver
  <2> USE <1>26 DEF driver
  <2>1. CASE CreatePipe
    BY <2>1 DEF CreatePipe, Finish, ParentKeeps
  <2>2. CASE Fork
    BY <2>2 DEF Fork, Finish
  <2>3. CASE CloseWriteEnd
    BY <2>3 DEF CloseWriteEnd, ParentKeeps
  <2>4. CASE ReadCode
    BY <2>4 DEF ReadCode, Finish, ParentKeeps
  <2>5. CASE ReadEndOfFile
    BY <2>5 DEF ReadEndOfFile, ParentKeeps
  <2>6. CASE ReadFails
    BY <2>6 DEF ReadFails, Finish, ParentKeeps
  <2>7. CASE Wait
    BY <2>7 DEF Wait, Finish, Meaning
  <2>8. CASE WaitFails
    BY <2>8 DEF WaitFails, Finish
  <2>9. CASE CloseReadEnd
    BY <2>9 DEF CloseReadEnd, ChildKeeps
  <2>10. CASE Execute
    BY <2>10 DEF Execute, ChildKeeps
  <2>11. CASE WriteError
    BY <2>11 DEF WriteError, Exit, ChildKeeps
  <2>12. CASE Killed
    BY <2>12 DEF Killed, Exit, ChildKeeps
  <2> QED BY <2>1, <2>2, <2>3, <2>4, <2>5, <2>6, <2>7, <2>8, <2>9, <2>10, <2>11, <2>12 DEF Parent, Child
<1>27. CASE UNCHANGED vars
  BY <1>27 DEF vars, driver
<1> QED
  BY <1>1, <1>2, <1>3, <1>4, <1>5, <1>6, <1>7, <1>8, <1>9, <1>10, <1>11, <1>12, <1>13, <1>14, <1>15, <1>16, <1>17, <1>18, <1>19, <1>20, <1>21, <1>22, <1>23, <1>24, <1>25, <1>26, <1>27
  DEF Next, Compile, vars

LEMMA KeptInit == Init => Kept
<1> SUFFICES ASSUME Init PROVE Kept
  OBVIOUS
<1> USE DEF Init, SubprocessInit
<1>1. ControlTypeOK
  <2>1. setup \in Setups /\ 0 \in 0..MaxCalls
    BY SetupsAssumption
  <2> QED BY <2>1 DEF ControlTypeOK, Places, Sources
<1>2. StoreTypeOK
  BY DEF StoreTypeOK, Registrable, Files, Temporary, Contents, Streams
<1>3. Progress /\ Registered
  BY DEF Progress, Registered, WayOut, WithFirm, WithAssembly, WithRuntime, Linking
<1>4. Connected /\ Guarded
  BY DEF Connected, Guarded, Linking, Files, Temporary, WithAssembly, WithRuntime
<1>5. Waited /\ Produced
  BY DEF Waited, Produced, SuccessMeansDone, Abandoned
<1> QED BY <1>1, <1>2, <1>3, <1>4, <1>5 DEF Kept, DriverTypeOK

\* The invariant that relates the place the compiler is at to everything else.
THEOREM KeptAlways == Spec => []Kept
<1>1. Kept /\ Told /\ [Next]_vars => Kept'
  BY ControlTypeOKStep, StoreTypeOKStep, ProgressStep, RegisteredStep, ConnectedStep, GuardedStep, WaitedStep, ProducedStep
  DEF Kept, DriverTypeOK
<1> QED BY <1>1, KeptInit, ToldAlways, PTL DEF Spec

\* Type correctness, and that between two calls nothing is left open, guarded
\* or in libfirm.
THEOREM Typed == Spec => []TypeOK
<1>1. Kept /\ Told => TypeOK
  <2> SUFFICES ASSUME Kept, Told PROVE TypeOK
    OBVIOUS
  <2>1. ASSUME pc = "idle" PROVE AtRest
    <3>1. guards = {} /\ firm # "live"
      BY <2>1 DEF Kept, Guarded, Registered, DriverTypeOK, StoreTypeOK, Temporary,
                  WithFirm, WithAssembly, WithRuntime
    <3>2. input = "none" /\ out = "none"
      BY <2>1 DEF Kept, Connected
    <3>3. ASSUME NEW f \in Files PROVE streams[f] = "closed"
      <4>1. CASE f \in Temporary
        BY <3>1, <4>1 DEF Kept, Guarded
      <4>2. CASE f \notin Temporary
        BY <3>2, <4>2 DEF Kept, Connected, Files
      <4> QED BY <4>1, <4>2
    <3> QED BY <3>1, <3>2, <3>3 DEF AtRest
  <2> QED BY <2>1 DEF TypeOK, Kept, Told
<1> QED BY <1>1, KeptAlways, ToldAlways, PTL

\* real_main does not return normally unless its output is complete.
THEOREM Success == Spec => []SuccessMeansDone
<1>1. Kept => SuccessMeansDone
  BY DEF Kept, Produced
<1> QED BY <1>1, KeptAlways, PTL

\* The host compiler never reads a file that is not complete.
THEOREM CompleteFiles == Spec => []LinkerSeesCompleteFiles
<1>1. Kept => LinkerSeesCompleteFiles
  <2> SUFFICES ASSUME Kept, child = "running", report # "system",
                      NEW f \in Temporary
               PROVE  files[f] = "text" /\ streams[f] = "closed"
    BY DEF LinkerSeesCompleteFiles
  <2>1. pc = "link"
    BY DEF Kept, Waited, Abandoned
  <2> QED BY <2>1 DEF Kept, Guarded, Temporary
<1> QED BY <1>1, KeptAlways, PTL

\* However a call of real_main ends, its temporary files are gone.
THEOREM TemporariesRemoved == Spec => []NoTemporaryLeft
<1>1. Kept => NoTemporaryLeft
  BY DEF Kept, Guarded, NoTemporaryLeft, Temporary, WithAssembly, WithRuntime
<1> QED BY <1>1, KeptAlways, PTL

\* The global list of optimizations never mixes two command lines.
THEOREM Optimizations == Spec => []OptimizedAsRequested
<1>1. Kept => OptimizedAsRequested
  BY DEF Kept, Registered, OptimizedAsRequested, Compiling
<1> QED BY <1>1, KeptAlways, PTL

\* The a.out of an earlier run is only ever replaced for a program that was
\* accepted and for which no other output was named.
THEOREM OlderProgramKept == Spec => DefaultOutputKept
<1> DEFINE OnlyAccepted ==
      files'["a.out"] # files["a.out"] =>
        source = "good" /\ setup.stage \in Compiling /\ setup.output = "-"
<1>1. Kept /\ [Next]_vars => OnlyAccepted
  <2> SUFFICES ASSUME Kept, [Next]_vars, files'["a.out"] # files["a.out"]
               PROVE  source = "good" /\ setup.stage \in Compiling /\ setup.output = "-"
    OBVIOUS
  <2>1. setup.output \in Named /\ (out = "a.out" => source = "good"
                            /\ setup.stage \in Compiling /\ setup.output = "-")
    BY CommandLine DEF Kept, Connected
  <2>2. files \in [Files -> Contents]
    BY DEF Kept, DriverTypeOK, StoreTypeOK
  <2>3. CASE Answer \/ Call \/ LoadInput \/ ReadTruncated \/ Parse \/ CheckProgram
    BY <2>2, <2>3 DEF Answer, Call, LoadInput, ReadTruncated, Parse, CheckProgram, Files
  <2>4. CASE OpenOutput
    BY <2>1, <2>2, <2>4 DEF OpenOutput, Opened, Named, Files
  <2>5. CASE PrintInput \/ PrintAst
    BY <2>1, <2>2, <2>5 DEF PrintInput, PrintAst, Written, Files
  <2>6. CASE InitializeFirm \/ Optimize \/ Link \/ Linked
    BY <2>6 DEF InitializeFirm, Optimize, FirmKeeps, Link, driver, Linked
  <2>7. CASE DefaultOutput
    <3>1. pc = "output" /\ out = "stdout"
      BY <2>2, <2>7 DEF DefaultOutput, Files
    <3>2. source = "good" /\ setup.stage \in Compiling
      BY <3>1 DEF Kept, Progress, WithFirm
    <3> QED BY <2>1, <3>1, <3>2 DEF Kept, Connected, Named
  <2>8. CASE OpenAssembly \/ OpenRuntime
    BY <2>2, <2>8 DEF OpenAssembly, OpenRuntime, OpenTemporary, Opened, Files
  <2>9. CASE Emit \/ WriteRuntime
    BY <2>2, <2>9 DEF Emit, WriteRuntime, WriteTemporary, Written, Files
  <2>10. CASE CloseAssembly \/ CloseRuntime
    BY <2>2, <2>10 DEF CloseAssembly, CloseRuntime, Close, Files
  <2>11. CASE LeaveLink \/ LeaveStages
    BY <2>2, <2>11 DEF LeaveLink, LeaveStages, Cleaned, Files
  <2>12. CASE Finalize
    BY <2>1, <2>2, <2>12 DEF Finalize, Close, Files
  <2>13. CASE Leave
    BY <2>1, <2>2, <2>13 DEF Leave, Files
  <2>14. ASSUME NEW s \in {"zero", "nonzero", "signal"}, HostCompilerEnds(s)
         PROVE  source = "good" /\ setup.stage \in Compiling /\ setup.output = "-"
    <3>1. source = "good" /\ setup.stage \in Compiling
      BY <2>14 DEF HostCompilerEnds, CommandEnds, Abandoned, Kept, Waited
    <3>2. Destination = "a.out"
      BY <2>2, <2>14 DEF HostCompilerEnds, Files
    <3> QED BY <2>1, <3>1, <3>2 DEF Destination, Named
  <2>15. CASE UNCHANGED driver
    BY <2>15 DEF driver
  <2> QED
    BY <2>3, <2>4, <2>5, <2>6, <2>7, <2>8, <2>9, <2>10, <2>11, <2>12, <2>13, <2>14, <2>15
    DEF Next, Compile, HostCompiler, vars
<1>2. Kept /\ [Next]_vars => [OnlyAccepted]_vars
  BY <1>1
<1> QED BY <1>2, KeptAlways, PTL DEF Spec, DefaultOutputKept

=============================================================================
