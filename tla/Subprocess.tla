----------------------------- MODULE Subprocess -----------------------------
(***************************************************************************)
(* run_subprocess on a POSIX system                                        *)
(* (src/src/core/system/subprocess_posix.tpp): parent and child after the  *)
(* fork, and the pipe by which the child says that it could not execute    *)
(* the command.  Its write end is closed by a successful exec, so the      *)
(* parent reads either an error or the end of the file.                    *)
(*                                                                         *)
(* A call interrupted by a signal is tried again by both sides, which is a *)
(* stuttering step.  The variables are those of one call: a process of the *)
(* compiler makes no second one, since it initialises libfirm only once.   *)
(***************************************************************************)
VARIABLES
  parent,     \* "idle" before and after the call
  parentEnds, \* ends of the pipe the parent has open
  child,
  childEnds,
  pipe,       \* the child has written to the pipe
  executed, status, report

subprocess == <<parent, parentEnds, child, childEnds, pipe, executed, status, report>>

Ends == {"read", "write"}

SubprocessTypeOK ==
  /\ parent \in {"idle", "pipe", "fork", "close", "read", "wait"}
  /\ child \in {"none", "close", "exec", "write", "running", "zombie", "reaped"}
  /\ parentEnds \subseteq Ends
  /\ childEnds \subseteq Ends
  /\ pipe \in BOOLEAN
  /\ executed \in BOOLEAN
  /\ status \in {"none", "zero", "nonzero", "signal"}
  /\ report \in {"none", "ok", "failed", "abnormal", "unstarted", "system"}

SubprocessInit ==
  /\ parent = "idle"
  /\ child = "none"
  /\ parentEnds = {}
  /\ childEnds = {}
  /\ pipe = FALSE
  /\ executed = FALSE
  /\ status = "none"
  /\ report = "none"

-----------------------------------------------------------------------------
(* The parent.  However do_run_subprocess is left, its ends are closed.    *)

ParentKeeps == UNCHANGED <<child, childEnds, pipe, executed, status>>

Finish(r) ==
  /\ parent' = "idle"
  /\ parentEnds' = {}
  /\ report' = r

RunSubprocess ==
  /\ parent = "idle"
  /\ parent' = "pipe"
  /\ UNCHANGED <<parentEnds, report>>
  /\ ParentKeeps

CreatePipe ==
  /\ parent = "pipe"
  /\ \/ parent' = "fork" /\ parentEnds' = Ends /\ UNCHANGED report
     \/ Finish("system")
  /\ ParentKeeps

Fork ==
  /\ parent = "fork"
  /\ \/ /\ parent' = "close"
        /\ child' = "close"
        /\ childEnds' = parentEnds
        /\ UNCHANGED <<parentEnds, report>>
     \/ /\ Finish("system")
        /\ UNCHANGED <<child, childEnds>>
  /\ UNCHANGED <<pipe, executed, status>>

\* A plausible bug: the parent keeps the end it does not need.
CloseWriteEndForgotten ==
  /\ parent = "close"
  /\ parent' = "read"
  /\ UNCHANGED <<parentEnds, report>>
  /\ ParentKeeps

CloseWriteEnd ==
  /\ parent = "close"
  /\ parent' = "read"
  /\ parentEnds' = parentEnds \ {"write"}
  /\ UNCHANGED report
  /\ ParentKeeps

\* A plausible bug: what was read is not looked at.
ReadCodeIgnored ==
  /\ parent = "read"
  /\ pipe
  /\ parent' = "wait"
  /\ UNCHANGED <<parentEnds, report>>
  /\ ParentKeeps

\* The child is not waited for when the command could not be executed.
ReadCode ==
  /\ parent = "read"
  /\ pipe
  /\ Finish("unstarted")
  /\ ParentKeeps

ReadEndOfFile ==
  /\ parent = "read"
  /\ ~pipe
  /\ "write" \notin parentEnds \cup childEnds
  /\ parent' = "wait"
  /\ UNCHANGED <<parentEnds, report>>
  /\ ParentKeeps

ReadFails ==
  /\ parent = "read"
  /\ Finish("system")
  /\ ParentKeeps

Meaning(s) ==
  CASE s = "zero" -> "ok" [] s = "nonzero" -> "failed" [] s = "signal" -> "abnormal"

Wait ==
  /\ parent = "wait"
  /\ child = "zombie"
  /\ child' = "reaped"
  /\ Finish(Meaning(status))
  /\ UNCHANGED <<childEnds, pipe, executed, status>>

\* The system reaps a child itself if SIGCHLD is ignored; waitpid then fails
\* once the child has ended.
WaitFails ==
  /\ parent = "wait"
  /\ child = "zombie"
  /\ child' = "reaped"
  /\ Finish("system")
  /\ UNCHANGED <<childEnds, pipe, executed, status>>

-----------------------------------------------------------------------------
(* The child. *)

ChildKeeps == UNCHANGED <<parent, parentEnds, report>>

CloseReadEnd ==
  /\ child = "close"
  /\ child' = "exec"
  /\ childEnds' = childEnds \ {"read"}
  /\ UNCHANGED <<pipe, executed, status>>
  /\ ChildKeeps

Execute ==
  /\ child = "exec"
  /\ \/ child' = "running" /\ executed' = TRUE /\ childEnds' = childEnds \ {"write"}
     \/ child' = "write" /\ UNCHANGED <<executed, childEnds>>
  /\ UNCHANGED <<pipe, status>>
  /\ ChildKeeps

Exit(s) ==
  /\ child' = "zombie"
  /\ status' = s
  /\ childEnds' = {}
  /\ UNCHANGED executed
  /\ ChildKeeps

\* Nobody can read: the write fails, or its signal ends the child.
WriteError ==
  /\ child = "write"
  /\ IF "read" \in parentEnds
     THEN pipe' = TRUE /\ Exit("zero")
     ELSE UNCHANGED pipe /\ \E s \in {"nonzero", "signal"} : Exit(s)

\* A signal ends the child before it becomes the command.
Killed ==
  /\ child \in {"close", "exec", "write"}
  /\ Exit("signal")
  /\ UNCHANGED pipe

\* The command ends, sooner or later and one way or another.
CommandEnds(s) ==
  /\ child = "running"
  /\ Exit(s)
  /\ UNCHANGED pipe
=============================================================================
