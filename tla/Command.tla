------------------------------- MODULE Command -------------------------------
(***************************************************************************)
(* What run_subprocess promises (src/src/core/system/subprocess.hpp): it   *)
(* returns if the command was executed and succeeded, and throws           *)
(*   "failed"     if the command was executed and exited unsuccessfully,   *)
(*   "abnormal"   if the process was ended by a signal,                    *)
(*   "unstarted"  if the command could not be executed,                    *)
(*   "system"     if the process could not be created or waited for.       *)
(***************************************************************************)
VARIABLES
  executed, \* the process has become the command
  status,   \* how the process ended
  report    \* how run_subprocess ended

vars == <<executed, status, report>>

Statuses == {"none", "zero", "nonzero", "signal"}
Reports == {"none", "ok", "failed", "abnormal", "unstarted", "system"}

Truthful(r) ==
  /\ r = "ok" => executed /\ status = "zero"
  /\ r = "failed" => executed /\ status = "nonzero"
  /\ r = "abnormal" => status = "signal"
  /\ r = "unstarted" => ~executed

Init ==
  /\ executed = FALSE
  /\ status = "none"
  /\ report = "none"

Execute ==
  /\ ~executed
  /\ status = "none"
  /\ report # "unstarted"
  /\ executed' = TRUE
  /\ UNCHANGED <<status, report>>

End ==
  /\ status = "none"
  /\ status' \in Statuses \ {"none"}
  /\ UNCHANGED <<executed, report>>

Report ==
  /\ report = "none"
  /\ report' \in Reports \ {"none"}
  /\ Truthful(report')
  /\ UNCHANGED <<executed, status>>

Next == Execute \/ End \/ Report

Spec == Init /\ [][Next]_vars
=============================================================================
