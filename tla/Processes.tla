------------------------------ MODULE Processes ------------------------------
(***************************************************************************)
(* The parts of the system that share no state with the job machinery nor  *)
(* with each other: request admission and the chart queries of an API      *)
(* process, an engine execution, the scheduler process, the browser's undo *)
(* and the maintenance backup.  A behaviour of this specification is a     *)
(* behaviour of one of them, chosen at the start.                          *)
(***************************************************************************)
EXTENDS UploadGuard, ChartQueries, EngineRunner, SchedulerProcess, UndoIntents, Backup

VARIABLE part

vars == <<part, uploadVars, chartVars, engineVars, schedulerVars, undoVars, backupVars>>

Init ==
  /\ part \in {"uploads", "charts", "engine", "scheduler", "undo", "backup"}
  /\ UploadInit /\ ChartInit /\ EngineInit /\ SchedulerInit /\ UndoInit /\ BackupInit

Uploads ==
  /\ part = "uploads" /\ UploadNext
  /\ UNCHANGED <<part, chartVars, engineVars, schedulerVars, undoVars, backupVars>>
Charting ==
  /\ part = "charts" /\ ChartNext
  /\ UNCHANGED <<part, uploadVars, engineVars, schedulerVars, undoVars, backupVars>>
Engine ==
  /\ part = "engine" /\ EngineNext
  /\ UNCHANGED <<part, uploadVars, chartVars, schedulerVars, undoVars, backupVars>>
Scheduling ==
  /\ part = "scheduler" /\ SchedulerNext
  /\ UNCHANGED <<part, uploadVars, chartVars, engineVars, undoVars, backupVars>>
Undoing ==
  /\ part = "undo" /\ UndoNext
  /\ UNCHANGED <<part, uploadVars, chartVars, engineVars, schedulerVars, backupVars>>
BackingUp ==
  /\ part = "backup" /\ BackupNext
  /\ UNCHANGED <<part, uploadVars, chartVars, engineVars, schedulerVars, undoVars>>

Next == Uploads \/ Charting \/ Engine \/ Scheduling \/ Undoing \/ BackingUp

\* The supervising thread is scheduled and the threads of a child run; nothing
\* makes a child finish, or read its request.
EngineFairness ==
  /\ WF_engineVars(part = "engine" /\ Supervise)
  /\ WF_engineVars(part = "engine" /\ InputCloses)
  /\ WF_engineVars(part = "engine" /\ Adopted)

\* The runtime starts a process that is wanted, the main loop runs and time
\* passes.  A thread that Start created gets to run before its process is gone,
\* often enough; nothing makes a callback end.
SchedulerFairness ==
  /\ WF_schedulerVars(part = "scheduler" /\ Start)
  /\ WF_schedulerVars(part = "scheduler" /\ MainLoop)
  /\ \A a \in Activities :
       /\ SF_schedulerVars(part = "scheduler" /\ Begin(a))
       /\ WF_schedulerVars(part = "scheduler" /\ Overruns(a))

Spec == Init /\ [][Next]_vars /\ EngineFairness /\ SchedulerFairness

-----------------------------------------------------------------------------
\* In the scheduler's behaviours its activities recur (SchedulerProcess).
SchedulerRecurs == part = "scheduler" => ActivitiesRecur

=============================================================================
