--------------------------- MODULE SchedulerProcess --------------------------
(***************************************************************************)
(* The scheduler process: one thread per recovery activity, a main loop    *)
(* that watches them and writes the heartbeat, and the container runtime   *)
(* that starts the process again.  What the activities do to the database  *)
(* and the storage is the subject of the other modules; here a run of one  *)
(* ends, fails, kills its thread or blocks for ever.                       *)
(***************************************************************************)
EXTENDS FiniteSets

CONSTANT Activities

ASSUME ActivitiesAssumption == IsFiniteSet(Activities) /\ Activities # {}

VARIABLES main,      \* where the main thread stands, "down" without a process
          act,       \* the thread of each activity
          overdue,   \* activities whose run is older than its max_runtime
          stopping,  \* stop_event of the process
          wanted,    \* the operator has not stopped the container
          beat,      \* the heartbeat file exists
          status     \* the exit status of the process that is leaving or left

schedulerVars == <<main, act, overdue, stopping, wanted, beat, status>>

SchedulerTypeOK ==
  /\ main \in {"down", "looping", "checking", "beating", "sleeping", "leaving"}
  /\ act \in [Activities -> {"none", "waiting", "running", "ended", "died"}]
  /\ overdue \subseteq Activities
  /\ stopping \in BOOLEAN /\ wanted \in BOOLEAN /\ beat \in BOOLEAN
  /\ status \in {"none", "zero", "one", "raised"}

SchedulerInit ==
  /\ main = "down" /\ status = "none"
  /\ act = [a \in Activities |-> "none"]
  /\ overdue = {}
  /\ stopping = FALSE /\ wanted = TRUE /\ beat = FALSE

SetThread(a, s) == act' = [act EXCEPT ![a] = s]
ThreadsKept == UNCHANGED <<act, overdue>>

-----------------------------------------------------------------------------
(* The threads of the activities *)

\* _execute: the first run at once, later ones after the interval.
Begin(a) ==
  /\ act[a] = "waiting" /\ ~stopping
  /\ SetThread(a, "running")
  /\ UNCHANGED <<main, overdue, stopping, wanted, beat, status>>

\* The callback returns or raises an exception: both leave the loop running.
Ends(a) ==
  /\ act[a] = "running"
  /\ SetThread(a, IF stopping THEN "ended" ELSE "waiting")
  /\ overdue' = overdue \ {a}
  /\ UNCHANGED <<main, stopping, wanted, beat, status>>

\* What the except clause does not catch ends the thread.
Dies(a) ==
  /\ act[a] = "running"
  /\ SetThread(a, "died")
  /\ overdue' = overdue \ {a}
  /\ UNCHANGED <<main, stopping, wanted, beat, status>>

\* stop_event wakes a waiting thread.
Leaves(a) ==
  /\ act[a] = "waiting" /\ stopping
  /\ SetThread(a, "ended")
  /\ UNCHANGED <<main, overdue, stopping, wanted, beat, status>>

\* Time passes: max_runtime is over.
Overruns(a) ==
  /\ act[a] = "running" /\ a \notin overdue
  /\ overdue' = overdue \union {a}
  /\ UNCHANGED <<main, act, stopping, wanted, beat, status>>

-----------------------------------------------------------------------------
(* The main thread *)

\* The container runtime starts the process: restart unless stopped.
Start ==
  /\ main = "down" /\ wanted
  /\ main' = "looping" /\ status' = "none"
  /\ act' = [a \in Activities |-> "waiting"]
  /\ UNCHANGED <<overdue, stopping, wanted, beat>>

Loop ==
  /\ main = "looping"
  /\ IF stopping THEN main' = "leaving" /\ status' = "zero"
                 ELSE main' = "checking" /\ UNCHANGED status
  /\ UNCHANGED <<stopping, wanted, beat>> /\ ThreadsKept

Lifeless == {a \in Activities : act[a] \in {"ended", "died"}}
\* Mutant: a thread that is alive is healthy.
UnhealthyIfLifeless == Lifeless
Unhealthy == Lifeless \union overdue

\* A blocked or dead activity ends the process.
CheckHealth ==
  /\ main = "checking"
  /\ IF Unhealthy # {} THEN main' = "leaving" /\ status' = "one"
                       ELSE main' = "beating" /\ UNCHANGED status
  /\ UNCHANGED <<stopping, wanted, beat>> /\ ThreadsKept

\* Publication to Redis is best effort; the file may fail (a full disk).
WriteHeartbeat ==
  /\ main = "beating"
  /\ main' \in {"sleeping", "leaving"}
  /\ beat' = (IF main' = "sleeping" THEN TRUE ELSE beat)
  /\ status' = IF main' = "leaving" THEN "raised" ELSE status
  /\ UNCHANGED <<stopping, wanted>> /\ ThreadsKept

Sleep ==
  /\ main = "sleeping"
  /\ main' = "looping"
  /\ UNCHANGED <<stopping, wanted, beat, status>> /\ ThreadsKept

\* stop(): the event, then up to two seconds for the threads to notice it.
Stop ==
  /\ main = "leaving" /\ ~stopping
  /\ stopping' = TRUE
  /\ UNCHANGED <<main, beat, status, wanted>> /\ ThreadsKept

\* The heartbeat file goes, and the daemon threads end with the process.
ProcessExits ==
  /\ main = "leaving" /\ stopping
  /\ main' = "down" /\ beat' = FALSE /\ stopping' = FALSE
  /\ act' = [a \in Activities |-> "none"]
  /\ overdue' = {}
  /\ UNCHANGED <<status, wanted>>

\* The process is killed: the file stays behind.
Killed ==
  /\ main # "down"
  /\ main' = "down" /\ stopping' = FALSE /\ status' = "raised"
  /\ act' = [a \in Activities |-> "none"]
  /\ overdue' = {}
  /\ UNCHANGED <<beat, wanted>>

\* The operator stops the container, with SIGTERM to the process, or wants it
\* again.
Terminate ==
  /\ wanted /\ wanted' = FALSE
  /\ stopping' = (main # "down")
  /\ UNCHANGED <<main, beat, status>> /\ ThreadsKept

Resume ==
  /\ ~wanted /\ main = "down"
  /\ wanted' = TRUE
  /\ UNCHANGED <<main, beat, stopping, status>> /\ ThreadsKept

-----------------------------------------------------------------------------
MainLoop == Loop \/ CheckHealth \/ WriteHeartbeat \/ Sleep \/ Stop \/ ProcessExits
SchedulerNext ==
  \/ \E a \in Activities : Begin(a) \/ Ends(a) \/ Dies(a) \/ Leaves(a) \/ Overruns(a)
  \/ Start \/ MainLoop \/ Killed \/ Terminate \/ Resume

SchedulerSpec == SchedulerInit /\ [][SchedulerNext]_schedulerVars

-----------------------------------------------------------------------------
\* Every activity runs again and again unless the operator keeps stopping the
\* process: callbacks that fail, block for ever or kill their thread, and a
\* heartbeat that cannot be written, only delay the others (the module's
\* comment, unhealthy_actions and run).  The fairness is that of Processes.
ActivitiesRecur ==
  []<>~wanted \/ \A a \in Activities : []<><<Begin(a)>>_schedulerVars

=============================================================================
