----------------------------- MODULE EngineRunner ----------------------------
(***************************************************************************)
(* One dataframe execution: the task thread that supervises it, and the    *)
(* fresh process that reads its request on stdin, answers on stdout and    *)
(* ends itself when nobody holds its stdin any more.                       *)
(*                                                                         *)
(* The request and the response are abstract; what the child computes is   *)
(* a choice.  A task run eagerly and the benchmark have no soft time       *)
(* limit, so the limit never fires by force.                               *)
(***************************************************************************)
EXTENDS Naturals

VARIABLES sup,       \* where the supervising thread stands
          outcome,   \* what _run_job did: "returned", "raised", or "none" so far
          child,     \* the child process
          code,      \* its exit status, once it has one
          output,    \* what it has written to stdout
          stdin,     \* whether some process holds the writing end of its stdin
          lost,      \* the job was cancelled or its lease went: checkpoints raise
          late,      \* the execution deadline has passed
          over,      \* a sampled budget is exceeded: memory, spill or output
          limited,   \* the soft time limit of the task has fired
          spill,     \* the managed spill directory exists
          large      \* the request is longer than a pipe holds

engineVars ==
  <<sup, outcome, child, code, output, stdin, lost, late, over, limited, spill, large>>

EngineTypeOK ==
  /\ sup \in {"idle", "launching", "writing", "waiting", "checking", "joining", "confirming",
              "killing", "reaping", "cleaning", "done", "dead"}
  /\ outcome \in {"none", "returned", "raised"}
  /\ child \in {"none", "reading", "working", "answered", "exited", "reaped"}
  /\ code \in {"none", "zero", "one", "memory", "signal"}
  /\ output \in {"none", "partial", "result", "error", "overflow"}
  /\ stdin \in {"open", "closed"}
  /\ lost \in BOOLEAN /\ late \in BOOLEAN /\ over \in BOOLEAN
  /\ limited \in BOOLEAN /\ spill \in BOOLEAN /\ large \in BOOLEAN

EngineInit ==
  /\ sup = "idle" /\ outcome = "none"
  /\ child = "none" /\ code = "none" /\ output = "none" /\ stdin = "closed"
  /\ lost = FALSE /\ late = FALSE /\ over = FALSE /\ limited = FALSE
  /\ spill = FALSE /\ large = FALSE

Alive == child \in {"reading", "working", "answered"}
ChildKept == UNCHANGED <<child, code, output>>
FilesKept == UNCHANGED <<spill, large>>
ClockKept == UNCHANGED <<lost, late, over, limited>>

-----------------------------------------------------------------------------
(* The supervising thread *)

\* The spill directory, the first checkpoint and the size of the request.
Prepare ==
  /\ sup = "idle"
  /\ spill' = TRUE
  /\ large' \in BOOLEAN
  /\ \/ sup' = "launching" /\ UNCHANGED outcome
     \/ sup' = "cleaning" /\ outcome' = "raised"
  /\ UNCHANGED stdin /\ ChildKept /\ ClockKept

\* Popen, then the thread that drains stdout; the try block begins after them.
Launch ==
  /\ sup = "launching" /\ child = "none"
  /\ child' = "reading" /\ stdin' = "open"
  /\ UNCHANGED <<sup, outcome, code, output>> /\ FilesKept /\ ClockKept

EnterTry ==
  /\ sup = "launching" /\ child # "none"
  /\ sup' = "writing"
  /\ UNCHANGED <<outcome, stdin>> /\ FilesKept /\ ChildKept /\ ClockKept

\* stdin.write blocks while the pipe is full and nobody reads it; it raises
\* when the child died before it had read everything.
WriteRequest ==
  /\ sup = "writing" /\ ~(large /\ child = "reading")
  /\ \/ sup' = "waiting" /\ UNCHANGED outcome
     \/ sup' = "killing" /\ outcome' = "raised" /\ ~Alive
  /\ UNCHANGED <<stdin>> /\ FilesKept /\ ChildKept /\ ClockKept

Overran == late
\* process.wait: the deadline first, then the exit or a timeout.
Wait ==
  /\ sup = "waiting"
  /\ \/ Overran /\ sup' = "killing" /\ outcome' = "raised"
     \/ ~Overran /\ child = "exited" /\ sup' = "joining" /\ UNCHANGED outcome
     \/ ~Overran /\ Alive /\ sup' = "checking" /\ UNCHANGED outcome
  /\ UNCHANGED <<stdin>> /\ FilesKept /\ ChildKept /\ ClockKept

MustStop == lost \/ late \/ over \/ output = "overflow"
\* After each checkpoint interval: lease, deadline, budgets, response size.
Check ==
  /\ sup = "checking"
  /\ IF MustStop THEN sup' = "killing" /\ outcome' = "raised"
                 ELSE sup' = "waiting" /\ UNCHANGED outcome
  /\ UNCHANGED <<stdin>> /\ FilesKept /\ ChildKept /\ ClockKept

Acceptable == output = "result" /\ code = "zero"
\* reader.join, and the response is parsed.
Judge ==
  /\ sup = "joining"
  /\ IF Acceptable THEN sup' = "confirming" /\ UNCHANGED outcome
                   ELSE sup' = "killing" /\ outcome' = "raised"
  /\ UNCHANGED <<stdin>> /\ FilesKept /\ ChildKept /\ ClockKept

\* The last checkpoint, before the response is returned.
Confirm ==
  /\ sup = "confirming"
  /\ sup' = "killing"
  /\ outcome' = IF lost THEN "raised" ELSE "returned"
  /\ UNCHANGED <<stdin>> /\ FilesKept /\ ChildKept /\ ClockKept

\* Mutant: only a child that overran is killed.
KillsIfLate == late
Kills == TRUE
\* finally: kill a child that has not exited.
Kill ==
  /\ sup = "killing"
  /\ sup' = "reaping"
  /\ IF Alive /\ Kills THEN child' = "exited" /\ code' = "signal" ELSE UNCHANGED <<child, code>>
  /\ UNCHANGED <<outcome, output, stdin>> /\ FilesKept /\ ClockKept

\* process.wait, reader.join, and both pipes are closed.
Reap ==
  /\ sup = "reaping" /\ child = "exited"
  /\ child' = "reaped" /\ stdin' = "closed" /\ sup' = "cleaning"
  /\ UNCHANGED <<outcome, code, output>> /\ FilesKept /\ ClockKept

\* rmtree; an error is ignored and the reservation of the artifact owns it.
RemoveSpill ==
  /\ sup = "cleaning"
  /\ sup' = "done"
  /\ spill' \in BOOLEAN
  /\ UNCHANGED <<outcome, stdin, large>> /\ ChildKept /\ ClockKept

\* SoftTimeLimitExceeded is raised once, wherever the thread is; inside the
\* try block the finally still runs.  Before it the draining thread may or may
\* not run yet, and in the finally it does: while the child lives that thread
\* holds the process object, and with it the writing end of stdin.
SoftLimit ==
  /\ sup \in {"launching", "writing", "waiting", "checking", "joining",
              "confirming", "killing", "reaping"}
  /\ ~limited /\ limited' = TRUE
  /\ outcome' = "raised"
  /\ CASE sup = "launching" -> sup' = "cleaning" /\ stdin' \in {stdin, "closed"}
       [] sup \in {"killing", "reaping"} ->
            sup' = "cleaning" /\ stdin' = IF Alive THEN stdin ELSE "closed"
       [] OTHER -> sup' = "killing" /\ UNCHANGED stdin
  /\ UNCHANGED <<lost, late, over>> /\ FilesKept /\ ChildKept

\* The worker process dies, perhaps long after: its ends of both pipes close.
SupervisorDies ==
  /\ sup \notin {"idle", "dead"}
  /\ sup' = "dead" /\ stdin' = "closed"
  /\ UNCHANGED outcome /\ FilesKept /\ ChildKept /\ ClockKept

\* The next execution starts from nothing, once this one has ended.
NextExecution ==
  /\ sup \in {"done", "dead"} /\ ~Alive
  /\ sup' = "idle" /\ outcome' = "none"
  /\ child' = "none" /\ code' = "none" /\ output' = "none" /\ stdin' = "closed"
  /\ lost' = FALSE /\ late' = FALSE /\ over' = FALSE /\ limited' = FALSE
  /\ spill' = FALSE /\ large' = FALSE

-----------------------------------------------------------------------------
(* The child process *)

ChildKeeps == UNCHANGED <<sup, outcome, stdin>> /\ FilesKept /\ ClockKept
Exit(status) == child' = "exited" /\ code' = status

\* The request line, and the two watchdog threads.
ReadRequest ==
  /\ child = "reading" /\ stdin = "open"
  /\ child' = "working"
  /\ UNCHANGED <<code, output>> /\ ChildKeeps

\* A native library may print of its own; its output spoils the response.
Prints ==
  /\ child = "working"
  /\ output' \in IF output = "overflow" THEN {output} ELSE {"partial", "overflow"}
  /\ UNCHANGED <<child, code>> /\ ChildKeeps

Answers ==
  /\ child = "working"
  /\ child' = "answered"
  /\ output' \in IF output = "none" THEN {"result", "error"} ELSE {output}
  /\ UNCHANGED code /\ ChildKeeps

\* os._exit after the response was flushed; the error that replaces a result
\* too long to send exits with zero as well.
ChildExits ==
  /\ child = "answered"
  /\ \E status \in {"zero", "one"} :
       /\ output = "result" => status = "zero"
       /\ Exit(status)
  /\ UNCHANGED output /\ ChildKeeps

\* The memory watchdog, also after the response was printed.
MemoryExceeded ==
  /\ child \in {"working", "answered"}
  /\ Exit("memory")
  /\ UNCHANGED output /\ ChildKeeps

\* An exception outside the child's try block, a crash of native code, or the
\* kernel's out-of-memory killer.
ChildCrashes ==
  /\ Alive
  /\ \E status \in {"one", "signal"} : Exit(status)
  /\ UNCHANGED output /\ ChildKeeps

\* Mutant: no thread waits for the parent to close its end.
SeesClosedInputReading == child = "reading"
SeesClosedInput == Alive
\* readline or _exit_when_parent_closes_input reads end of file.
InputCloses ==
  /\ stdin = "closed" /\ SeesClosedInput
  /\ Exit("one")
  /\ UNCHANGED output /\ ChildKeeps

\* Nobody waits for the child any more: init reaps it.
Adopted ==
  /\ child = "exited" /\ sup \in {"done", "dead"}
  /\ child' = "reaped"
  /\ UNCHANGED <<code, output>> /\ ChildKeeps

\* The outside world while an execution runs.
Running == sup \notin {"idle", "done", "dead"}
LeaseLost == Running /\ lost' = TRUE /\ UNCHANGED <<late, over, limited>>
DeadlinePasses == Running /\ late' = TRUE /\ UNCHANGED <<lost, over, limited>>
BudgetExceeded == Running /\ Alive /\ over' = TRUE /\ UNCHANGED <<lost, late, limited>>
Outside ==
  /\ LeaseLost \/ DeadlinePasses \/ BudgetExceeded
  /\ UNCHANGED <<sup, outcome, stdin>> /\ FilesKept /\ ChildKept

Supervise ==
  \/ Prepare \/ Launch \/ EnterTry \/ WriteRequest \/ Wait \/ Check \/ Judge
  \/ Confirm \/ Kill \/ Reap \/ RemoveSpill
ChildSteps == ReadRequest \/ Prints \/ Answers \/ ChildExits \/ MemoryExceeded \/ ChildCrashes

EngineNext ==
  \/ Supervise \/ ChildSteps \/ InputCloses \/ Adopted \/ Outside
  \/ SoftLimit \/ SupervisorDies \/ NextExecution

EngineSpec == EngineInit /\ [][EngineNext]_engineVars

-----------------------------------------------------------------------------
\* The supervisor is held in the write of a long request, before the loop that
\* looks at the deadline and the lease, by a child that does not read it.
HeldByWrite == sup = "writing" /\ large /\ child = "reading"

\* Cancellation, lease loss and the deadline end a child that never finishes its
\* work, unless the soft time limit strikes the supervisor as well or the child
\* hangs before it has read a request longer than a pipe holds; and the death
\* of the worker ends it whatever else happened (the module's comment, the
\* finally block and _exit_when_parent_closes_input).  The fairness is that of
\* Processes.
ChildEnds ==
  /\ (lost \/ late) /\ Running ~> ~Alive \/ limited \/ HeldByWrite
  /\ sup = "dead" ~> ~Alive

\* A result is returned only for a child that answered completely, exited well
\* and is reaped.  When the supervisor is done a child is left only if the soft
\* time limit struck outside the try block, and then the attempt failed.
ChildContained ==
  /\ outcome = "returned" => code = "zero" /\ output = "result" /\ child \in {"exited", "reaped"}
  /\ sup = "done" /\ outcome = "returned" => child = "reaped"
  /\ sup = "done" /\ Alive => limited /\ outcome = "raised"

=============================================================================
