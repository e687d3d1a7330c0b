----------------------------- MODULE GatewayJobs -----------------------------
(***************************************************************************)
(* Public jobs, from submission to answer: the jobs table and its link to  *)
(* gpu_work_items (db.ts), the Scheduler that submits, executes and waits  *)
(* for jobs (scheduler.ts), and the gateway process that may crash, stop   *)
(* and start again over the same database (server.ts).                     *)
(*                                                                         *)
(* Each table is written by its own statement, so a crash may fall between *)
(* two writes of one handler.  A handler that writes leaves its statements *)
(* in todo; they are done one by one, before any other handler runs, and a *)
(* crash drops the rest.                                                   *)
(*                                                                         *)
(* The coordinator is here only what it does to rows and callers; which    *)
(* item it admits when is the subject of GpuCoordinator.                   *)
(*                                                                         *)
(* A definition marked "mutant" is the next one with a plausible bug.      *)
(***************************************************************************)
EXTENDS Integers, FiniteSets, Sequences

CONSTANTS
  Jobs,        \* ids of jobs rows; a job has the work item of the same name
  Direct,      \* proxied requests: work items without a job
  OpenAi,      \* the jobs submitted by an OpenAI route, which waits for them
  MaxQueue,    \* settings.maxQueue
  Worlds       \* sets of outside events: a behaviour has those of one set

Items == Jobs \cup Direct

EventKinds ==
  { "proxied", \* requests without a job come too
    "cancel",  \* a user, a client or an operator cancels or force-unloads
    "crash",   \* the process dies between two handlers
    "torn",    \* the process dies between two writes of a handler
    "stop",    \* SIGINT or SIGTERM
    "late",    \* jobs are submitted while the gateway stops
    "prune" }  \* finished jobs get older than historyTtlDays

ASSUME JobsAssumption ==
  /\ Jobs \cap Direct = {}
  /\ IsFiniteSet(Jobs) /\ IsFiniteSet(Direct)
  /\ OpenAi \subseteq Jobs
ASSUME LimitsAssumption ==
  MaxQueue \in Nat /\ Worlds \subseteq SUBSET EventKinds

VARIABLES
  events,   \* what may happen in this behaviour; it never changes
  phase,    \* of the gateway process
  job,      \* job[j]: jobs.state
  work,     \* work[i]: gpu_work_items.state
  todo,     \* statements the running handler has yet to execute
  run,      \* run[i]: where executeJob (or the proxied request) stands
  waiter,   \* waiter[j]: where the call that waits for j stands
  told,     \* told[j]: the outcome the client of j was told
  awaited   \* the jobs whose promises scheduler.stop() awaits

state == <<phase, job, work, todo, run, waiter, told, awaited>>
vars == <<events, state>>

-----------------------------------------------------------------------------
(* Rows *)

Live == {"queued", "running"}
Final == {"succeeded", "failed", "cancelled", "timed_out"}
RowStates == {"absent", "pruned"} \cup Live \cup Final

Active == {"waiting", "loading", "executing"}    \* this.activeJobs

Phases == {"up", "stopping", "down", "recovered"}
Alive == phase \in {"up", "stopping"}

J(j, s) == [row |-> "job", of |-> j, to |-> s]
W(i, s) == [row |-> "work", of |-> i, to |-> s]
Tell(j) == [row |-> "answer", of |-> j, to |-> "timed_out"]

StatesMoveAnyway(from, to) ==                    \* mutant: no state in WHERE
  IF to = "queued" THEN from = "absent" ELSE from \notin {"absent", "pruned"}

(* The WHERE clause that guards each UPDATE of a state. *)
StatesMove(from, to) ==
  \/ to = "queued" /\ from = "absent"
  \/ to = "running" /\ from = "queued"
  \/ to \in Final /\ from \in Live

(* The handlers' own writes to a row's state. *)
Ended(i, outcome) ==
  IF i \in Jobs THEN <<W(i, outcome), J(i, outcome)>> ELSE <<W(i, outcome)>>

Idle == Alive /\ todo = <<>>

-----------------------------------------------------------------------------
(* Submission *)

Pending == {i \in Items : work[i] \in Live}

HasRoom == Cardinality(Pending) < MaxQueue

(* The request names a model the gateway has, or the job fails at once.     *)
Submission(j, known) ==
  <<J(j, "queued"), IF known THEN W(j, "queued") ELSE J(j, "failed")>>

Init ==
  /\ events \in Worlds
  /\ phase = "up"
  /\ job = [j \in Jobs |-> "absent"]
  /\ work = [i \in Items |-> "absent"]
  /\ todo = <<>>
  /\ run = [i \in Items |-> "none"]
  /\ waiter = [j \in Jobs |-> "none"]
  /\ told = [j \in Jobs |-> "none"]
  /\ awaited = {}

(* submitJob does not look at stopping. *)
Submit(j) ==
  /\ Idle /\ (phase = "up" \/ "late" \in events)
  /\ job[j] = "absent"
  /\ HasRoom
  /\ \E known \in BOOLEAN :
       /\ todo' = Submission(j, known)
       /\ run' = [run EXCEPT ![j] = IF known THEN "waiting" ELSE "done"]
  /\ waiter' = [waiter EXCEPT ![j] = IF j \in OpenAi THEN "start" ELSE "none"]
  /\ UNCHANGED <<phase, job, work, told, awaited>>

(* A proxied request takes its place in the queue without asking maxQueue. *)
Request(i) ==
  /\ Idle /\ "proxied" \in events /\ work[i] = "absent"
  /\ todo' = <<W(i, "queued")>>
  /\ run' = [run EXCEPT ![i] = "waiting"]
  /\ UNCHANGED <<phase, job, work, waiter, told, awaited>>

-----------------------------------------------------------------------------
(* Execution *)

(* The coordinator starts a queued item ... *)
Begin(i) ==
  /\ Idle /\ run[i] = "waiting" /\ work[i] = "queued"
  /\ todo' = <<W(i, "running")>>
  /\ run' = [run EXCEPT ![i] = "loading"]
  /\ UNCHANGED <<phase, job, work, waiter, told, awaited>>

(* ... and grants the lease when its runtime is ready: the handler starts.  *)
Admitted(i) ==
  /\ Idle /\ run[i] = "loading" /\ work[i] = "running"
  /\ run' = [run EXCEPT ![i] = "executing"]
  /\ todo' = IF i \in Jobs THEN <<J(i, "running")>> ELSE <<>>
  /\ UNCHANGED <<phase, job, work, waiter, told, awaited>>

Refused(i) == Ended(i, "failed")

(* admit() rejects the caller; executeJob's catch writes the job, which     *)
(* changes nothing when a cancellation was first.                           *)
AdmissionFails(i) ==
  /\ Idle /\ run[i] = "loading"
  /\ run' = [run EXCEPT ![i] = "done"]
  /\ todo' = Refused(i)
  /\ UNCHANGED <<phase, job, work, waiter, told, awaited>>

(* What the release of a lease and executeJob after it write.  A lease is   *)
(* aborted only by a cancellation, which has finished the row.              *)
CallEnded(i, ok) ==
  LET released == IF ok THEN "succeeded"
                  ELSE IF work[i] \in Final THEN "cancelled" ELSE "failed"
  IN  IF i \in Jobs
      THEN <<W(i, released), J(i, IF ok THEN "succeeded" ELSE "failed")>>
      ELSE <<W(i, released)>>

CallEnds(i) ==
  /\ Idle /\ run[i] = "executing"
  /\ \E ok \in BOOLEAN : todo' = CallEnded(i, ok)
  /\ run' = [run EXCEPT ![i] = "done"]
  /\ UNCHANGED <<phase, job, work, waiter, told, awaited>>

(* One statement: the row moves if its WHERE clause holds. *)
Continue ==
  /\ Alive /\ todo # <<>>
  /\ LET w == Head(todo) IN
       /\ job' = IF w.row = "job" /\ StatesMove(job[w.of], w.to)
                 THEN [job EXCEPT ![w.of] = w.to] ELSE job
       /\ work' = IF w.row = "work" /\ StatesMove(work[w.of], w.to)
                  THEN [work EXCEPT ![w.of] = w.to] ELSE work
       /\ told' = IF w.row = "answer"
                  THEN [told EXCEPT ![w.of] = w.to] ELSE told
  /\ todo' = Tail(todo)
  /\ UNCHANGED <<phase, run, waiter, awaited>>

-----------------------------------------------------------------------------
(* Cancellation and waiting *)

CancelledAfterJob(i, outcome) ==                 \* mutant: job row first
  IF i \in Jobs THEN <<J(i, outcome), W(i, outcome)>> ELSE <<W(i, outcome)>>

(* cancelWorkItem: the row, then the linked job, whatever the row's state.  *)
Cancelled(i, outcome) == Ended(i, outcome)

(* A queued item's caller is rejected at once and its executeJob ends; a    *)
(* running one's is told by its signal and ends by itself.                  *)
DroppedUnrejected(i) == run                      \* mutant: reject forgotten

Dropped(i) == [run EXCEPT ![i] = IF work[i] = "queued" THEN "done" ELSE @]

Cancel(i) ==
  /\ Idle /\ "cancel" \in events /\ work[i] # "absent"
  /\ \E outcome \in {"cancelled", "failed"} :
       /\ outcome = "failed" => run[i] = "executing"   \* forceUnloadRuntime
       /\ todo' = Cancelled(i, outcome)
  /\ run' = Dropped(i)
  /\ UNCHANGED <<phase, job, work, waiter, told, awaited>>

(* Only proxied requests are queued with a deadline of their own. *)
QueueTimeout(i) ==
  /\ Idle /\ work[i] = "queued" /\ run[i] = "waiting"
  /\ todo' = Cancelled(i, "timed_out")
  /\ run' = Dropped(i)
  /\ UNCHANGED <<phase, job, work, waiter, told, awaited>>

(* wait_job on any job there is. *)
Wait(j) ==
  /\ Idle /\ waiter[j] = "none"
  /\ job[j] \notin {"absent", "pruned"}
  /\ waiter' = [waiter EXCEPT ![j] = "end"]
  /\ UNCHANGED <<phase, job, work, todo, run, told, awaited>>

(* An emitted update or the poll interval wakes waitForOpenAiJobStart ...   *)
StartSeen(j) ==
  /\ Idle /\ waiter[j] = "start" /\ job[j] # "queued"
  /\ waiter' = [waiter EXCEPT ![j] = "end"]
  /\ UNCHANGED <<phase, job, work, todo, run, told, awaited>>

(* ... which gives up after maxQueueWaitMs, in one handler with the answer. *)
QueueWaitEnded(j) ==
  (IF work[j] = "absent" THEN <<>> ELSE Cancelled(j, "timed_out"))
    \o <<J(j, "timed_out"), Tell(j)>>

QueueWaitExceeded(j) == waiter[j] = "start" /\ job[j] = "queued"

QueueWaitTimeout(j) ==
  /\ Idle /\ QueueWaitExceeded(j)
  /\ waiter' = [waiter EXCEPT ![j] = "none"]
  /\ todo' = QueueWaitEnded(j)
  /\ run' = IF work[j] = "absent" THEN run ELSE Dropped(j)
  /\ UNCHANGED <<phase, job, work, told, awaited>>

IsTerminal(s) == s \in Final

(* waitForJob answers with the outcome it reads. *)
EndSeen(j) ==
  /\ Idle /\ waiter[j] = "end" /\ IsTerminal(job[j])
  /\ waiter' = [waiter EXCEPT ![j] = "none"]
  /\ told' = [told EXCEPT ![j] = job[j]]
  /\ UNCHANGED <<phase, job, work, todo, run, awaited>>

Prune(j) ==
  /\ Idle /\ "prune" \in events
  /\ job[j] \in Final /\ waiter[j] = "none" /\ run[j] = "done"
  /\ job' = [job EXCEPT ![j] = "pruned"]
  /\ UNCHANGED <<phase, work, todo, run, waiter, told, awaited>>

-----------------------------------------------------------------------------
(* The process *)

Executing == {j \in Jobs : run[j] \in Active}

Stop ==
  /\ Idle /\ phase = "up" /\ "stop" \in events
  /\ phase' = "stopping"
  /\ awaited' = Executing
  /\ UNCHANGED <<job, work, todo, run, waiter, told>>

AwaitedSettledEarly == todo = <<>>               \* mutant: activeRun only

AwaitedSettled == \A j \in awaited : run[j] = "done"

(* What the memory of a dead process leaves. *)
Dies ==
  /\ phase' = "down"
  /\ todo' = <<>>
  /\ run' = [i \in Items |-> IF run[i] = "none" THEN "none" ELSE "done"]
  /\ waiter' = [j \in Jobs |-> "none"]
  /\ awaited' = {}
  /\ UNCHANGED <<job, work, told>>

Exit == Idle /\ phase = "stopping" /\ AwaitedSettled /\ Dies

Crash ==
  /\ phase # "down"
  /\ IF todo = <<>> THEN "crash" \in events ELSE "torn" \in events
  /\ Dies

RecoveredQueue ==                                \* mutant: queued forgotten
  {i \in Items : work[i] = "running"}

Interrupted == {i \in Items : work[i] \in Live}

(* recoverInterruptedGpuWork: one transaction over the live items and the   *)
(* live jobs linked to them.                                                *)
RecoverGpuWork ==
  /\ phase = "down"
  /\ phase' = "recovered"
  /\ work' = [i \in Items |-> IF i \in Interrupted THEN "failed" ELSE work[i]]
  /\ job' = [j \in Jobs |-> IF j \in Interrupted /\ job[j] \in Live
                            THEN "failed" ELSE job[j]]
  /\ UNCHANGED <<todo, run, waiter, told, awaited>>

(* failRunningJobsOnStartup: another transaction, over the running jobs.    *)
FailedOnStartup == {j \in Jobs : job[j] = "running"}

FailRunningJobs ==
  /\ phase = "recovered"
  /\ phase' = "up"
  /\ job' = [j \in Jobs |-> IF j \in FailedOnStartup THEN "failed" ELSE job[j]]
  /\ UNCHANGED <<work, todo, run, waiter, told, awaited>>

ItemStep(i) == Begin(i) \/ Admitted(i) \/ AdmissionFails(i) \/ CallEnds(i)
WaiterStep(j) == StartSeen(j) \/ EndSeen(j)

Step ==
  \/ Continue
  \/ \E j \in Jobs :
       \/ Submit(j) \/ Wait(j) \/ WaiterStep(j) \/ QueueWaitTimeout(j)
       \/ Prune(j)
  \/ \E i \in Items : ItemStep(i) \/ Cancel(i)
  \/ \E i \in Direct : Request(i) \/ QueueTimeout(i)
  \/ Stop \/ Exit \/ Crash \/ RecoverGpuWork \/ FailRunningJobs

Next == Step /\ UNCHANGED events

Spec == Init /\ [][Next]_vars

(***************************************************************************)
(* Handlers run, the coordinator admits what it queued (EveryCallAnswered  *)
(* of GpuCoordinator), a model call returns or its timeout aborts it, a    *)
(* poll interval passes, and a dead gateway is started again by launchd.   *)
(* Strong fairness, since each of these waits for others' handlers.        *)
(***************************************************************************)
Fairness ==
  /\ WF_state(Continue)
  /\ \A i \in Items : SF_state(ItemStep(i))
  /\ \A j \in Jobs : SF_state(WaiterStep(j))
  /\ WF_state(RecoverGpuWork) /\ WF_state(FailRunningJobs)
  /\ SF_state(Exit)

FairSpec == Spec /\ Fairness

-----------------------------------------------------------------------------
(* Properties *)

(* Every value stays in its type. *)
TypeOK ==
  /\ phase \in Phases
  /\ job \in [Jobs -> RowStates]
  /\ work \in [Items -> RowStates \ {"pruned"}]
  /\ run \in [Items -> {"none", "done"} \cup Active]
  /\ waiter \in [Jobs -> {"none", "start", "end"}]
  /\ told \in [Jobs -> {"none"} \cup Final]
  /\ awaited \subseteq Jobs

(* Between two handlers, every live job has an executeJob that will end it  *)
(* (scheduler.ts 98-104): no path of admission, release, cancellation,      *)
(* timeout or startup leaves a live row behind without one.  The exception  *)
(* is a crash within a handler: a job inserted without its work item stays  *)
(* queued for ever, since recovery looks for it through the item (db.ts 791)*)
LiveJobsAreExecuted ==
  Idle /\ "torn" \notin events =>
    \A j \in Jobs : job[j] \in Live => run[j] \in Active

(* A live work item is linked to a live job, whatever was interrupted: the  *)
(* item is always finished first, so the "failed" event that recovery       *)
(* writes for every linked job (db.ts 824) never contradicts the row.       *)
LiveWorkHasLiveJob ==
  \A j \in Jobs : work[j] \in Live => job[j] \in Live

(* Between two handlers a finished job and its finished item agree on the   *)
(* outcome, although they are written by different statements of different  *)
(* modules (gpu-coordinator.ts 1541, scheduler.ts 254); a crash between the *)
(* two leaves a success that the job's row calls a failure.                 *)
OutcomesAgree ==
  Idle /\ "torn" \notin events =>
    \A j \in Jobs :
      job[j] \in Final /\ work[j] \in Final => job[j] = work[j]

(* After recovery no row says "running" of a call that nobody makes.        *)
RunningIsExecuted ==
  Idle => /\ \A j \in Jobs : job[j] = "running" => run[j] = "executing"
          /\ \A i \in Items : work[i] \in Live => run[i] # "done"

(* A row and the executions in memory tell the same story, from both sides. *)
RowsAreExecuted == LiveJobsAreExecuted /\ RunningIsExecuted

(* A job and its item tell the same story.                                  *)
RowsAgree == LiveWorkHasLiveJob /\ OutcomesAgree

(* A client told an outcome was told the one the row keeps: in particular   *)
(* a client told 504 by the queue wait (scheduler.ts 206) will never find   *)
(* that its job ran after all.  Implements, below, implies it.              *)
AnswerStands ==
  \A j \in Jobs : told[j] # "none" => job[j] \in {told[j], "pruned"}

(* A gateway that stops while no new jobs come leaves no live job behind.   *)
StopLeavesNothing ==
  [][Exit /\ {"late", "torn"} \cap events = {} =>
       \A j \in Jobs : job[j] \notin Live]_vars

(* The gateway keeps the promise made of a job, also when it dies between   *)
(* two writes of a handler: no job runs twice, ends twice or is answered    *)
(* with anything but its end.                                               *)
Promise == INSTANCE JobPromise WITH status <- job, answer <- told

Implements == Promise!Safety

(* Nothing waits for ever, whatever is cancelled, timed out or restarted    *)
(* meanwhile: a stopping gateway for the jobs it awaits and, unless a crash *)
(* tears a handler, an accepted job for its end and a client for its answer.*)
EveryWaitEnds ==
  /\ phase = "stopping" ~> phase # "stopping"
  /\ \A j \in Jobs :
       waiter[j] # "none" /\ "torn" \notin events ~> waiter[j] = "none"
  /\ "torn" \in events \/ Promise!Prompt
==============================================================================
