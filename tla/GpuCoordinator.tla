---------------------------- MODULE GpuCoordinator ----------------------------
(***************************************************************************)
(* The GPU admission coordinator of packages/core/src/gpu-coordinator.ts,  *)
(* with the rows of gpu_work_items it keeps in SQLite (db.ts).             *)
(*                                                                         *)
(* Node runs one handler at a time, up to its next await on a timer, a     *)
(* child process or an HTTP probe.  One action is therefore one such       *)
(* stretch, with every call it makes, the trailing pump() included.  The   *)
(* calls nest (a cancellation finishes a row, releases a lease and pumps), *)
(* so they are operators from a coordinator state to a coordinator state,  *)
(* composed as the methods are; an action says when a stretch may run.     *)
(*                                                                         *)
(* A definition marked "mutant" is no part of the model: it is the next    *)
(* definition with a plausible bug, which some property must catch.        *)
(***************************************************************************)
EXTENDS Integers, FiniteSets

CONSTANTS
  Items,           \* work items (ids of gpu_work_items rows) of the behaviour
  NoItem,          \* "null" where an item id is expected
  N,               \* number of managed runtimes, numbered in their Map order
  Model,           \* Model[i]: the runtime item i names, or OneShot
  Priority,        \* Priority[i]: its priority tier
  Timed,           \* the items queued with a maxQueueWaitMs
  MaxConcurrency,  \* MaxConcurrency[r]: lease cap of runtime r
  Events           \* which kinds of outside event the instance allows

Runtimes == 1..N

OneShot == 0        \* GpuWorkKind 'exclusive': a one-shot command

EventKinds ==
  { "cancel",       \* a client aborts, or an operator cancels work
    "idle",         \* an idle timer fires
    "force",        \* an operator force-unloads a runtime
    "late",         \* the wall clock passes a deadline before its timer fires
    "refresh",      \* refreshRuntimeHealth runs (startup, list_runtimes tool)
    "crash",        \* a service process dies by itself
    "external",     \* a service is started behind the gateway's back
    "loadfail",     \* a start command fails or health does not come in time
    "stopfail" }    \* a stop command fails or health does not go in time

ASSUME ItemsAssumption == IsFiniteSet(Items) /\ NoItem \notin Items
ASSUME RuntimesAssumption ==
  N \in Nat \ {0} /\ MaxConcurrency \in [Runtimes -> Nat \ {0}]
ASSUME RequestsAssumption ==
  /\ Model \in [Items -> Runtimes \cup {OneShot}]
  /\ Priority \in [Items -> Nat]
  /\ Timed \subseteq Items
ASSUME EventsAssumption ==
  Events \subseteq EventKinds /\ ~({"force", "late"} \subseteq Events)

VARIABLES
  gpu,        \* the GpuCoordinator object and its work rows (GpuState below)
  overdue,    \* the queued items whose deadline_at is in the past
  svc,        \* svc[r]: the service process of runtime r
  idleStop,   \* idleStop[r]: progress of the stop an idle timer began
  forceStop,  \* forceStop[r]: progress of the stop forceUnloadRuntime began
  probe       \* probe[r]: answer collected by a running refreshRuntimeHealth

vars == <<gpu, overdue, svc, idleStop, forceStop, probe>>

-----------------------------------------------------------------------------
(* Data *)

Live == {"queued", "running"}
Final == {"succeeded", "failed", "cancelled", "timed_out"}
Refusals == {"e404", "e409", "e499", "e503", "e504"}
RuntimeStates == {"unloaded", "loading", "loaded", "unloading", "failed"}
StopSteps == {"none", "cmd", "wait"}

(* Where an admission awaits: the two probes of ensureRuntimeReady, the     *)
(* probe and the stop of one runtime (pos) in unloadLoadedRuntime, the      *)
(* start command and the wait for health.                                   *)
AdmissionSteps ==
  {"none", "check", "probe", "sweepProbe", "stopCmd", "stopWait",
   "startCmd", "startWait"}

Admission == [at : AdmissionSteps, pos : 0..N, adopt : BOOLEAN]

NotAdmitting == [at |-> "none", pos |-> 0, adopt |-> FALSE]

GpuState ==
  [ work : [Items -> {"absent"} \cup Live \cup Final],  \* gpu_work_items.state
    born : [Items -> Nat],                    \* its rowid, 0 when absent
    rows : Nat,                               \* rows inserted so far
    pending : SUBSET Items,                   \* keys of this.pending
    aborted : SUBSET Items,                   \* pending.controller aborted
    answer : [Items -> {"none", "waiting", "lease"} \cup Refusals],
    lease : [Items -> {"none", "held", "released", "lost"}],
    state : [Runtimes -> RuntimeStates],
    active : [Runtimes -> Nat],               \* activeRequests
    ids : [Runtimes -> SUBSET Items],         \* activeWorkItemIds
    idle : SUBSET Runtimes,                   \* idleTimer armed
    oneShot : Items \cup {NoItem},            \* activeOneShotWorkItemId
    admitting : BOOLEAN,
    refusing : SUBSET Items,   \* second admissions answered 409, not settled
    adm : [Items -> Admission] ]

(***************************************************************************)
(* Queue order and admissibility: listQueuedGpuWorkItems and               *)
(* takeNextAdmissibleQueued.                                               *)
(***************************************************************************)
AheadByArrival(s, i, j) == s.born[i] < s.born[j] \* mutant: no priority

Ahead(s, i, j) ==
  \/ Priority[i] > Priority[j]
  \/ Priority[i] = Priority[j] /\ s.born[i] < s.born[j]

Queued(s) == {i \in s.pending : s.work[i] = "queued"}
Late(s) == Queued(s) \cap overdue
Fresh(s) == Queued(s) \ overdue

Busy(s) == {r \in Runtimes : s.active[r] > 0}

(* activeRuntimeModel() is the first busy runtime of the Map. *)
Admissible(s, i) ==
  \/ Busy(s) = {}
  \/ \E m \in Busy(s) :
        /\ \A r \in Busy(s) : m <= r
        /\ Model[i] = m
        /\ s.active[m] < MaxConcurrency[m]

FreshAhead(s, i) == {j \in Fresh(s) : Ahead(s, j, i)}

(* pump() called when k overdue items head the queue: each of them is       *)
(* cancelled by takeNextAdmissibleQueued, and every such cancellation calls *)
(* pump() again before its caller's loop, over a list read earlier,         *)
(* resumes.  That makes k + 1 calls of admit(): the odd ones start the next *)
(* fresh item, the even ones meet the item just started, find it no longer  *)
(* queued and refuse it.  With no overdue item there is one call.           *)
Nested(s) ==
  Cardinality({o \in Late(s) : \A i \in Fresh(s) : Ahead(s, o, i)}) + 1

Taken(s) ==
  {i \in Fresh(s) :
     /\ Cardinality(FreshAhead(s, i)) < (Nested(s) + 1) \div 2
     /\ \A j \in FreshAhead(s, i) \cup {i} : Admissible(s, j)}

TakenTwice(s) ==
  {i \in Taken(s) : Cardinality(FreshAhead(s, i)) < Nested(s) \div 2}

(* The overdue items the loops meet before they stop. *)
Expired(s) ==
  {o \in Late(s) :
     /\ Cardinality(FreshAhead(s, o)) < (Nested(s) + 1) \div 2
     /\ FreshAhead(s, o) \subseteq Taken(s)}

-----------------------------------------------------------------------------
(* Methods *)

FinishAlways(s, i, outcome) ==                   \* mutant: no WHERE state IN (...)
  [s EXCEPT !.work[i] = outcome]

(* finishWorkItem: the first outcome written to a row wins. *)
Finish(s, i, outcome) ==
  [s EXCEPT !.work[i] = IF @ \in Live THEN outcome ELSE @]

(* pending.reject: a settled promise keeps its answer. *)
Reject(s, i, code) ==
  [s EXCEPT !.answer[i] = IF @ = "waiting" THEN code ELSE @]

CleanupForgotten(s, i) == s                      \* mutant: pending entry leaks

(* cleanupPending: also disarms the queue timer and the client listener. *)
Cleanup(s, i) == [s EXCEPT !.pending = @ \ {i}]

ScheduleIdleUnload(s, r) ==
  [s EXCEPT !.idle = IF s.active[r] = 0 /\ s.state[r] = "loaded"
                       THEN @ \cup {r} ELSE @ \ {r}]

(* The first stretch of stopRuntime, up to its stop command. *)
BeginStop(s, r) == [s EXCEPT !.state[r] = "unloading", !.idle = @ \ {r}]

(* Runtime states as admit(i) sees them when one pump starts several items: *)
(* an earlier one-shot has begun to stop the first runtime of the Map.      *)
SweepsFirst(s, i) ==
  /\ s.state[1] = "loaded"
  /\ \E j \in Taken(s) \cap FreshAhead(s, i) : Model[j] = OneShot

(* The first stretch of admit(i): ensureRuntimeReady up to its first probe, *)
(* or unloadLoadedRuntime up to its first await.                            *)
BeginAdmission(s, i) ==
  IF Model[i] = OneShot
    THEN [at |-> IF s.state[1] = "loaded" /\ ~SweepsFirst(s, i)
                   THEN "stopCmd" ELSE "sweepProbe",
          pos |-> 1, adopt |-> FALSE]
    ELSE [at |-> IF s.state[Model[i]] = "loaded"
                    /\ ~(Model[i] = 1 /\ SweepsFirst(s, i))
                   THEN "check" ELSE "probe",
          pos |-> 0, adopt |-> FALSE]

PumpUnlocked(s) == s.oneShot # NoItem            \* mutant: no admission lock

PumpBlocked(s) == s.admitting \/ s.oneShot # NoItem

Pump(s) ==
  IF PumpBlocked(s) THEN s ELSE
  LET sweeps == \E i \in Taken(s) : Model[i] = OneShot
      stops == IF sweeps /\ s.state[1] = "loaded" THEN {1} ELSE {}
  IN [s EXCEPT
        !.work = [i \in Items |-> CASE i \in Taken(s) -> "running"
                                    [] i \in Expired(s) -> "timed_out"
                                    [] OTHER -> @[i]],
        !.answer = [i \in Items |-> CASE i \in TakenTwice(s) -> "e409"
                                      [] i \in Expired(s) -> "e504"
                                      [] OTHER -> @[i]],
        !.aborted = @ \cup Expired(s),
        !.pending = @ \ (Expired(s) \cup TakenTwice(s)),
        !.adm = [i \in Items |->
                   IF i \in Taken(s) THEN BeginAdmission(s, i) ELSE @[i]],
        !.idle = (@ \ stops) \ {Model[i] : i \in Taken(s)},
        !.state = [r \in Runtimes |-> IF r \in stops THEN "unloading" ELSE @[r]],
        !.admitting = Taken(s) # {},
        !.refusing = @ \cup TakenTwice(s)]

SettleSilently(s, i) ==                          \* mutant: no pump in .finally
  [s EXCEPT !.adm[i] = NotAdmitting, !.admitting = FALSE]
SettleLocked(s, i) ==                            \* mutant: lock not freed
  Pump([s EXCEPT !.adm[i] = NotAdmitting])

(* The end of admit() and its .finally callback. *)
Settle(s, i) == Pump([s EXCEPT !.adm[i] = NotAdmitting, !.admitting = FALSE])

FailsUnanswered(s, i, outcome, code) ==          \* mutant: caller never told
  Settle(Cleanup(Finish(s, i, outcome), i), i)

AdmissionFails(s, i, outcome, code) ==
  Settle(Cleanup(Reject(Finish(s, i, outcome), i, code), i), i)

(* pending.resolve: the lease of a promise already rejected reaches nobody. *)
Grant(s, i) ==
  Settle([s EXCEPT !.answer[i] = IF @ = "waiting" THEN "lease" ELSE @,
                   !.lease[i] = IF s.answer[i] = "waiting"
                                  THEN "held" ELSE "lost"], i)

RuntimeReadyUntimed(s, i) ==                     \* mutant: abort arms no timer
  IF i \in s.aborted
    THEN AdmissionFails(s, i, "cancelled", "e499")
    ELSE Grant([s EXCEPT !.active[Model[i]] = @ + 1,
                         !.ids[Model[i]] = @ \cup {i}], i)

RuntimeReady(s, i) ==
  LET r == Model[i] IN
  IF i \in s.aborted
    THEN AdmissionFails(ScheduleIdleUnload(s, r), i, "cancelled", "e499")
    ELSE Grant([s EXCEPT !.active[r] = @ + 1, !.ids[r] = @ \cup {i}], i)

OneShotReady(s, i) ==
  IF i \in s.aborted
    THEN AdmissionFails(s, i, "cancelled", "e499")
    ELSE Grant([s EXCEPT !.oneShot = i], i)

LoadFails(s, i, code) ==
  AdmissionFails([s EXCEPT !.state[Model[i]] = "failed"], i, "failed", code)

(* unloadLoadedRuntime has visited every runtime. *)
SweepDone(s, i, adopt) ==
  CASE Model[i] = OneShot -> OneShotReady(s, i)
    [] Model[i] # OneShot /\ adopt ->
         RuntimeReady([s EXCEPT !.state[Model[i]] = "loaded"], i)
    [] Model[i] # OneShot /\ ~adopt /\ i \in s.aborted ->
         AdmissionFails(s, i, "failed", "e499")
    [] OTHER ->
         [s EXCEPT !.state[Model[i]] = "loading",
                   !.adm[i] = [at |-> "startCmd", pos |-> 0, adopt |-> FALSE]]

(* unloadLoadedRuntime moves on from the pos-th runtime of the Map. *)
SweepOn(s, i, pos, adopt) ==
  LET rest == {r \in Runtimes : r > pos /\ r # Model[i]}
      next == CHOOSE r \in rest : \A q \in rest : r <= q
  IN CASE rest = {} -> SweepDone(s, i, adopt)
       [] rest # {} /\ s.active[next] > 0 ->
            AdmissionFails(s, i, "failed", "e503")
       [] rest # {} /\ s.active[next] = 0 /\ s.state[next] = "loaded" ->
            [BeginStop(s, next) EXCEPT
               !.adm[i] = [at |-> "stopCmd", pos |-> next, adopt |-> adopt]]
       [] OTHER ->
            [s EXCEPT
               !.adm[i] = [at |-> "sweepProbe", pos |-> next, adopt |-> adopt]]

FreeSlotUnclamped(s, i) ==                       \* mutant: no Math.max(0, ...)
  IF Model[i] = OneShot
    THEN [s EXCEPT !.oneShot = IF @ = i THEN NoItem ELSE @]
    ELSE [s EXCEPT !.active[Model[i]] = @ - 1, !.ids[Model[i]] = @ \ {i}]
FreeSlotUnlessFinal(s, i) ==                     \* mutant: cancelled row returns early
  IF s.work[i] \in Final THEN s ELSE FreeSlotUnclamped(s, i)

FreeSlot(s, i) ==
  LET r == Model[i] IN
  IF r = OneShot
    THEN [s EXCEPT !.oneShot = IF @ = i THEN NoItem ELSE @]
    ELSE [s EXCEPT !.active[r] = IF @ > 0 THEN @ - 1 ELSE 0,
                   !.ids[r] = @ \ {i}]

(* The release callback of a lease, up to its pump(). *)
Released(s, i, outcome) ==
  LET t == Cleanup(Finish(FreeSlot([s EXCEPT !.lease[i] = "released"], i),
                          i, outcome), i)
  IN IF Model[i] = OneShot THEN t ELSE ScheduleIdleUnload(t, Model[i])

(* cancelWorkItem up to its pump().  The abort listener of a streaming      *)
(* lease releases it on the spot (now); other holders release later.        *)
Cancelled(s, i, outcome, now) ==
  LET code == CASE outcome = "timed_out" -> "e504"
                [] outcome = "cancelled" -> "e499"
                [] OTHER -> "e503"
      t == [Finish(s, i, outcome) EXCEPT
              !.aborted = IF i \in s.pending THEN @ \cup {i} ELSE @]
  IN CASE i \in s.pending /\ s.work[i] = "queued" ->
            Cleanup(Reject(t, i, code), i)
       [] /\ now /\ s.lease[i] = "held" /\ Model[i] # OneShot
          /\ i \in s.pending \ s.aborted -> Released(t, i, "cancelled")
       [] OTHER -> t

-----------------------------------------------------------------------------
(* An event runs when the callbacks of settled promises have run: the       *)
(* .finally of a refused admission comes before the next event.             *)
Turn == gpu.refusing = {}

(* Calls of the coordinator's users *)

Init ==
  /\ gpu = [ work |-> [i \in Items |-> "absent"], born |-> [i \in Items |-> 0],
             rows |-> 0, pending |-> {}, aborted |-> {},
             answer |-> [i \in Items |-> "none"],
             lease |-> [i \in Items |-> "none"],
             state |-> [r \in Runtimes |-> "unloaded"],
             active |-> [r \in Runtimes |-> 0], ids |-> [r \in Runtimes |-> {}],
             idle |-> {}, oneShot |-> NoItem, admitting |-> FALSE,
             refusing |-> {}, adm |-> [i \in Items |-> NotAdmitting] ]
  /\ overdue = {}
  /\ svc = [r \in Runtimes |-> "down"]
  /\ idleStop = [r \in Runtimes |-> "none"]
  /\ forceStop = [r \in Runtimes |-> "none"]
  /\ probe = [r \in Runtimes |-> "none"]

Acquire(i) ==
  /\ Turn
  /\ gpu.answer[i] = "none"
  /\ gpu' = Pump([gpu EXCEPT !.work[i] = "queued", !.born[i] = gpu.rows + 1,
                             !.rows = @ + 1, !.pending = @ \cup {i},
                             !.answer[i] = "waiting"])
  /\ UNCHANGED <<overdue, svc, idleStop, forceStop, probe>>

(* acquire for a model without a runtime, or on a signal already aborted. *)
AcquireRefused(i) ==
  /\ Turn
  /\ "cancel" \in Events
  /\ gpu.answer[i] = "none"
  /\ \E code \in {"e404", "e499"} : gpu' = [gpu EXCEPT !.answer[i] = code]
  /\ UNCHANGED <<overdue, svc, idleStop, forceStop, probe>>

Release(i) ==
  /\ Turn
  /\ gpu.lease[i] = "held"
  /\ \E outcome \in {"succeeded", "failed", "cancelled"} :
        gpu' = Pump(Released(gpu, i, outcome))
  /\ UNCHANGED <<overdue, svc, idleStop, forceStop, probe>>

(* A client abort, cancelRuntimeRequest, cancelPublicJob, timeoutPublicJob, *)
(* and one turn of the loop of cancelOpenAiRequests.                        *)
Cancel(i) ==
  /\ Turn
  /\ "cancel" \in Events
  /\ gpu.work[i] \in Live \/ i \in gpu.pending
  /\ \E outcome \in {"cancelled", "timed_out"}, now \in BOOLEAN :
        gpu' = Pump(Cancelled(gpu, i, outcome, now))
  /\ UNCHANGED <<overdue, svc, idleStop, forceStop, probe>>

(* The timer of acquire: admit() and cleanupPending disarm it. *)
QueueTimeout(i) ==
  /\ Turn
  /\ i \in Timed /\ i \in Queued(gpu)
  /\ gpu' = Pump(Cancelled(gpu, i, "timed_out", FALSE))
  /\ UNCHANGED <<overdue, svc, idleStop, forceStop, probe>>

(* deadline_at is reached while the timer's callback is still to run. *)
DeadlinePasses(i) ==
  /\ "late" \in Events
  /\ i \in Timed \ overdue /\ i \in Queued(gpu)
  /\ overdue' = overdue \cup {i}
  /\ UNCHANGED <<gpu, svc, idleStop, forceStop, probe>>

(* forceUnloadRuntime up to its stop command.  Its cancellations run one    *)
(* after another, each with a pump: only the queue's head can start, and it *)
(* starts in the one where it becomes admissible, so one pump after the     *)
(* last stands for them (with no overdue item about: see EventsAssumption). *)
ForceUnload(r) ==
  /\ Turn
  /\ "force" \in Events
  /\ forceStop[r] = "none"                \* bound: one at a time per runtime
  /\ \E now \in SUBSET gpu.ids[r] :
       LET hit == gpu.ids[r]
           over == {i \in now : gpu.lease[i] = "held" /\ i \notin gpu.aborted}
           t == [gpu EXCEPT
                  !.work = [i \in Items |-> IF i \in hit /\ @[i] \in Live
                                              THEN "failed" ELSE @[i]],
                  !.aborted = @ \cup (hit \cap gpu.pending),
                  !.lease = [i \in Items |-> IF i \in over
                                               THEN "released" ELSE @[i]],
                  !.pending = @ \ over,
                  !.active[r] = IF @ > Cardinality(over)
                                  THEN @ - Cardinality(over) ELSE 0,
                  !.ids[r] = @ \ over]
       IN gpu' = BeginStop([Pump(t) EXCEPT !.active[r] = 0, !.ids[r] = {}], r)
  /\ forceStop' = [forceStop EXCEPT ![r] = "cmd"]
  /\ UNCHANGED <<overdue, svc, idleStop, probe>>

-----------------------------------------------------------------------------
(* The admission in flight, one action per await it returns from *)

Up(r) == svc[r] = "up"

(* runtime.state === 'loaded' && await isHealthy *)
CheckHealth(i) ==
  /\ Turn
  /\ gpu.adm[i].at = "check"
  /\ gpu' = IF Up(Model[i]) THEN RuntimeReady(gpu, i)
                            ELSE [gpu EXCEPT !.adm[i].at = "probe"]
  /\ UNCHANGED <<overdue, svc, idleStop, forceStop, probe>>

(* if (await isHealthy) adopt, else load; both unload the others first *)
ProbeHealth(i) ==
  /\ Turn
  /\ gpu.adm[i].at = "probe"
  /\ gpu' = SweepOn(gpu, i, 0, Up(Model[i]))
  /\ UNCHANGED <<overdue, svc, idleStop, forceStop, probe>>

SweepProbe(i) ==
  LET a == gpu.adm[i] IN
  /\ Turn
  /\ a.at = "sweepProbe"
  /\ gpu' = CASE ~Up(a.pos) ->
                   SweepOn([gpu EXCEPT !.state[a.pos] =
                              IF @ = "failed" THEN @ ELSE "unloaded"],
                           i, a.pos, a.adopt)
             [] Up(a.pos) /\ gpu.active[a.pos] > 0 ->
                   SweepOn([gpu EXCEPT !.idle = @ \ {a.pos}], i, a.pos, a.adopt)
             [] OTHER ->
                   [BeginStop(gpu, a.pos) EXCEPT !.adm[i].at = "stopCmd"]
  /\ UNCHANGED <<overdue, svc, idleStop, forceStop, probe>>

SweepStopCommand(i) ==
  /\ Turn
  /\ gpu.adm[i].at = "stopCmd"
  /\ svc' = [svc EXCEPT ![gpu.adm[i].pos] = "down"]
  /\ gpu' = [gpu EXCEPT !.adm[i].at = "stopWait"]
  /\ UNCHANGED <<overdue, idleStop, forceStop, probe>>

SweepStopped(i) ==
  LET a == gpu.adm[i] IN
  /\ Turn
  /\ a.at = "stopWait" /\ ~Up(a.pos)
  /\ gpu' = SweepOn([gpu EXCEPT !.state[a.pos] = "unloaded"],
                    i, a.pos, a.adopt)
  /\ UNCHANGED <<overdue, svc, idleStop, forceStop, probe>>

SweepStopHushed(i) ==                            \* mutant: recorded as stopped
  LET a == gpu.adm[i] IN
  /\ Turn
  /\ "stopfail" \in Events
  /\ a.at \in {"stopCmd", "stopWait"}
  /\ gpu' = SweepOn([gpu EXCEPT !.state[a.pos] = "unloaded"],
                    i, a.pos, a.adopt)
  /\ UNCHANGED <<overdue, svc, idleStop, forceStop, probe>>

(* stopRuntime swallows the error and the sweep goes on. *)
SweepStopFails(i) ==
  LET a == gpu.adm[i] IN
  /\ Turn
  /\ "stopfail" \in Events
  /\ a.at \in {"stopCmd", "stopWait"}
  /\ gpu' = SweepOn([gpu EXCEPT !.state[a.pos] = "failed"],
                    i, a.pos, a.adopt)
  /\ UNCHANGED <<overdue, svc, idleStop, forceStop, probe>>

StartCommand(i) ==
  LET r == Model[i] IN
  /\ Turn
  /\ gpu.adm[i].at = "startCmd"
  /\ svc' = [svc EXCEPT ![r] = IF @ = "down" THEN "starting" ELSE @]
  /\ gpu' = [gpu EXCEPT !.adm[i].at = "startWait"]
  /\ UNCHANGED <<overdue, idleStop, forceStop, probe>>

StartCommandFails(i) ==
  /\ Turn
  /\ gpu.adm[i].at = "startCmd"
  /\ "loadfail" \in Events \/ i \in gpu.aborted
  /\ gpu' = LoadFails(gpu, i, "e503")
  /\ UNCHANGED <<overdue, svc, idleStop, forceStop, probe>>

LoadHealthy(i) ==
  /\ Turn
  /\ gpu.adm[i].at = "startWait" /\ Up(Model[i])
  /\ gpu' = RuntimeReady([gpu EXCEPT !.state[Model[i]] = "loaded"], i)
  /\ UNCHANGED <<overdue, svc, idleStop, forceStop, probe>>

LoadAborted(i) ==
  /\ Turn
  /\ gpu.adm[i].at = "startWait" /\ i \in gpu.aborted
  /\ gpu' = LoadFails(gpu, i, "e499")
  /\ UNCHANGED <<overdue, svc, idleStop, forceStop, probe>>

LoadTimesOut(i) ==
  /\ Turn
  /\ "loadfail" \in Events
  /\ gpu.adm[i].at = "startWait"
  /\ gpu' = LoadFails(gpu, i, "e504")
  /\ UNCHANGED <<overdue, svc, idleStop, forceStop, probe>>

(* The .finally of a second admission of an item answered 409. *)
RefusedSettles(i) ==
  /\ i \in gpu.refusing
  /\ gpu' = Pump([gpu EXCEPT !.refusing = @ \ {i}, !.admitting = FALSE])
  /\ UNCHANGED <<overdue, svc, idleStop, forceStop, probe>>

-----------------------------------------------------------------------------
(* Stops outside an admission: idle timers and forced unloads *)

(* The callback of scheduleIdleUnload's timer, up to its stop command. *)
IdleFires(r) ==
  /\ Turn
  /\ "idle" \in Events
  /\ r \in gpu.idle
  /\ idleStop[r] = "none"                 \* bound: one stop at a time per runtime
  /\ IF gpu.active[r] > 0 \/ \E i \in Items : gpu.work[i] \in Live
       THEN /\ gpu' = Pump([gpu EXCEPT !.idle = @ \ {r}])
            /\ UNCHANGED idleStop
       ELSE /\ gpu' = BeginStop(gpu, r)
            /\ idleStop' = [idleStop EXCEPT ![r] = "cmd"]
  /\ UNCHANGED <<overdue, svc, forceStop, probe>>

IdleStopCommand(r) ==
  /\ idleStop[r] = "cmd"
  /\ svc' = [svc EXCEPT ![r] = "down"]
  /\ idleStop' = [idleStop EXCEPT ![r] = "wait"]
  /\ UNCHANGED <<gpu, overdue, forceStop, probe>>

IdleStopped(r) ==
  /\ Turn
  /\ idleStop[r] = "wait" /\ ~Up(r)
  /\ gpu' = Pump([gpu EXCEPT !.state[r] = "unloaded"])
  /\ idleStop' = [idleStop EXCEPT ![r] = "none"]
  /\ UNCHANGED <<overdue, svc, forceStop, probe>>

IdleStopFails(r) ==
  /\ Turn
  /\ "stopfail" \in Events
  /\ idleStop[r] # "none"
  /\ gpu' = Pump([gpu EXCEPT !.state[r] = "failed"])
  /\ idleStop' = [idleStop EXCEPT ![r] = "none"]
  /\ UNCHANGED <<overdue, svc, forceStop, probe>>

ForceStopCommand(r) ==
  /\ forceStop[r] = "cmd"
  /\ svc' = [svc EXCEPT ![r] = "down"]
  /\ forceStop' = [forceStop EXCEPT ![r] = "wait"]
  /\ UNCHANGED <<gpu, overdue, idleStop, probe>>

ForceStopped(r) ==
  /\ Turn
  /\ forceStop[r] = "wait" /\ ~Up(r)
  /\ gpu' = Pump([gpu EXCEPT !.state[r] = "unloaded"])
  /\ forceStop' = [forceStop EXCEPT ![r] = "none"]
  /\ UNCHANGED <<overdue, svc, idleStop, probe>>

ForceStopFails(r) ==
  /\ Turn
  /\ "stopfail" \in Events
  /\ forceStop[r] # "none"
  /\ gpu' = Pump([gpu EXCEPT !.state[r] = "failed"])
  /\ forceStop' = [forceStop EXCEPT ![r] = "none"]
  /\ UNCHANGED <<overdue, svc, idleStop, probe>>

-----------------------------------------------------------------------------
(* refreshRuntimeHealth: every probe is answered before any is applied *)

RefreshProbe(r) ==
  /\ "refresh" \in Events
  /\ probe[r] = "none"
  /\ probe' = [probe EXCEPT ![r] = IF Up(r) THEN "up" ELSE "down"]
  /\ UNCHANGED <<gpu, overdue, svc, idleStop, forceStop>>

RefreshApply ==
  /\ Turn
  /\ \A r \in Runtimes : probe[r] # "none"
  /\ LET skipped(r) == gpu.state[r] \in {"loading", "unloading"}
                       \/ gpu.active[r] > 0
         gone(r) == gpu.state[r] = "loaded" /\ probe[r] = "down"
     IN gpu' = [gpu EXCEPT !.state = [r \in Runtimes |->
                  CASE skipped(r) -> @[r]
                    [] ~skipped(r) /\ probe[r] = "up" -> "loaded"
                    [] ~skipped(r) /\ gone(r) -> "unloaded"
                    [] OTHER -> @[r]]]
  /\ probe' = [r \in Runtimes |-> "none"]
  /\ UNCHANGED <<overdue, svc, idleStop, forceStop>>

-----------------------------------------------------------------------------
(* The service processes *)

ServiceReady(r) ==
  /\ svc[r] = "starting"
  /\ svc' = [svc EXCEPT ![r] = "up"]
  /\ UNCHANGED <<gpu, overdue, idleStop, forceStop, probe>>

ServiceDies(r) ==
  /\ "crash" \in Events
  /\ svc[r] # "down"
  /\ svc' = [svc EXCEPT ![r] = "down"]
  /\ UNCHANGED <<gpu, overdue, idleStop, forceStop, probe>>

ServiceStartedOutside(r) ==
  /\ "external" \in Events
  /\ svc[r] = "down"
  /\ svc' = [svc EXCEPT ![r] = "up"]
  /\ UNCHANGED <<gpu, overdue, idleStop, forceStop, probe>>

AdmissionStep(i) ==
  \/ CheckHealth(i) \/ ProbeHealth(i)
  \/ SweepProbe(i) \/ SweepStopCommand(i) \/ SweepStopped(i) \/ SweepStopFails(i)
  \/ StartCommand(i) \/ StartCommandFails(i)
  \/ LoadHealthy(i) \/ LoadAborted(i) \/ LoadTimesOut(i)
  \/ RefusedSettles(i)

StopStep(r) ==
  \/ IdleStopCommand(r) \/ IdleStopped(r) \/ IdleStopFails(r)
  \/ ForceStopCommand(r) \/ ForceStopped(r) \/ ForceStopFails(r)

ItemStep(i) ==
  \/ Acquire(i) \/ AcquireRefused(i) \/ Release(i)
  \/ Cancel(i) \/ QueueTimeout(i) \/ DeadlinePasses(i)
  \/ AdmissionStep(i)

RuntimeStep(r) ==
  \/ IdleFires(r) \/ ForceUnload(r) \/ StopStep(r) \/ RefreshProbe(r)
  \/ ServiceReady(r) \/ ServiceDies(r) \/ ServiceStartedOutside(r)

Next ==
  \/ \E i \in Items : ItemStep(i)
  \/ \E r \in Runtimes : RuntimeStep(r)
  \/ RefreshApply

Spec == Init /\ [][Next]_vars

(* Awaited commands, probes and timers end (each has a timeout), a launched *)
(* service comes up or dies, and a lease holder is done at some point.      *)
Fairness ==
  /\ \A i \in Items : WF_vars(AdmissionStep(i)) /\ WF_vars(Release(i))
  /\ \A r \in Runtimes : WF_vars(StopStep(r)) /\ WF_vars(ServiceReady(r))

FairSpec == Spec /\ Fairness

-----------------------------------------------------------------------------
(* Properties *)

TypeOK ==
  /\ gpu \in GpuState
  /\ overdue \subseteq Items
  /\ svc \in [Runtimes -> {"down", "starting", "up"}]
  /\ idleStop \in [Runtimes -> StopSteps]
  /\ forceStop \in [Runtimes -> StopSteps]
  /\ probe \in [Runtimes -> {"none", "up", "down"}]

Held == {i \in Items : gpu.lease[i] = "held"}
HeldOn(r) == {i \in Held : Model[i] = r}
InFlight == {i \in Items : gpu.adm[i].at # "none"}

(* "A different model waits until active requests drain", and one-shot work *)
(* runs alone: leases held together are for one and the same runtime.       *)
OneModelAtATime ==
  \A i, j \in Held : Model[i] = Model[j] /\ (Model[i] = OneShot => i = j)

(* "Same-model runtime work can share a loaded runtime only up to           *)
(* maxConcurrency", counted over the leases clients hold and not over the   *)
(* counter the code keeps.  It is so while no head of the queue is overdue  *)
(* and nothing is force-unloaded.  The nested pumps over an overdue head    *)
(* refuse an admission with 409, whose .finally drops the admission lock of *)
(* another one that is under way: two may then be decided on one counter.   *)
WithinMaxConcurrency ==
  \A r \in Runtimes : Cardinality(HeldOn(r)) <= MaxConcurrency[r]

(* activeRequests, activeWorkItemIds and activeOneShotWorkItemId are kept   *)
(* by hand in five places; they name exactly the leases held.               *)
ActiveAccounting ==
  /\ \A r \in Runtimes : /\ gpu.ids[r] = HeldOn(r)
                         /\ gpu.active[r] = Cardinality(gpu.ids[r])
  /\ HeldOn(OneShot) = IF gpu.oneShot = NoItem THEN {} ELSE {gpu.oneShot}

(* this.admitting is a lock: taken by the one admission in flight, and      *)
(* freed by its end whatever that end is.                                   *)
OneAdmission ==
  /\ gpu.admitting <=> InFlight # {}
  /\ \A i, j \in InFlight : i = j

(* Every live row has somebody who will finish it (a queue entry whose      *)
(* caller waits, the admission in flight, or a lease holder), and a pending *)
(* entry lives exactly as long as its promise or its lease.                 *)
NoOrphanedWork ==
  \A i \in Items :
    /\ gpu.work[i] = "queued" => i \in gpu.pending /\ gpu.answer[i] = "waiting"
    /\ gpu.work[i] = "running" => i \in InFlight \/ i \in Held
    /\ i \in InFlight => gpu.answer[i] = "waiting"
    /\ i \in gpu.pending <=> gpu.answer[i] = "waiting" \/ i \in Held

(* Higher priority wins and same-priority work is FIFO: what starts leaves  *)
(* nobody in the queue of a higher priority, or of the same one and there   *)
(* before it, whatever was cancelled, timed out or released meanwhile.      *)
NoOvertaking ==
  [][\A i, j \in Items :
       gpu.work[j] # "running" /\ gpu'.work[j] = "running"
       /\ gpu'.work[i] = "queued"
       => /\ Priority[i] <= Priority[j]
          /\ Priority[i] = Priority[j] => gpu'.born[j] <= gpu'.born[i]]_vars

(* No lost wakeup: whenever the coordinator is idle the head of the queue   *)
(* is inadmissible, so each path that frees a slot has pumped.              *)
NoLostWakeup ==
  (~gpu.admitting /\ gpu.oneShot = NoItem) =>
    \A i \in Queued(gpu) :
      (\A j \in Queued(gpu) : ~Ahead(gpu, j, i)) => ~Admissible(gpu, i)

(* "Active work is not interrupted except by explicit cancellation or admin *)
(* force unload": while a lease is held and was not cancelled, the service  *)
(* that serves it is up and on record as loaded (unless it dies by itself). *)
ActiveWorkUninterrupted ==
  \A i \in Held \ gpu.aborted :
    Model[i] # OneShot => svc[Model[i]] = "up" /\ gpu.state[Model[i]] = "loaded"

(* A resident runtime nobody uses is on its way out: its idle timer is      *)
(* armed, or a stop runs; none is forgotten in memory.                      *)
IdleIsTimed ==
  \A r \in Runtimes :
    (gpu.state[r] = "loaded" /\ Up(r) /\ gpu.active[r] = 0 /\ ~gpu.admitting)
      => r \in gpu.idle

(* "without ... double-loading models", and "one-shot command adapter work  *)
(* unloads resident service runtimes before execution": a service beside    *)
(* another one, or beside a one-shot, is one the record still knows as      *)
(* failed to stop or on its way out; stopRuntime swallows a failed stop     *)
(* (963), and the next sweep's probe finds such a service again.  This is   *)
(* so while no load is given up after its start command (915, which leaves  *)
(* a service the record has forgotten) and nobody else starts services:     *)
(* without loadfail, cancel, late, external and refresh.                    *)
ServicesAlone ==
  LET astray(r) == gpu.state[r] \in {"failed", "unloading"} IN
  /\ \A q, r \in Runtimes : svc[q] # "down" /\ svc[r] # "down" =>
       q = r \/ astray(q) \/ astray(r)
  /\ gpu.oneShot # NoItem =>
       \A r \in Runtimes : svc[r] = "down" \/ astray(r)

(* finishWorkItem: whoever ends a work item first decides its outcome; a    *)
(* late release, abort, timeout or failed load never rewrites it.           *)
OutcomeIsFinal ==
  [][\A i \in Items : gpu.work[i] \in Final => gpu'.work[i] = gpu.work[i]]_vars

(* Every client that called acquire is answered.                            *)
EveryCallAnswered ==
  \A i \in Items : gpu.answer[i] = "waiting" ~> gpu.answer[i] # "waiting"

=============================================================================
