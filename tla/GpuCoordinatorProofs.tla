------------------------- MODULE GpuCoordinatorProofs -------------------------
(***************************************************************************)
(* Theorems about GpuCoordinator for every value of its constants.         *)
(*                                                                         *)
(* First its type correctness, that the outcome of a work item is final,   *)
(* that work starts in queue order, and that no wakeup of the queue is     *)
(* lost.  The first two follow from one relation, Evolves, between the     *)
(* coordinator's state before and after a method.  It is transitive, so it *)
(* is proved method by method and composed as the methods call each other. *)
(* The queue's theorems rest in the same way on Calm (a method that starts *)
(* nobody and queues nobody) and on what one pump() does to any state.     *)
(*                                                                         *)
(* Then mutual exclusion on the GPU: there is one admission at a time,     *)
(* leases held together are for one model, within its cap, and the         *)
(* counters the code keeps by hand are right.  Nothing that is live is     *)
(* left without somebody who will finish it, the runtime of a lease stays  *)
(* loaded until the lease is released, an idle one has its timer armed,    *)
(* and services do not run side by side.                                   *)
(*                                                                         *)
(* An overdue queue head breaks the admission lock (the code's pump() is   *)
(* not reentrant), a forced unload the counters, and idle timers, health   *)
(* refreshes and services that die take runtimes away: each theorem names  *)
(* the events its instances are without.                                   *)
(***************************************************************************)
EXTENDS GpuCoordinator, FiniteSetTheorems, WellFoundedInduction, TLAPS

-----------------------------------------------------------------------------
(* The inductive invariant *)

(* The admission of a one-shot only unloads runtimes: it never waits for a  *)
(* runtime of its own to be healthy.  Without it the idle timer of runtime  *)
(* "0" could be armed, and TypeOK is not inductive.                         *)
OneShotsOnlySweep(s) ==
  \A i \in Items : Model[i] = OneShot =>
    s.adm[i].at \in {"none", "sweepProbe", "stopCmd", "stopWait"}

(* An item nobody acquired has no row. *)
NoRowBeforeCall(s) ==
  \A i \in Items : s.answer[i] = "none" => s.work[i] = "absent"

Evolves(s, t) ==
  /\ t \in GpuState
  /\ OneShotsOnlySweep(s) => OneShotsOnlySweep(t)
  /\ NoRowBeforeCall(s) => NoRowBeforeCall(t)
  /\ \A i \in Items : s.work[i] \in Final => t.work[i] = s.work[i]

IInv == TypeOK /\ OneShotsOnlySweep(gpu) /\ NoRowBeforeCall(gpu)

(* A method made of two that evolve the state evolves it. *)
LEMMA EvolvesTransitive ==
  ASSUME NEW s, NEW t, NEW u, Evolves(s, t), Evolves(t, u)
  PROVE  Evolves(s, u)
BY DEF Evolves

(* Updates that touch neither rows, answers nor admissions evolve a state.  *)
LEMMA EvolvesElsewhere ==
  ASSUME NEW s \in GpuState, NEW t \in GpuState,
         t.work = s.work, t.answer = s.answer, t.adm = s.adm
  PROVE  Evolves(s, t)
BY DEF Evolves, OneShotsOnlySweep, NoRowBeforeCall

-----------------------------------------------------------------------------
(* Methods that make no other call *)

(* finishWorkItem writes a row only while it is live. *)
LEMMA FinishEvolves ==
  ASSUME NEW s \in GpuState, NEW i \in Items, NEW outcome \in Final
  PROVE  Evolves(s, Finish(s, i, outcome))
<1> DEFINE t == Finish(s, i, outcome)
<1>1. t \in GpuState
  BY DEF Finish, GpuState, Live, Final
<1>2. t.adm = s.adm /\ t.answer = s.answer
  BY DEF Finish
<1>3. \A j \in Items : s.work[j] \notin Live => t.work[j] = s.work[j]
  BY DEF Finish, GpuState
<1> QED
  BY <1>1, <1>2, <1>3
  DEF Evolves, OneShotsOnlySweep, NoRowBeforeCall, Live, Final

(* A rejection answers only a caller who waits. *)
LEMMA RejectEvolves ==
  ASSUME NEW s \in GpuState, NEW i \in Items, NEW code \in Refusals
  PROVE  Evolves(s, Reject(s, i, code))
<1> DEFINE t == Reject(s, i, code)
<1>1. t \in GpuState
  BY DEF Reject, GpuState
<1>2. t.adm = s.adm /\ t.work = s.work
  BY DEF Reject
<1>3. \A j \in Items : t.answer[j] = "none" => s.answer[j] = "none"
  BY DEF Reject, GpuState, Refusals
<1> QED
  BY <1>1, <1>2, <1>3 DEF Evolves, OneShotsOnlySweep, NoRowBeforeCall

(* cleanupPending leaves rows, answers and admissions alone. *)
LEMMA CleanupEvolves ==
  ASSUME NEW s \in GpuState, NEW i \in Items
  PROVE  Evolves(s, Cleanup(s, i))
<1>1. Cleanup(s, i) \in GpuState
  BY DEF Cleanup, GpuState
<1> QED
  BY <1>1, EvolvesElsewhere DEF Cleanup, GpuState

(* Arming or disarming an idle timer touches no row. *)
LEMMA ScheduleEvolves ==
  ASSUME NEW s \in GpuState, NEW r \in Runtimes
  PROVE  Evolves(s, ScheduleIdleUnload(s, r))
<1>1. ScheduleIdleUnload(s, r) \in GpuState
  BY DEF ScheduleIdleUnload, GpuState
<1> QED
  BY <1>1, EvolvesElsewhere DEF ScheduleIdleUnload, GpuState

(* Neither does the first stretch of stopRuntime. *)
LEMMA BeginStopEvolves ==
  ASSUME NEW s \in GpuState, NEW r \in 0..N
  PROVE  Evolves(s, BeginStop(s, r))
<1>1. BeginStop(s, r) \in GpuState
  BY DEF BeginStop, GpuState, RuntimeStates
<1> QED
  BY <1>1, EvolvesElsewhere DEF BeginStop, GpuState

(* Setting the state of a runtime evolves the coordinator. *)
LEMMA SetStateEvolves ==
  ASSUME NEW s \in GpuState, NEW r, NEW value \in RuntimeStates
  PROVE  Evolves(s, [s EXCEPT !.state[r] = value])
<1>1. [s EXCEPT !.state[r] = value] \in GpuState
  BY DEF GpuState
<1> QED
  BY <1>1, EvolvesElsewhere DEF GpuState

(* Setting the counter and the items of a runtime does too. *)
LEMMA SetSlotsEvolves ==
  ASSUME NEW s \in GpuState, NEW r \in Runtimes,
         NEW n \in Nat, NEW I \in SUBSET Items
  PROVE  Evolves(s, [s EXCEPT !.active[r] = n, !.ids[r] = I])
<1>1. [s.active EXCEPT ![r] = n] \in [Runtimes -> Nat]
  BY DEF GpuState
<1>2. [s.ids EXCEPT ![r] = I] \in [Runtimes -> SUBSET Items]
  BY DEF GpuState
<1> DEFINE t == [s EXCEPT !.active[r] = n, !.ids[r] = I]
<1>3. t \in GpuState
  BY <1>1, <1>2 DEF GpuState
<1>4. t.work = s.work /\ t.answer = s.answer /\ t.adm = s.adm
  BY DEF GpuState
<1>5. Evolves(s, t)
  <2> HIDE DEF t
  <2> QED
    BY <1>3, <1>4, EvolvesElsewhere
<1> QED
  BY <1>5

(* A slot given back leaves a counter that is a natural number.             *)
LEMMA FreeSlotEvolves ==
  ASSUME NEW s \in GpuState, NEW i \in Items
  PROVE  Evolves(s, FreeSlot(s, i))
<1>1. CASE Model[i] = OneShot
  <2>1. [s EXCEPT !.oneShot = IF @ = i THEN NoItem ELSE @] \in GpuState
    BY DEF GpuState
  <2> QED
    BY <1>1, <2>1, EvolvesElsewhere DEF FreeSlot, GpuState
<1>2. CASE Model[i] # OneShot
  <2> DEFINE r == Model[i]
             n == IF s.active[r] > 0 THEN s.active[r] - 1 ELSE 0
             I == s.ids[r] \ {i}
  <2>1. r \in Runtimes
    BY <1>2, RequestsAssumption
  <2>2. n \in Nat /\ I \in SUBSET Items
    <3>1. s.active[r] \in Nat /\ s.ids[r] \in SUBSET Items
      BY <2>1 DEF GpuState
    <3> QED
      BY <3>1
  <2>3. FreeSlot(s, i) = [s EXCEPT !.active[r] = n, !.ids[r] = I]
    BY <1>2 DEF FreeSlot, GpuState
  <2> HIDE DEF r, n, I
  <2>4. Evolves(s, [s EXCEPT !.active[r] = n, !.ids[r] = I])
    BY <2>1, <2>2, SetSlotsEvolves
  <2> QED
    BY <2>3, <2>4
<1> QED
  BY <1>1, <1>2

-----------------------------------------------------------------------------
(* pump, and what ends an admission *)

(* The first stretch of an admission awaits something legal; that of a     *)
(* one-shot, a probe or a stop.                                            *)
LEMMA BeginAdmissionType ==
  ASSUME NEW s \in GpuState, NEW i \in Items
  PROVE  /\ BeginAdmission(s, i) \in Admission
         /\ Model[i] = OneShot => BeginAdmission(s, i).at \in {"sweepProbe", "stopCmd"}
BY RuntimesAssumption DEF BeginAdmission, Admission, AdmissionSteps

(* pump only touches rows that are queued. *)
LEMMA PumpEvolves ==
  ASSUME NEW s \in GpuState
  PROVE  Evolves(s, Pump(s))
<1>1. CASE PumpBlocked(s)
  BY <1>1 DEF Pump, Evolves
<1>2. CASE ~PumpBlocked(s)
  <2> DEFINE
        stops == IF (\E i \in Taken(s) : Model[i] = OneShot)
                    /\ s.state[1] = "loaded" THEN {1} ELSE {}
        work == [i \in Items |-> CASE i \in Taken(s) -> "running"
                                   [] i \in Expired(s) -> "timed_out"
                                   [] OTHER -> s.work[i]]
        answer == [i \in Items |-> CASE i \in TakenTwice(s) -> "e409"
                                     [] i \in Expired(s) -> "e504"
                                     [] OTHER -> s.answer[i]]
        adm == [i \in Items |-> IF i \in Taken(s) THEN BeginAdmission(s, i)
                                                  ELSE s.adm[i]]
        state == [r \in Runtimes |-> IF r \in stops THEN "unloading"
                                                    ELSE s.state[r]]
        idle == (s.idle \ stops) \ {Model[i] : i \in Taken(s)}
        aborted == s.aborted \cup Expired(s)
        pending == s.pending \ (Expired(s) \cup TakenTwice(s))
        refusing == s.refusing \cup TakenTwice(s)
        admitting == Taken(s) # {}
  <2>1. /\ Taken(s) \subseteq Queued(s)
        /\ TakenTwice(s) \subseteq Queued(s)
        /\ Expired(s) \subseteq Queued(s)
        /\ Queued(s) \subseteq Items
    BY DEF Taken, TakenTwice, Expired, Fresh, Late, Queued, GpuState
  <2>2. adm \in [Items -> Admission]
    BY BeginAdmissionType DEF GpuState
  <2>3. work \in [Items -> {"absent"} \cup Live \cup Final]
    BY DEF GpuState, Live, Final
  <2>4. answer \in [Items -> {"none", "waiting", "lease"} \cup Refusals]
    BY DEF GpuState, Refusals
  <2>5. state \in [Runtimes -> RuntimeStates]
    BY DEF GpuState, RuntimeStates
  <2>6. /\ idle \in SUBSET Runtimes
        /\ aborted \in SUBSET Items
        /\ pending \in SUBSET Items
        /\ refusing \in SUBSET Items
        /\ admitting \in BOOLEAN
    BY <2>1 DEF GpuState
  <2>7. Pump(s) =
          [work |-> work, born |-> s.born, rows |-> s.rows,
           pending |-> pending, aborted |-> aborted, answer |-> answer,
           lease |-> s.lease, state |-> state, active |-> s.active,
           ids |-> s.ids, idle |-> idle, oneShot |-> s.oneShot,
           admitting |-> admitting, refusing |-> refusing, adm |-> adm]
    BY <1>2 DEF Pump, GpuState
  <2>8. OneShotsOnlySweep(s) =>
          \A i \in Items : Model[i] = OneShot =>
            adm[i].at \in {"none", "sweepProbe", "stopCmd", "stopWait"}
    BY BeginAdmissionType DEF OneShotsOnlySweep
  <2>9. \A i \in Items : s.work[i] # "queued" => work[i] = s.work[i]
    BY <2>1 DEF Queued
  <2>10. \A i \in Items : answer[i] = "none" => s.answer[i] = "none"
    OBVIOUS
  <2> HIDE DEF work, answer, adm, state, stops, idle, aborted,
                pending, refusing, admitting
  <2>11. Pump(s) \in GpuState
    BY <2>2, <2>3, <2>4, <2>5, <2>6, <2>7 DEF GpuState
  <2>12. /\ Pump(s).work = work
         /\ Pump(s).answer = answer
         /\ Pump(s).adm = adm
    BY <2>7 DEF GpuState
  <2> QED
    BY <2>8, <2>9, <2>10, <2>11, <2>12
    DEF Evolves, OneShotsOnlySweep, NoRowBeforeCall, Final
<1> QED
  BY <1>1, <1>2

(* The end of an admission, its pump included. *)
LEMMA SettleEvolves ==
  ASSUME NEW s \in GpuState, NEW i \in Items
  PROVE  Evolves(s, Settle(s, i))
<1> DEFINE t == [s EXCEPT !.adm[i] = NotAdmitting, !.admitting = FALSE]
<1>1. NotAdmitting \in Admission /\ NotAdmitting.at = "none"
  BY RuntimesAssumption DEF NotAdmitting, Admission, AdmissionSteps
<1>2. t \in GpuState
  BY <1>1 DEF GpuState
<1>3. Evolves(s, t)
  BY <1>1, <1>2 DEF Evolves, OneShotsOnlySweep, NoRowBeforeCall, GpuState
<1>4. Evolves(t, Pump(t))
  BY <1>2, PumpEvolves
<1> QED
  BY <1>3, <1>4, EvolvesTransitive DEF Settle

(* An admission that fails ends its row unless somebody ended it before.    *)
LEMMA AdmissionFailsEvolves ==
  ASSUME NEW s \in GpuState, NEW i \in Items,
         NEW outcome \in Final, NEW code \in Refusals
  PROVE  Evolves(s, AdmissionFails(s, i, outcome, code))
<1> DEFINE t == Finish(s, i, outcome)
           u == Reject(t, i, code)
           v == Cleanup(u, i)
<1>1. Evolves(s, t) /\ t \in GpuState
  BY FinishEvolves DEF Evolves
<1>2. Evolves(t, u) /\ u \in GpuState
  BY <1>1, RejectEvolves DEF Evolves
<1>3. Evolves(u, v) /\ v \in GpuState
  BY <1>2, CleanupEvolves DEF Evolves
<1>4. Evolves(v, Settle(v, i))
  BY <1>3, SettleEvolves
<1>5. AdmissionFails(s, i, outcome, code) = Settle(v, i)
  BY DEF AdmissionFails
<1> HIDE DEF t, u, v
<1> QED
  BY <1>1, <1>2, <1>3, <1>4, <1>5, EvolvesTransitive

(* pending.resolve answers the caller and writes no row. *)
LEMMA GrantEvolves ==
  ASSUME NEW s \in GpuState, NEW i \in Items
  PROVE  Evolves(s, Grant(s, i))
<1> DEFINE t == [s EXCEPT !.answer[i] = IF @ = "waiting" THEN "lease" ELSE @,
                          !.lease[i] = IF s.answer[i] = "waiting"
                                         THEN "held" ELSE "lost"]
<1>1. t \in GpuState
  BY DEF GpuState
<1>2. Evolves(s, t)
  BY <1>1 DEF Evolves, OneShotsOnlySweep, NoRowBeforeCall, GpuState
<1>3. Evolves(t, Settle(t, i))
  BY <1>1, SettleEvolves
<1> QED
  BY <1>2, <1>3, EvolvesTransitive DEF Grant

(* A runtime found ready: its slot is taken, or its idle timer armed. *)
LEMMA RuntimeReadyEvolves ==
  ASSUME NEW s \in GpuState, NEW i \in Items, Model[i] # OneShot
  PROVE  Evolves(s, RuntimeReady(s, i))
<1> DEFINE r == Model[i]
           n == s.active[r] + 1
           I == s.ids[r] \cup {i}
           t == [s EXCEPT !.active[r] = n, !.ids[r] = I]
           u == ScheduleIdleUnload(s, r)
<1>1. r \in Runtimes
  BY RequestsAssumption
<1>2. n \in Nat /\ I \in SUBSET Items
  <2>1. s.active[r] \in Nat /\ s.ids[r] \in SUBSET Items
    BY <1>1 DEF GpuState
  <2> QED
    BY <2>1
<1>3. RuntimeReady(s, i) =
        IF i \in s.aborted THEN AdmissionFails(u, i, "cancelled", "e499")
                           ELSE Grant(t, i)
  BY DEF RuntimeReady, GpuState
<1> HIDE DEF r, n, I
<1>4. Evolves(s, t) /\ t \in GpuState
  <2>1. Evolves(s, t)
    BY <1>1, <1>2, SetSlotsEvolves
  <2> QED
    BY <2>1 DEF Evolves
<1>5. Evolves(s, u) /\ u \in GpuState
  BY <1>1, ScheduleEvolves DEF Evolves
<1> HIDE DEF t, u
<1>6. Evolves(t, Grant(t, i))
  BY <1>4, GrantEvolves
<1>7. Evolves(u, AdmissionFails(u, i, "cancelled", "e499"))
  BY <1>5, AdmissionFailsEvolves DEF Final, Refusals
<1> QED
  BY <1>3, <1>4, <1>5, <1>6, <1>7, EvolvesTransitive

(* A one-shot whose sweep is over runs, or was aborted meanwhile. *)
LEMMA OneShotReadyEvolves ==
  ASSUME NEW s \in GpuState, NEW i \in Items
  PROVE  Evolves(s, OneShotReady(s, i))
<1> DEFINE t == [s EXCEPT !.oneShot = i]
<1>1. t \in GpuState
  BY DEF GpuState
<1>2. t.work = s.work /\ t.answer = s.answer /\ t.adm = s.adm
  BY DEF GpuState
<1>3. OneShotReady(s, i) =
        IF i \in s.aborted THEN AdmissionFails(s, i, "cancelled", "e499")
                           ELSE Grant(t, i)
  BY DEF OneShotReady
<1> HIDE DEF t
<1>4. Evolves(s, t)
  BY <1>1, <1>2, EvolvesElsewhere
<1>5. Evolves(t, Grant(t, i))
  BY <1>1, GrantEvolves
<1>6. Evolves(s, AdmissionFails(s, i, "cancelled", "e499"))
  BY AdmissionFailsEvolves DEF Final, Refusals
<1> QED
  BY <1>3, <1>4, <1>5, <1>6, EvolvesTransitive

(* A failed load ends the admission. *)
LEMMA LoadFailsEvolves ==
  ASSUME NEW s \in GpuState, NEW i \in Items, NEW code \in Refusals
  PROVE  Evolves(s, LoadFails(s, i, code))
<1> DEFINE t == [s EXCEPT !.state[Model[i]] = "failed"]
<1>1. Evolves(s, t) /\ t \in GpuState
  <2>1. "failed" \in RuntimeStates
    BY DEF RuntimeStates
  <2>2. Evolves(s, t)
    BY <2>1, SetStateEvolves
  <2> QED
    BY <2>2 DEF Evolves
<1>2. LoadFails(s, i, code) = AdmissionFails(t, i, "failed", code)
  BY DEF LoadFails
<1> HIDE DEF t
<1>3. Evolves(t, AdmissionFails(t, i, "failed", code))
  BY <1>1, AdmissionFailsEvolves DEF Final
<1> QED
  BY <1>1, <1>2, <1>3, EvolvesTransitive

-----------------------------------------------------------------------------
(* unloadLoadedRuntime *)

(* Writing a legal step to an admission evolves the state; a step of a      *)
(* one-shot has to be one of the sweep.                                     *)
LEMMA SetAdmissionEvolves ==
  ASSUME NEW s \in GpuState, NEW i \in Items, NEW a \in Admission,
         Model[i] = OneShot =>
           a.at \in {"none", "sweepProbe", "stopCmd", "stopWait"}
  PROVE  Evolves(s, [s EXCEPT !.adm[i] = a])
<1> DEFINE t == [s EXCEPT !.adm[i] = a]
<1>1. t \in GpuState
  BY DEF GpuState
<1>2. /\ t.work = s.work /\ t.answer = s.answer
      /\ t.adm[i] = a
      /\ \A j \in Items : j # i => t.adm[j] = s.adm[j]
  BY DEF GpuState
<1>3. Evolves(s, t)
  <2> HIDE DEF t
  <2> QED
    BY <1>1, <1>2 DEF Evolves, OneShotsOnlySweep, NoRowBeforeCall
<1> QED
  BY <1>3

(* What follows the unloading: a lease, a refusal, or the start command.    *)
LEMMA SweepDoneEvolves ==
  ASSUME NEW s \in GpuState, NEW i \in Items, NEW adopt \in BOOLEAN
  PROVE  Evolves(s, SweepDone(s, i, adopt))
<1> DEFINE start == [at |-> "startCmd", pos |-> 0, adopt |-> FALSE]
           t == [s EXCEPT !.state[Model[i]] = "loaded"]
           u == [s EXCEPT !.state[Model[i]] = "loading"]
           v == [u EXCEPT !.adm[i] = start]
<1>1. CASE Model[i] = OneShot
  BY <1>1, OneShotReadyEvolves DEF SweepDone
<1>2. CASE Model[i] # OneShot
  <2>1. SweepDone(s, i, adopt) =
          IF adopt THEN RuntimeReady(t, i)
          ELSE IF i \in s.aborted THEN AdmissionFails(s, i, "failed", "e499")
          ELSE v
    BY <1>2 DEF SweepDone, GpuState
  <2>2. Evolves(s, t) /\ t \in GpuState
    BY SetStateEvolves, Zenon DEF Evolves, RuntimeStates
  <2>3. Evolves(s, u) /\ u \in GpuState
    BY SetStateEvolves, Zenon DEF Evolves, RuntimeStates
  <2>4. start \in Admission
    BY RuntimesAssumption DEF Admission, AdmissionSteps
  <2> HIDE DEF t, u, start
  <2>5. Evolves(u, v)
    BY <1>2, <2>3, <2>4, SetAdmissionEvolves
  <2> HIDE DEF v
  <2>6. Evolves(t, RuntimeReady(t, i))
    BY <1>2, <2>2, RuntimeReadyEvolves
  <2>7. Evolves(s, AdmissionFails(s, i, "failed", "e499"))
    BY AdmissionFailsEvolves DEF Final, Refusals
  <2> QED
    BY <2>1, <2>2, <2>3, <2>5, <2>6, <2>7, EvolvesTransitive
<1> QED
  BY <1>1, <1>2

(* A set of runtimes that is not empty has a first one: the next runtime   *)
(* the loop of unloadLoadedRuntime visits exists.                          *)
LEMMA FirstRuntime ==
  ASSUME NEW S \in SUBSET Runtimes, S # {}
  PROVE  \E r \in S : \A q \in S : r <= q
<1>1. S \in SUBSET Nat
  BY RuntimesAssumption DEF Runtimes
<1>2. PICK r \in S : \A q \in S : ~(<<q, r>> \in OpToRel(<, Nat))
  BY <1>1, NatLessThanWellFounded, WFMin
<1>3. \A q \in S : ~(q < r)
  BY <1>1, <1>2 DEF OpToRel
<1> QED
  BY <1>1, <1>3

(* One turn of the loop: the sweep ends, gives up on a busy runtime, stops  *)
(* a loaded one, or probes the next.                                        *)
LEMMA SweepOnEvolves ==
  ASSUME NEW s \in GpuState, NEW i \in Items,
         NEW pos \in 0..N, NEW adopt \in BOOLEAN
  PROVE  Evolves(s, SweepOn(s, i, pos, adopt))
<1> DEFINE rest == {r \in Runtimes : r > pos /\ r # Model[i]}
           next == CHOOSE r \in rest : \A q \in rest : r <= q
           stop == [at |-> "stopCmd", pos |-> next, adopt |-> adopt]
           look == [at |-> "sweepProbe", pos |-> next, adopt |-> adopt]
           t == BeginStop(s, next)
<1>1. CASE rest = {}
  BY <1>1, SweepDoneEvolves DEF SweepOn
<1>2. CASE rest # {}
  <2>1. next \in rest
    <3>1. \E r \in rest : \A q \in rest : r <= q
      BY <1>2, FirstRuntime
    <3> HIDE DEF rest
    <3> QED
      BY <3>1
  <2>2. SweepOn(s, i, pos, adopt) =
          IF s.active[next] > 0 THEN AdmissionFails(s, i, "failed", "e503")
          ELSE IF s.state[next] = "loaded" THEN [t EXCEPT !.adm[i] = stop]
          ELSE [s EXCEPT !.adm[i] = look]
    <3>1. s.active[next] \in Nat
      BY <2>1 DEF GpuState
    <3> HIDE DEF next
    <3> QED
      BY <1>2, <3>1 DEF SweepOn, next
  <2>3. next \in 0..N
    BY <2>1, RuntimesAssumption DEF Runtimes
  <2> HIDE DEF next
  <2>4. stop \in Admission /\ look \in Admission
    BY <2>3 DEF Admission, AdmissionSteps
  <2>5. stop.at = "stopCmd" /\ look.at = "sweepProbe"
    OBVIOUS
  <2>6. Evolves(s, t) /\ t \in GpuState
    BY <2>3, BeginStopEvolves DEF Evolves
  <2> HIDE DEF t, stop, look
  <2>7. Evolves(t, [t EXCEPT !.adm[i] = stop])
    BY <2>4, <2>5, <2>6, SetAdmissionEvolves
  <2>8. Evolves(s, [s EXCEPT !.adm[i] = look])
    BY <2>4, <2>5, SetAdmissionEvolves
  <2>9. Evolves(s, AdmissionFails(s, i, "failed", "e503"))
    BY AdmissionFailsEvolves DEF Final, Refusals
  <2> QED
    BY <2>2, <2>6, <2>7, <2>8, <2>9, EvolvesTransitive
<1> QED
  BY <1>1, <1>2

-----------------------------------------------------------------------------
(* Releases and cancellations *)

(* The release callback of a lease, a method of four others. *)
LEMMA ReleasedEvolves ==
  ASSUME NEW s \in GpuState, NEW i \in Items, NEW outcome \in Final
  PROVE  Evolves(s, Released(s, i, outcome))
<1> DEFINE t == [s EXCEPT !.lease[i] = "released"]
           u == FreeSlot(t, i)
           v == Finish(u, i, outcome)
           w == Cleanup(v, i)
<1>1. t \in GpuState
  BY DEF GpuState
<1>2. t.work = s.work /\ t.answer = s.answer /\ t.adm = s.adm
  BY DEF GpuState
<1>3. Released(s, i, outcome) =
        IF Model[i] = OneShot THEN w ELSE ScheduleIdleUnload(w, Model[i])
  BY DEF Released
<1> HIDE DEF t
<1>4. Evolves(s, t)
  BY <1>1, <1>2, EvolvesElsewhere
<1>5. Evolves(t, u) /\ u \in GpuState
  BY <1>1, FreeSlotEvolves DEF Evolves
<1> HIDE DEF u
<1>6. Evolves(u, v) /\ v \in GpuState
  BY <1>5, FinishEvolves DEF Evolves
<1> HIDE DEF v
<1>7. Evolves(v, w) /\ w \in GpuState
  BY <1>6, CleanupEvolves DEF Evolves
<1> HIDE DEF w
<1>8. Model[i] # OneShot => Evolves(w, ScheduleIdleUnload(w, Model[i]))
  BY <1>7, ScheduleEvolves, RequestsAssumption
<1> QED
  BY <1>3, <1>4, <1>5, <1>6, <1>7, <1>8, EvolvesTransitive

(* cancelWorkItem, the release by an abort listener included. *)
LEMMA CancelledEvolves ==
  ASSUME NEW s \in GpuState, NEW i \in Items,
         NEW outcome \in Final, NEW now \in BOOLEAN
  PROVE  Evolves(s, Cancelled(s, i, outcome, now))
<1> DEFINE code == CASE outcome = "timed_out" -> "e504"
                     [] outcome = "cancelled" -> "e499"
                     [] OTHER -> "e503"
           f == Finish(s, i, outcome)
           t == [f EXCEPT !.aborted = IF i \in s.pending THEN @ \cup {i} ELSE @]
           u == Reject(t, i, code)
<1>1. code \in Refusals
  BY DEF Refusals
<1>2. Evolves(s, f) /\ f \in GpuState
  BY FinishEvolves DEF Evolves
<1>3. \/ Cancelled(s, i, outcome, now) = Cleanup(u, i)
      \/ Cancelled(s, i, outcome, now) = Released(t, i, "cancelled")
      \/ Cancelled(s, i, outcome, now) = t
  BY DEF Cancelled
<1> HIDE DEF code, f
<1>4. t \in GpuState
  BY <1>2 DEF GpuState
<1>5. t.work = f.work /\ t.answer = f.answer /\ t.adm = f.adm
  BY <1>2 DEF GpuState
<1> HIDE DEF t
<1>6. Evolves(s, t)
  BY <1>2, <1>4, <1>5, EvolvesElsewhere, EvolvesTransitive
<1>7. Evolves(t, u) /\ u \in GpuState
  BY <1>1, <1>4, RejectEvolves DEF Evolves
<1> HIDE DEF u
<1>8. Evolves(u, Cleanup(u, i))
  BY <1>7, CleanupEvolves
<1>9. Evolves(t, Released(t, i, "cancelled"))
  BY <1>4, ReleasedEvolves DEF Final
<1> QED
  BY <1>3, <1>6, <1>7, <1>8, <1>9, EvolvesTransitive

-----------------------------------------------------------------------------
(* The steps of the system *)

(* The initial state satisfies the invariant. *)
LEMMA InitIInv == Init => IInv
<1> SUFFICES ASSUME Init PROVE IInv
  OBVIOUS
<1>1. NotAdmitting \in Admission /\ NotAdmitting.at = "none"
  BY RuntimesAssumption DEF NotAdmitting, Admission, AdmissionSteps
<1>2. gpu \in GpuState
  BY <1>1 DEF Init, GpuState, RuntimeStates
<1>3. /\ overdue \subseteq Items
      /\ svc \in [Runtimes -> {"down", "starting", "up"}]
      /\ idleStop \in [Runtimes -> StopSteps]
      /\ forceStop \in [Runtimes -> StopSteps]
      /\ probe \in [Runtimes -> {"none", "up", "down"}]
  BY DEF Init, StopSteps
<1>4. OneShotsOnlySweep(gpu) /\ NoRowBeforeCall(gpu)
  BY <1>1 DEF Init, OneShotsOnlySweep, NoRowBeforeCall
<1> QED
  BY <1>2, <1>3, <1>4 DEF IInv, TypeOK

(* What every step has to show of the variables around the coordinator. *)
AroundOK ==
  /\ overdue' \subseteq Items
  /\ svc' \in [Runtimes -> {"down", "starting", "up"}]
  /\ idleStop' \in [Runtimes -> StopSteps]
  /\ forceStop' \in [Runtimes -> StopSteps]
  /\ probe' \in [Runtimes -> {"none", "up", "down"}]

(* acquire inserts the row of an item nobody acquired before. *)
LEMMA EnqueueEvolves ==
  ASSUME NEW s \in GpuState, NEW i \in Items, s.work[i] \notin Final
  PROVE  LET t == [s EXCEPT !.work[i] = "queued", !.born[i] = s.rows + 1,
                            !.rows = @ + 1, !.pending = @ \cup {i},
                            !.answer[i] = "waiting"]
         IN Evolves(s, t) /\ t \in GpuState
<1> DEFINE t == [s EXCEPT !.work[i] = "queued", !.born[i] = s.rows + 1,
                          !.rows = @ + 1, !.pending = @ \cup {i},
                          !.answer[i] = "waiting"]
<1> DEFINE work == [s.work EXCEPT ![i] = "queued"]
           born == [s.born EXCEPT ![i] = s.rows + 1]
           answer == [s.answer EXCEPT ![i] = "waiting"]
<1>1. t = [s EXCEPT !.work = work, !.born = born, !.rows = s.rows + 1,
                    !.pending = s.pending \cup {i}, !.answer = answer]
  OBVIOUS
<1>2. /\ work \in [Items -> {"absent"} \cup Live \cup Final]
      /\ born \in [Items -> Nat]
      /\ answer \in [Items -> {"none", "waiting", "lease"} \cup Refusals]
      /\ \A j \in Items : j # i => work[j] = s.work[j] /\ answer[j] = s.answer[j]
      /\ answer[i] = "waiting"
  BY DEF GpuState, Live
<1> HIDE DEF t, work, born, answer
<1>3. t = [work |-> work, born |-> born, rows |-> s.rows + 1,
           pending |-> s.pending \cup {i}, aborted |-> s.aborted,
           answer |-> answer, lease |-> s.lease, state |-> s.state,
           active |-> s.active, ids |-> s.ids, idle |-> s.idle,
           oneShot |-> s.oneShot, admitting |-> s.admitting,
           refusing |-> s.refusing, adm |-> s.adm]
  BY <1>1 DEF GpuState
<1>4. t \in GpuState
  BY <1>2, <1>3 DEF GpuState
<1>5. Evolves(s, t)
  BY <1>2, <1>3, <1>4 DEF Evolves, OneShotsOnlySweep, NoRowBeforeCall
<1> QED
  BY <1>4, <1>5 DEF t

(* A call of acquire, release, cancel or a timer. *)
LEMMA CallSteps ==
  ASSUME IInv, NEW i \in Items,
         \/ Acquire(i) \/ AcquireRefused(i) \/ Release(i)
         \/ Cancel(i) \/ QueueTimeout(i) \/ DeadlinePasses(i)
  PROVE  Evolves(gpu, gpu') /\ AroundOK
<1> USE DEF IInv, TypeOK, AroundOK
<1>1. CASE Acquire(i)
  <2> DEFINE t == [gpu EXCEPT !.work[i] = "queued", !.born[i] = gpu.rows + 1,
                              !.rows = @ + 1, !.pending = @ \cup {i},
                              !.answer[i] = "waiting"]
  <2>1. gpu' = Pump(t)
    BY <1>1 DEF Acquire
  <2>2. gpu.work[i] \notin Final
    BY <1>1 DEF Acquire, NoRowBeforeCall, Final
  <2>3. Evolves(gpu, t) /\ t \in GpuState
    BY <2>2, EnqueueEvolves
  <2> HIDE DEF t
  <2>4. Evolves(t, Pump(t))
    BY <2>3, PumpEvolves
  <2>5. AroundOK
    BY <1>1 DEF Acquire
  <2> QED
    BY <2>1, <2>3, <2>4, <2>5, EvolvesTransitive
<1>2. CASE AcquireRefused(i)
  <2>1. PICK code \in {"e404", "e499"} : gpu' = [gpu EXCEPT !.answer[i] = code]
    BY <1>2 DEF AcquireRefused
  <2>2. gpu' \in GpuState
    BY <2>1 DEF GpuState, Refusals
  <2>3. /\ gpu'.adm = gpu.adm /\ gpu'.work = gpu.work
        /\ \A j \in Items : gpu'.answer[j] = "none" => gpu.answer[j] = "none"
    BY <2>1 DEF GpuState
  <2>4. AroundOK
    BY <1>2 DEF AcquireRefused
  <2> QED
    BY <2>2, <2>3, <2>4 DEF Evolves, OneShotsOnlySweep, NoRowBeforeCall
<1>3. CASE Release(i)
  <2>1. PICK outcome \in {"succeeded", "failed", "cancelled"} :
           gpu' = Pump(Released(gpu, i, outcome))
    BY <1>3 DEF Release
  <2> DEFINE t == Released(gpu, i, outcome)
  <2>2. Evolves(gpu, t) /\ t \in GpuState
    <3>1. outcome \in Final
      BY DEF Final
    <3>2. Evolves(gpu, t)
      BY <3>1, ReleasedEvolves
    <3> QED
      BY <3>2 DEF Evolves
  <2> HIDE DEF t
  <2>3. Evolves(t, Pump(t))
    BY <2>2, PumpEvolves
  <2>4. AroundOK
    BY <1>3 DEF Release
  <2> QED
    BY <2>1, <2>2, <2>3, <2>4, EvolvesTransitive DEF t
<1>4. CASE Cancel(i) \/ QueueTimeout(i)
  <2>1. PICK outcome \in {"cancelled", "timed_out"}, now \in BOOLEAN :
           gpu' = Pump(Cancelled(gpu, i, outcome, now))
    BY <1>4 DEF Cancel, QueueTimeout
  <2> DEFINE t == Cancelled(gpu, i, outcome, now)
  <2>2. Evolves(gpu, t) /\ t \in GpuState
    <3>1. outcome \in Final
      BY DEF Final
    <3>2. Evolves(gpu, t)
      BY <3>1, CancelledEvolves
    <3> QED
      BY <3>2 DEF Evolves
  <2> HIDE DEF t
  <2>3. Evolves(t, Pump(t))
    BY <2>2, PumpEvolves
  <2>4. AroundOK
    BY <1>4 DEF Cancel, QueueTimeout
  <2> QED
    BY <2>1, <2>2, <2>3, <2>4, EvolvesTransitive DEF t
<1>5. CASE DeadlinePasses(i)
  BY <1>5 DEF DeadlinePasses, Evolves
<1> QED
  BY <1>1, <1>2, <1>3, <1>4, <1>5

(* A step of the admission in flight. *)
LEMMA AdmissionProgress ==
  ASSUME IInv, NEW i \in Items, AdmissionStep(i)
  PROVE  Evolves(gpu, gpu') /\ AroundOK
<1> DEFINE a == gpu.adm[i]
<1>1. /\ gpu \in GpuState
      /\ a \in Admission
      /\ a.pos \in 0..N
      /\ a.adopt \in BOOLEAN
      /\ a.at \in AdmissionSteps
  BY DEF IInv, TypeOK, GpuState, Admission
<1>2. 0 \in 0..N
  BY RuntimesAssumption
<1>3. a.at \in {"check", "probe", "startCmd", "startWait"} => Model[i] # OneShot
  BY DEF IInv, OneShotsOnlySweep
<1>4. ASSUME NEW step \in AdmissionSteps,
             Model[i] = OneShot => step \in {"stopCmd", "stopWait"},
             NEW s \in GpuState, s.adm = gpu.adm
      PROVE  Evolves(s, [s EXCEPT !.adm[i].at = step])
  <2> DEFINE b == [a EXCEPT !.at = step]
  <2>1. b \in Admission /\ b.at = step
    BY <1>1, <1>4 DEF Admission
  <2>2. [s EXCEPT !.adm[i].at = step] = [s EXCEPT !.adm[i] = b]
    BY <1>4
  <2> HIDE DEF b
  <2>3. Evolves(s, [s EXCEPT !.adm[i] = b])
    BY <1>4, <2>1, SetAdmissionEvolves
  <2> QED
    BY <2>2, <2>3
<1>5. CASE CheckHealth(i)
  <2>1. AroundOK
    BY <1>5 DEF CheckHealth, IInv, TypeOK, AroundOK
  <2>2. Model[i] # OneShot
    BY <1>3, <1>5 DEF CheckHealth
  <2>3. Evolves(gpu, RuntimeReady(gpu, i))
    BY <1>1, <2>2, RuntimeReadyEvolves
  <2>4. Evolves(gpu, [gpu EXCEPT !.adm[i].at = "probe"])
    BY <1>1, <1>4, <2>2 DEF AdmissionSteps
  <2> QED
    BY <1>5, <2>1, <2>3, <2>4 DEF CheckHealth
<1>6. CASE ProbeHealth(i)
  <2>1. AroundOK
    BY <1>6 DEF ProbeHealth, IInv, TypeOK, AroundOK
  <2>2. Evolves(gpu, SweepOn(gpu, i, 0, Up(Model[i])))
    BY <1>1, <1>2, SweepOnEvolves DEF Up
  <2> QED
    BY <1>6, <2>1, <2>2 DEF ProbeHealth
<1>7. ASSUME NEW s \in GpuState, Evolves(gpu, s)
      PROVE  Evolves(gpu, SweepOn(s, i, a.pos, a.adopt))
  BY <1>1, <1>7, SweepOnEvolves, EvolvesTransitive
<1>8. CASE SweepProbe(i)
  <2>1. AroundOK
    BY <1>8 DEF SweepProbe, IInv, TypeOK, AroundOK
  <2> DEFINE down == [gpu EXCEPT !.state[a.pos] = IF @ = "failed" THEN @ ELSE "unloaded"]
             used == [gpu EXCEPT !.idle = @ \ {a.pos}]
             stop == BeginStop(gpu, a.pos)
  <2>2. \/ gpu' = SweepOn(down, i, a.pos, a.adopt)
        \/ gpu' = SweepOn(used, i, a.pos, a.adopt)
        \/ gpu' = [stop EXCEPT !.adm[i].at = "stopCmd"]
    BY <1>8 DEF SweepProbe
  <2>3. Evolves(gpu, down) /\ down \in GpuState
    <3> DEFINE value == IF gpu.state[a.pos] = "failed" THEN "failed" ELSE "unloaded"
    <3>1. down = [gpu EXCEPT !.state[a.pos] = value]
      OBVIOUS
    <3>2. value \in RuntimeStates
      BY DEF RuntimeStates
    <3> HIDE DEF value
    <3>3. Evolves(gpu, down)
      BY <1>1, <3>1, <3>2, SetStateEvolves
    <3> QED
      BY <3>3 DEF Evolves
  <2>4. Evolves(gpu, used) /\ used \in GpuState
    <3>1. used \in GpuState
      BY <1>1 DEF GpuState
    <3>2. used.work = gpu.work /\ used.answer = gpu.answer /\ used.adm = gpu.adm
      BY <1>1 DEF GpuState
    <3> HIDE DEF used
    <3> QED
      BY <1>1, <3>1, <3>2, EvolvesElsewhere
  <2>5. Evolves(gpu, stop) /\ stop \in GpuState
    BY <1>1, BeginStopEvolves DEF Evolves
  <2>6. stop.adm = gpu.adm
    BY <1>1 DEF BeginStop, GpuState
  <2> HIDE DEF down, used, stop
  <2>7. Evolves(stop, [stop EXCEPT !.adm[i].at = "stopCmd"])
    BY <1>4, <2>5, <2>6 DEF AdmissionSteps
  <2> QED
    BY <1>7, <2>1, <2>2, <2>3, <2>4, <2>5, <2>7, EvolvesTransitive
<1>9. CASE SweepStopCommand(i) \/ StartCommand(i)
  <2>1. AroundOK
    BY <1>9 DEF SweepStopCommand, StartCommand, IInv, TypeOK, AroundOK
  <2>2. Evolves(gpu, [gpu EXCEPT !.adm[i].at = "stopWait"])
    BY <1>1, <1>4 DEF AdmissionSteps
  <2>3. CASE SweepStopCommand(i)
    BY <2>1, <2>2, <2>3 DEF SweepStopCommand
  <2>4. CASE StartCommand(i)
    <3>1. Model[i] # OneShot
      BY <1>3, <2>4 DEF StartCommand
    <3>2. Evolves(gpu, [gpu EXCEPT !.adm[i].at = "startWait"])
      BY <1>1, <1>4, <3>1 DEF AdmissionSteps
    <3> QED
      BY <2>1, <2>4, <3>2 DEF StartCommand
  <2> QED
    BY <1>9, <2>3, <2>4
<1>10. ASSUME NEW r, NEW value \in RuntimeStates
       PROVE  /\ Evolves(gpu, [gpu EXCEPT !.state[r] = value])
              /\ [gpu EXCEPT !.state[r] = value] \in GpuState
  <2>1. Evolves(gpu, [gpu EXCEPT !.state[r] = value])
    BY <1>1, SetStateEvolves
  <2> QED
    BY <2>1 DEF Evolves
<1>11. CASE SweepStopped(i) \/ SweepStopFails(i)
  <2>1. AroundOK
    BY <1>11 DEF SweepStopped, SweepStopFails, IInv, TypeOK, AroundOK
  <2>2. PICK value \in RuntimeStates :
           gpu' = SweepOn([gpu EXCEPT !.state[a.pos] = value], i, a.pos, a.adopt)
    BY <1>11 DEF SweepStopped, SweepStopFails, RuntimeStates
  <2> DEFINE s == [gpu EXCEPT !.state[a.pos] = value]
  <2>3. Evolves(gpu, s) /\ s \in GpuState
    BY <1>10
  <2> HIDE DEF s
  <2>4. Evolves(gpu, SweepOn(s, i, a.pos, a.adopt))
    BY <1>7, <2>3
  <2> QED
    BY <2>1, <2>2, <2>4 DEF s
<1>12. CASE StartCommandFails(i) \/ LoadAborted(i) \/ LoadTimesOut(i)
  <2>1. AroundOK
    BY <1>12 DEF StartCommandFails, LoadAborted, LoadTimesOut,
                 IInv, TypeOK, AroundOK
  <2>2. PICK code \in Refusals : gpu' = LoadFails(gpu, i, code)
    BY <1>12 DEF StartCommandFails, LoadAborted, LoadTimesOut, Refusals
  <2> QED
    BY <1>1, <2>1, <2>2, LoadFailsEvolves
<1>13. CASE LoadHealthy(i)
  <2>1. AroundOK
    BY <1>13 DEF LoadHealthy, IInv, TypeOK, AroundOK
  <2> DEFINE s == [gpu EXCEPT !.state[Model[i]] = "loaded"]
  <2>2. Evolves(gpu, s) /\ s \in GpuState
    BY <1>10 DEF RuntimeStates
  <2>3. gpu' = RuntimeReady(s, i)
    BY <1>13 DEF LoadHealthy
  <2>4. Model[i] # OneShot
    BY <1>3, <1>13 DEF LoadHealthy
  <2> HIDE DEF s
  <2>5. Evolves(s, RuntimeReady(s, i))
    BY <2>2, <2>4, RuntimeReadyEvolves
  <2> QED
    BY <2>1, <2>2, <2>3, <2>5, EvolvesTransitive
<1>14. CASE RefusedSettles(i)
  <2>1. AroundOK
    BY <1>14 DEF RefusedSettles, IInv, TypeOK, AroundOK
  <2> DEFINE s == [gpu EXCEPT !.refusing = @ \ {i}, !.admitting = FALSE]
  <2>2. s \in GpuState
    BY <1>1 DEF GpuState
  <2>3. s.work = gpu.work /\ s.answer = gpu.answer /\ s.adm = gpu.adm
    BY <1>1 DEF GpuState
  <2>4. gpu' = Pump(s)
    BY <1>14 DEF RefusedSettles
  <2> HIDE DEF s
  <2>5. Evolves(gpu, s)
    BY <1>1, <2>2, <2>3, EvolvesElsewhere
  <2>6. Evolves(s, Pump(s))
    BY <2>2, PumpEvolves
  <2> QED
    BY <2>1, <2>4, <2>5, <2>6, EvolvesTransitive
<1> QED
  BY <1>5, <1>6, <1>8, <1>9, <1>11, <1>12, <1>13, <1>14 DEF AdmissionStep

(* forceUnloadRuntime up to its stop command. *)
LEMMA ForceUnloadEvolves ==
  ASSUME IInv, NEW r \in Runtimes, ForceUnload(r)
  PROVE  Evolves(gpu, gpu')
<1>1. gpu \in GpuState
  BY DEF IInv, TypeOK
<1>2. PICK now \in SUBSET gpu.ids[r] :
       LET hit == gpu.ids[r]
           over == {i \in now : gpu.lease[i] = "held" /\ i \notin gpu.aborted}
           t == [gpu EXCEPT
                  !.work = [i \in Items |-> IF i \in hit /\ @[i] \in Live
                                              THEN "failed" ELSE @[i]],
                  !.aborted = @ \cup (hit \cap gpu.pending),
                  !.lease = [i \in Items |-> IF i \in over
                                               THEN "released" ELSE @[i]],
                  !.pending = @ \ over,
                  !.active[r] = IF @ > Cardinality(over)
                                  THEN @ - Cardinality(over) ELSE 0,
                  !.ids[r] = @ \ over]
       IN gpu' = BeginStop([Pump(t) EXCEPT !.active[r] = 0, !.ids[r] = {}], r)
  BY Zenon DEF ForceUnload
<1> DEFINE hit == gpu.ids[r]
           over == {i \in now : gpu.lease[i] = "held" /\ i \notin gpu.aborted}
           work == [i \in Items |-> IF i \in hit /\ gpu.work[i] \in Live
                                      THEN "failed" ELSE gpu.work[i]]
           lease == [i \in Items |-> IF i \in over
                                       THEN "released" ELSE gpu.lease[i]]
           n == IF gpu.active[r] > Cardinality(over)
                  THEN gpu.active[r] - Cardinality(over) ELSE 0
           active == [gpu.active EXCEPT ![r] = n]
           ids == [gpu.ids EXCEPT ![r] = @ \ over]
           aborted == gpu.aborted \cup (hit \cap gpu.pending)
           pending == gpu.pending \ over
           s == [gpu EXCEPT !.work = work, !.aborted = aborted, !.lease = lease]
           t == [s EXCEPT !.pending = pending, !.active = active, !.ids = ids]
           u == Pump(t)
           v == [u EXCEPT !.active[r] = 0, !.ids[r] = {}]
<1>3. gpu' = BeginStop(v, r)
  BY <1>2
<1>4. hit \in SUBSET Items /\ gpu.active[r] \in Nat
  BY <1>1 DEF GpuState
<1>5. over \in SUBSET Items
  BY <1>4
<1>6. Cardinality(over) \in Nat
  BY <1>5, ItemsAssumption, FS_Subset, FS_CardinalityType
<1>7. n \in Nat
  <2> HIDE DEF over
  <2> QED
    BY <1>4, <1>6
<1> HIDE DEF over, n
<1>8. /\ work \in [Items -> {"absent"} \cup Live \cup Final]
      /\ lease \in [Items -> {"none", "held", "released", "lost"}]
      /\ active \in [Runtimes -> Nat]
      /\ ids \in [Runtimes -> SUBSET Items]
      /\ aborted \in SUBSET Items
      /\ pending \in SUBSET Items
  BY <1>1, <1>7 DEF GpuState, Final
<1>9. \A i \in Items : gpu.work[i] \notin Live => work[i] = gpu.work[i]
  OBVIOUS
<1> HIDE DEF work, lease, active, ids, aborted, pending
<1>10. s \in GpuState /\ s.work = work /\ s.answer = gpu.answer /\ s.adm = gpu.adm
  BY <1>1, <1>8 DEF GpuState
<1> HIDE DEF s
<1>11. t \in GpuState /\ t.work = work /\ t.answer = gpu.answer /\ t.adm = gpu.adm
  BY <1>8, <1>10 DEF GpuState
<1> HIDE DEF t
<1>12. Evolves(gpu, t)
  BY <1>9, <1>11
  DEF Evolves, OneShotsOnlySweep, NoRowBeforeCall, Live, Final
<1>13. Evolves(t, u) /\ u \in GpuState
  <2>1. Evolves(t, u)
    BY <1>11, PumpEvolves
  <2> QED
    BY <2>1 DEF Evolves
<1> HIDE DEF u
<1>14. Evolves(u, v) /\ v \in GpuState
  <2>1. Evolves(u, v)
    BY <1>13, SetSlotsEvolves
  <2> QED
    BY <2>1 DEF Evolves
<1> HIDE DEF v
<1>15. Evolves(v, BeginStop(v, r))
  BY <1>14, BeginStopEvolves, RuntimesAssumption DEF Runtimes
<1> QED
  BY <1>3, <1>12, <1>13, <1>14, <1>15, EvolvesTransitive

(* A step of a runtime: a timer, a stop, a probe or its service process. *)
LEMMA RuntimeSteps ==
  ASSUME IInv, NEW r \in Runtimes, RuntimeStep(r)
  PROVE  Evolves(gpu, gpu') /\ AroundOK
<1>1. gpu \in GpuState
  BY DEF IInv, TypeOK
<1>2. ASSUME UNCHANGED gpu
      PROVE  Evolves(gpu, gpu')
  BY <1>1, <1>2 DEF Evolves
<1>3. ASSUME NEW s \in GpuState, s.work = gpu.work, s.answer = gpu.answer,
             s.adm = gpu.adm
      PROVE  Evolves(gpu, s) /\ Evolves(gpu, Pump(s))
  BY <1>1, <1>3, EvolvesElsewhere, PumpEvolves, EvolvesTransitive
<1>4. Evolves(gpu, BeginStop(gpu, r))
  BY <1>1, BeginStopEvolves, RuntimesAssumption DEF Runtimes
<1>5. ASSUME NEW value \in {"unloaded", "failed"},
             gpu' = Pump([gpu EXCEPT !.state[r] = value])
      PROVE  Evolves(gpu, gpu')
  <2> DEFINE s == [gpu EXCEPT !.state[r] = value]
  <2>1. s \in GpuState
    BY <1>1 DEF GpuState, RuntimeStates
  <2>2. s.work = gpu.work /\ s.answer = gpu.answer /\ s.adm = gpu.adm
    BY <1>1 DEF GpuState
  <2>3. gpu' = Pump(s)
    BY <1>5
  <2> HIDE DEF s
  <2> QED
    BY <1>3, <2>1, <2>2, <2>3
<1>6. CASE IdleFires(r)
  <2>1. AroundOK
    BY <1>6 DEF IdleFires, IInv, TypeOK, AroundOK, StopSteps
  <2> DEFINE s == [gpu EXCEPT !.idle = @ \ {r}]
  <2>2. s \in GpuState
    BY <1>1 DEF GpuState
  <2>3. s.work = gpu.work /\ s.answer = gpu.answer /\ s.adm = gpu.adm
    BY <1>1 DEF GpuState
  <2>4. gpu' = Pump(s) \/ gpu' = BeginStop(gpu, r)
    BY <1>6 DEF IdleFires
  <2> HIDE DEF s
  <2> QED
    BY <1>3, <1>4, <2>1, <2>2, <2>3, <2>4
<1>7. CASE ForceUnload(r)
  <2>1. AroundOK
    BY <1>7 DEF ForceUnload, IInv, TypeOK, AroundOK, StopSteps
  <2> QED
    BY <1>7, <2>1, ForceUnloadEvolves
<1>8. CASE IdleStopCommand(r) \/ ForceStopCommand(r)
  <2>1. AroundOK
    BY <1>8 DEF IdleStopCommand, ForceStopCommand, IInv, TypeOK, AroundOK, StopSteps
  <2> QED
    BY <1>2, <1>8, <2>1 DEF IdleStopCommand, ForceStopCommand
<1>9. CASE IdleStopped(r) \/ IdleStopFails(r) \/ ForceStopped(r) \/ ForceStopFails(r)
  <2>1. AroundOK
    BY <1>9 DEF IdleStopped, IdleStopFails, ForceStopped, ForceStopFails,
                IInv, TypeOK, AroundOK, StopSteps
  <2> QED
    BY <1>5, <1>9, <2>1
    DEF IdleStopped, IdleStopFails, ForceStopped, ForceStopFails
<1>10. CASE \/ RefreshProbe(r) \/ ServiceReady(r) \/ ServiceDies(r)
            \/ ServiceStartedOutside(r)
  <2>1. AroundOK
    BY <1>10 DEF RefreshProbe, ServiceReady, ServiceDies, ServiceStartedOutside,
                 IInv, TypeOK, AroundOK
  <2> QED
    BY <1>2, <1>10, <2>1
    DEF RefreshProbe, ServiceReady, ServiceDies, ServiceStartedOutside
<1> QED
  BY <1>6, <1>7, <1>8, <1>9, <1>10 DEF RuntimeStep, StopStep

(* refreshRuntimeHealth writes runtime states alone. *)
LEMMA RefreshStep ==
  ASSUME IInv, RefreshApply
  PROVE  Evolves(gpu, gpu') /\ AroundOK
<1>1. gpu \in GpuState
  BY DEF IInv, TypeOK
<1>2. AroundOK
  BY DEF RefreshApply, IInv, TypeOK, AroundOK
<1>3. PICK state \in [Runtimes -> RuntimeStates] :
         gpu' = [gpu EXCEPT !.state = state]
  <2> DEFINE skipped(r) == gpu.state[r] \in {"loading", "unloading"}
                           \/ gpu.active[r] > 0
             gone(r) == gpu.state[r] = "loaded" /\ probe[r] = "down"
             state == [r \in Runtimes |->
                         CASE skipped(r) -> gpu.state[r]
                           [] ~skipped(r) /\ probe[r] = "up" -> "loaded"
                           [] ~skipped(r) /\ gone(r) -> "unloaded"
                           [] OTHER -> gpu.state[r]]
  <2>1. gpu' = [gpu EXCEPT !.state = state]
    BY DEF RefreshApply
  <2>2. state \in [Runtimes -> RuntimeStates]
    <3>1. gpu.state \in [Runtimes -> RuntimeStates]
      BY <1>1 DEF GpuState
    <3> HIDE DEF skipped, gone
    <3> QED
      BY <3>1 DEF RuntimeStates
  <2> QED
    BY <2>1, <2>2
<1>4. gpu' \in GpuState
  BY <1>1, <1>3 DEF GpuState
<1>5. gpu'.work = gpu.work /\ gpu'.answer = gpu.answer /\ gpu'.adm = gpu.adm
  BY <1>1, <1>3 DEF GpuState
<1> QED
  BY <1>1, <1>2, <1>4, <1>5, EvolvesElsewhere

(* Every step of the system evolves the coordinator. *)
LEMMA NextEvolves ==
  ASSUME IInv, [Next]_vars
  PROVE  Evolves(gpu, gpu') /\ AroundOK
<1>1. CASE UNCHANGED vars
  BY <1>1 DEF IInv, TypeOK, AroundOK, Evolves, vars,
              OneShotsOnlySweep, NoRowBeforeCall
<1>2. ASSUME NEW i \in Items, ItemStep(i)
      PROVE  Evolves(gpu, gpu') /\ AroundOK
  BY <1>2, CallSteps, AdmissionProgress DEF ItemStep
<1>3. ASSUME NEW r \in Runtimes, RuntimeStep(r)
      PROVE  Evolves(gpu, gpu') /\ AroundOK
  BY <1>3, RuntimeSteps
<1>4. CASE RefreshApply
  BY <1>4, RefreshStep
<1> QED
  BY <1>1, <1>2, <1>3, <1>4 DEF Next

(* The invariant is inductive. *)
LEMMA NextIInv ==
  ASSUME IInv, [Next]_vars
  PROVE  IInv'
BY NextEvolves DEF Evolves, AroundOK, IInv, TypeOK

-----------------------------------------------------------------------------
(* The theorems *)

(* The coordinator and the runtimes around it stay in the states the code   *)
(* can name: among other things a counter of active requests is never       *)
(* negative, and an admission only ever awaits on a runtime of the Map.     *)
THEOREM TypeCorrect == Spec => []TypeOK
<1>1. IInv => TypeOK
  BY DEF IInv
<1> QED
  BY <1>1, InitIInv, NextIInv, PTL DEF Spec

(* finishWorkItem and pump never rewrite an outcome: whatever calls, timers *)
(* and answers race, the first outcome written to a work item stands.       *)
THEOREM OutcomeStands == Spec => OutcomeIsFinal
<1>1. ASSUME IInv, [Next]_vars
      PROVE  [\A i \in Items : gpu.work[i] \in Final
                => gpu'.work[i] = gpu.work[i]]_vars
  BY <1>1, NextEvolves DEF Evolves
<1> QED
  BY <1>1, InitIInv, NextIInv, PTL DEF Spec, OutcomeIsFinal

-----------------------------------------------------------------------------
(* The queue: what pump() leaves behind, with every kind of event           *)

(* A queued row has its pending entry. *)
Lined(s) ==
  \A i \in Items : s.work[i] = "queued" => i \in s.pending

(* What starts between two states leaves nobody in the queue who ranks      *)
(* above it, or as high and was there before it.                            *)
InOrder(s, t) ==
  \A i, j \in Items :
    s.work[j] # "running" /\ t.work[j] = "running" /\ t.work[i] = "queued" =>
      /\ Priority[i] <= Priority[j]
      /\ Priority[i] = Priority[j] => t.born[j] <= t.born[i]

(* No lost wakeup, of a coordinator state. *)
Woken(s) ==
  (~s.admitting /\ s.oneShot = NoItem) =>
    \A i \in Queued(s) :
      (\A j \in Queued(s) : ~Ahead(s, j, i)) => ~Admissible(s, i)

(* A method that starts nobody and queues nobody. *)
Calm(s, t) ==
  /\ t \in GpuState /\ t.born = s.born
  /\ \A i \in Items :
       /\ t.work[i] = "running" => s.work[i] = "running"
       /\ t.work[i] = "queued" =>
            s.work[i] = "queued" /\ (i \in s.pending => i \in t.pending)

(* One that changes nothing pump() looks at. *)
Rests(s, t) ==
  /\ Calm(s, t)
  /\ t.work = s.work /\ t.pending = s.pending /\ t.active = s.active
  /\ t.admitting = s.admitting /\ t.oneShot = s.oneShot

Stirs(s, t) == \E u : Calm(s, u) /\ t = Pump(u)

(* Methods compose. *)
LEMMA CalmTransitive ==
  ASSUME NEW s, NEW t, NEW u, Calm(s, t), Calm(t, u)
  PROVE  Calm(s, u)
BY DEF Calm

LEMMA CalmStirs ==
  ASSUME NEW s, NEW t, NEW u, Calm(s, t), Stirs(t, u)
  PROVE  Stirs(s, u)
BY CalmTransitive DEF Stirs

(* Updates of runtimes, of the lock and of who is aborted start nobody. *)
LEMMA CalmElsewhere ==
  ASSUME NEW s \in GpuState, NEW t \in GpuState,
         t.work = s.work, t.born = s.born, t.rows = s.rows,
         t.pending = s.pending, t.answer = s.answer, t.lease = s.lease,
         t.adm = s.adm
  PROVE  Calm(s, t)
BY DEF Calm

(* Updates of runtime states, idle timers, ids and aborts: pump() would not *)
(* see them.                                                                *)
LEMMA RestsElsewhere ==
  ASSUME NEW s \in GpuState, NEW t \in GpuState,
         t.work = s.work, t.born = s.born, t.rows = s.rows,
         t.pending = s.pending, t.answer = s.answer, t.lease = s.lease,
         t.adm = s.adm, t.active = s.active, t.admitting = s.admitting,
         t.oneShot = s.oneShot
  PROVE  Rests(s, t)
BY CalmElsewhere DEF Rests

LEMMA FinishCalm ==
  ASSUME NEW s \in GpuState, NEW i \in Items, NEW outcome \in Final
  PROVE  Calm(s, Finish(s, i, outcome))
<1> DEFINE t == Finish(s, i, outcome)
<1>1. t \in GpuState
  BY FinishEvolves DEF Evolves
<1>2. /\ t.born = s.born /\ t.rows = s.rows /\ t.adm = s.adm
      /\ t.lease = s.lease /\ t.answer = s.answer /\ t.pending = s.pending
      /\ \A j \in Items : t.work[j] \in Live => t.work[j] = s.work[j]
  BY DEF Finish, GpuState, Final, Live
<1> HIDE DEF t
<1>3. Calm(s, t)
  BY <1>1, <1>2 DEF Calm, Live
<1> QED
  BY <1>3 DEF t

LEMMA RejectCalm ==
  ASSUME NEW s \in GpuState, NEW i \in Items, NEW code \in Refusals
  PROVE  Calm(s, Reject(s, i, code))
<1> DEFINE t == Reject(s, i, code)
<1>1. t \in GpuState
  BY RejectEvolves DEF Evolves
<1>2. /\ t.born = s.born /\ t.rows = s.rows /\ t.adm = s.adm
      /\ t.lease = s.lease /\ t.pending = s.pending /\ t.work = s.work
  BY DEF Reject, GpuState
<1> HIDE DEF t
<1>3. Calm(s, t)
  BY <1>1, <1>2 DEF Calm
<1> QED
  BY <1>3 DEF t

(* cleanupPending comes after the row has ended. *)
LEMMA CleanupCalm ==
  ASSUME NEW s \in GpuState, NEW i \in Items, s.work[i] # "queued"
  PROVE  Calm(s, Cleanup(s, i))
<1> DEFINE t == Cleanup(s, i)
<1>1. t \in GpuState
  BY CleanupEvolves DEF Evolves
<1>2. /\ t.born = s.born /\ t.rows = s.rows /\ t.adm = s.adm
      /\ t.lease = s.lease /\ t.work = s.work /\ t.answer = s.answer
      /\ t.pending = s.pending \ {i}
  BY DEF Cleanup, GpuState
<1> HIDE DEF t
<1>3. Calm(s, t)
  BY <1>1, <1>2 DEF Calm
<1> QED
  BY <1>3 DEF t

-----------------------------------------------------------------------------
(* The ends of an admission all pump. *)

LEMMA SettleStirs ==
  ASSUME NEW s \in GpuState, NEW i \in Items
  PROVE  Stirs(s, Settle(s, i))
<1> DEFINE t == [s EXCEPT !.adm[i] = NotAdmitting, !.admitting = FALSE]
<1>1. NotAdmitting \in Admission /\ NotAdmitting.at = "none"
  BY RuntimesAssumption DEF NotAdmitting, Admission, AdmissionSteps
<1>2. t \in GpuState
  BY <1>1 DEF GpuState
<1>3. /\ t.work = s.work /\ t.born = s.born /\ t.rows = s.rows
      /\ t.pending = s.pending /\ t.answer = s.answer /\ t.lease = s.lease
      /\ t.adm[i].at = "none"
      /\ \A j \in Items : j # i => t.adm[j] = s.adm[j]
  BY <1>1 DEF GpuState
<1> HIDE DEF t
<1>4. Calm(s, t)
  BY <1>2, <1>3 DEF Calm
<1> QED
  BY <1>4 DEF Stirs, Settle, t

LEMMA AdmissionFailsStirs ==
  ASSUME NEW s \in GpuState, NEW i \in Items,
         NEW outcome \in Final, NEW code \in Refusals
  PROVE  Stirs(s, AdmissionFails(s, i, outcome, code))
<1> DEFINE t == Finish(s, i, outcome)
           u == Reject(t, i, code)
           v == Cleanup(u, i)
<1>1. Calm(s, t) /\ t \in GpuState /\ t.work[i] # "queued"
  <2>1. t.work[i] # "queued"
    BY DEF Finish, GpuState, Live, Final
  <2> QED
    BY <2>1, FinishCalm DEF Calm
<1>2. Calm(t, u) /\ u \in GpuState /\ u.work[i] # "queued"
  <2>1. Calm(t, u)
    BY <1>1, RejectCalm
  <2>2. u.work = t.work
    BY <1>1 DEF Reject, GpuState
  <2> QED
    BY <1>1, <2>1, <2>2 DEF Calm
<1>3. AdmissionFails(s, i, outcome, code) = Settle(v, i)
  BY DEF AdmissionFails
<1> HIDE DEF t, u
<1>4. Calm(u, v) /\ v \in GpuState
  BY <1>2, CleanupCalm DEF Calm
<1> HIDE DEF v
<1>5. Stirs(v, Settle(v, i))
  BY <1>4, SettleStirs
<1> QED
  BY <1>1, <1>2, <1>3, <1>4, <1>5, CalmStirs

LEMMA GrantStirs ==
  ASSUME NEW s \in GpuState, NEW i \in Items
  PROVE  Stirs(s, Grant(s, i))
<1> DEFINE t == [s EXCEPT !.answer[i] = IF @ = "waiting" THEN "lease" ELSE @,
                          !.lease[i] = IF s.answer[i] = "waiting"
                                         THEN "held" ELSE "lost"]
<1>2. t \in GpuState
  BY DEF GpuState
<1>3. t.work = s.work /\ t.born = s.born /\ t.pending = s.pending
  BY DEF GpuState
<1> HIDE DEF t
<1>4. Calm(s, t)
  BY <1>2, <1>3 DEF Calm
<1>5. Stirs(t, Settle(t, i))
  BY <1>2, SettleStirs
<1> QED
  BY <1>4, <1>5, CalmStirs DEF Grant, t

LEMMA RuntimeReadyStirs ==
  ASSUME NEW s \in GpuState, NEW i \in Items, Model[i] # OneShot
  PROVE  Stirs(s, RuntimeReady(s, i))
<1> DEFINE r == Model[i]
           t == [s EXCEPT !.active[r] = @ + 1, !.ids[r] = @ \cup {i}]
           u == ScheduleIdleUnload(s, r)
<1>1. r \in Runtimes
  BY RequestsAssumption
<1>2. t \in GpuState /\ u \in GpuState
  <2>1. s.active[r] + 1 \in Nat /\ s.ids[r] \cup {i} \in SUBSET Items
    BY <1>1 DEF GpuState
  <2>2. [s EXCEPT !.active[r] = s.active[r] + 1, !.ids[r] = s.ids[r] \cup {i}]
          \in GpuState
    BY <1>1, <2>1, SetSlotsEvolves DEF Evolves
  <2>3. t = [s EXCEPT !.active[r] = s.active[r] + 1, !.ids[r] = s.ids[r] \cup {i}]
    BY DEF GpuState
  <2> QED
    BY <1>1, <2>2, <2>3, ScheduleEvolves DEF Evolves
<1>3. /\ t.work = s.work /\ t.born = s.born /\ t.rows = s.rows
      /\ t.pending = s.pending /\ t.answer = s.answer /\ t.lease = s.lease
      /\ t.adm = s.adm
  BY DEF GpuState
<1>4. /\ u.work = s.work /\ u.born = s.born /\ u.rows = s.rows
      /\ u.pending = s.pending /\ u.answer = s.answer /\ u.lease = s.lease
      /\ u.adm = s.adm
  BY DEF ScheduleIdleUnload, GpuState
<1>5. RuntimeReady(s, i) =
        IF i \in s.aborted THEN AdmissionFails(u, i, "cancelled", "e499")
                           ELSE Grant(t, i)
  BY DEF RuntimeReady
<1> HIDE DEF t, u
<1>6. Calm(s, t) /\ Calm(s, u)
  BY <1>2, <1>3, <1>4, CalmElsewhere
<1>7. Stirs(t, Grant(t, i))
  BY <1>2, <1>6, GrantStirs
<1>8. Stirs(u, AdmissionFails(u, i, "cancelled", "e499"))
  BY <1>1, <1>2, AdmissionFailsStirs DEF Final, Refusals
<1> QED
  BY <1>5, <1>6, <1>7, <1>8, CalmStirs

LEMMA OneShotReadyStirs ==
  ASSUME NEW s \in GpuState, NEW i \in Items
  PROVE  Stirs(s, OneShotReady(s, i))
<1> DEFINE t == [s EXCEPT !.oneShot = i]
<1>2. t \in GpuState
  BY DEF GpuState
<1>3. /\ t.work = s.work /\ t.born = s.born /\ t.rows = s.rows
      /\ t.pending = s.pending /\ t.answer = s.answer /\ t.lease = s.lease
      /\ t.adm = s.adm
  BY DEF GpuState
<1>4. OneShotReady(s, i) =
        IF i \in s.aborted THEN AdmissionFails(s, i, "cancelled", "e499")
                           ELSE Grant(t, i)
  BY DEF OneShotReady
<1> HIDE DEF t
<1>5. Calm(s, t)
  BY <1>2, <1>3, CalmElsewhere
<1>6. Stirs(t, Grant(t, i))
  BY <1>2, <1>5, GrantStirs
<1>7. Stirs(s, AdmissionFails(s, i, "cancelled", "e499"))
  BY AdmissionFailsStirs DEF Final, Refusals
<1> QED
  BY <1>4, <1>5, <1>6, <1>7, CalmStirs

LEMMA SetStateRests ==
  ASSUME NEW s \in GpuState, NEW r, NEW value \in RuntimeStates
  PROVE  Rests(s, [s EXCEPT !.state[r] = value])
<1> DEFINE t == [s EXCEPT !.state[r] = value]
<1>1. t \in GpuState
  BY SetStateEvolves DEF Evolves
<1>2. /\ t.work = s.work /\ t.born = s.born /\ t.rows = s.rows
      /\ t.pending = s.pending /\ t.answer = s.answer /\ t.lease = s.lease
      /\ t.adm = s.adm /\ t.active = s.active /\ t.admitting = s.admitting
      /\ t.oneShot = s.oneShot
  BY DEF GpuState
<1> HIDE DEF t
<1>3. Rests(s, t)
  BY <1>1, <1>2, RestsElsewhere
<1> QED
  BY <1>3 DEF t

LEMMA BeginStopRests ==
  ASSUME NEW s \in GpuState, NEW r \in 0..N
  PROVE  Rests(s, BeginStop(s, r))
<1> DEFINE t == BeginStop(s, r)
<1>1. t \in GpuState
  BY BeginStopEvolves DEF Evolves
<1>2. /\ t.work = s.work /\ t.born = s.born /\ t.rows = s.rows
      /\ t.pending = s.pending /\ t.answer = s.answer /\ t.lease = s.lease
      /\ t.adm = s.adm /\ t.active = s.active /\ t.admitting = s.admitting
      /\ t.oneShot = s.oneShot
  BY DEF BeginStop, GpuState
<1> HIDE DEF t
<1>3. Rests(s, t)
  BY <1>1, <1>2, RestsElsewhere
<1> QED
  BY <1>3 DEF t

LEMMA SetAdmissionRests ==
  ASSUME NEW s \in GpuState, NEW i \in Items, NEW a \in Admission
  PROVE  Rests(s, [s EXCEPT !.adm[i] = a])
<1> DEFINE t == [s EXCEPT !.adm[i] = a]
<1>1. t \in GpuState
  BY DEF GpuState
<1>2. /\ t.work = s.work /\ t.born = s.born /\ t.rows = s.rows
      /\ t.pending = s.pending /\ t.answer = s.answer /\ t.lease = s.lease
      /\ t.active = s.active /\ t.admitting = s.admitting
      /\ t.oneShot = s.oneShot
      /\ \A j \in Items : j # i => t.adm[j] = s.adm[j]
  BY DEF GpuState
<1> HIDE DEF t
<1>3. Rests(s, t)
  BY <1>1, <1>2 DEF Rests, Calm
<1> QED
  BY <1>3 DEF t

LEMMA LoadFailsStirs ==
  ASSUME NEW s \in GpuState, NEW i \in Items, NEW code \in Refusals
  PROVE  Stirs(s, LoadFails(s, i, code))
<1> DEFINE t == [s EXCEPT !.state[Model[i]] = "failed"]
<1>1. "failed" \in RuntimeStates
  BY DEF RuntimeStates
<1>2. Rests(s, t)
  BY <1>1, SetStateRests
<1>3. LoadFails(s, i, code) = AdmissionFails(t, i, "failed", code)
  BY DEF LoadFails
<1> HIDE DEF t
<1>4. Calm(s, t) /\ t \in GpuState
  BY <1>2 DEF Rests, Calm
<1>5. Stirs(t, AdmissionFails(t, i, "failed", code))
  BY <1>4, AdmissionFailsStirs DEF Final
<1> QED
  BY <1>3, <1>4, <1>5, CalmStirs

(* An await of an admission is followed by another, or by a pump. *)
Moves(s, t) == Rests(s, t) \/ Stirs(s, t)

LEMMA RestsMoves ==
  ASSUME NEW s, NEW t, NEW u, Rests(s, t), Moves(t, u)
  PROVE  Moves(s, u)
BY CalmStirs DEF Moves, Rests, Calm

LEMMA SweepDoneMoves ==
  ASSUME NEW s \in GpuState, NEW i \in Items, NEW adopt \in BOOLEAN
  PROVE  Moves(s, SweepDone(s, i, adopt))
<1> DEFINE start == [at |-> "startCmd", pos |-> 0, adopt |-> FALSE]
           t == [s EXCEPT !.state[Model[i]] = "loaded"]
           u == [s EXCEPT !.state[Model[i]] = "loading"]
           v == [u EXCEPT !.adm[i] = start]
<1>1. CASE Model[i] = OneShot
  BY <1>1, OneShotReadyStirs DEF SweepDone, Moves
<1>2. CASE Model[i] # OneShot
  <2>1. SweepDone(s, i, adopt) =
          IF adopt THEN RuntimeReady(t, i)
          ELSE IF i \in s.aborted THEN AdmissionFails(s, i, "failed", "e499")
          ELSE v
    BY <1>2 DEF SweepDone, GpuState
  <2>2. "loaded" \in RuntimeStates /\ "loading" \in RuntimeStates
    BY DEF RuntimeStates
  <2>a. Rests(s, t)
    BY <2>2, SetStateRests
  <2>b. Rests(s, u)
    BY <2>2, SetStateRests
  <2>5. start \in Admission
    BY RuntimesAssumption DEF Admission, AdmissionSteps
  <2> HIDE DEF t, u, start
  <2>3. t \in GpuState
    BY <2>a DEF Rests, Calm
  <2>4. u \in GpuState
    BY <2>b DEF Rests, Calm
  <2>6. Rests(u, v)
    BY <2>4, <2>5, SetAdmissionRests
  <2> HIDE DEF v
  <2>7. Stirs(t, RuntimeReady(t, i))
    BY <1>2, <2>3, RuntimeReadyStirs
  <2>8. Stirs(s, AdmissionFails(s, i, "failed", "e499"))
    BY AdmissionFailsStirs DEF Final, Refusals
  <2> QED
    BY <2>1, <2>a, <2>b, <2>6, <2>7, <2>8, RestsMoves DEF Moves
<1> QED
  BY <1>1, <1>2

LEMMA SweepOnMoves ==
  ASSUME NEW s \in GpuState, NEW i \in Items,
         NEW pos \in 0..N, NEW adopt \in BOOLEAN
  PROVE  Moves(s, SweepOn(s, i, pos, adopt))
<1> DEFINE rest == {r \in Runtimes : r > pos /\ r # Model[i]}
           next == CHOOSE r \in rest : \A q \in rest : r <= q
           stop == [at |-> "stopCmd", pos |-> next, adopt |-> adopt]
           look == [at |-> "sweepProbe", pos |-> next, adopt |-> adopt]
           t == BeginStop(s, next)
<1>1. CASE rest = {}
  BY <1>1, SweepDoneMoves DEF SweepOn
<1>2. CASE rest # {}
  <2>1. next \in rest
    <3>1. \E r \in rest : \A q \in rest : r <= q
      BY <1>2, FirstRuntime
    <3> HIDE DEF rest
    <3> QED
      BY <3>1
  <2>2. \/ SweepOn(s, i, pos, adopt) = AdmissionFails(s, i, "failed", "e503")
        \/ SweepOn(s, i, pos, adopt) = [t EXCEPT !.adm[i] = stop]
        \/ SweepOn(s, i, pos, adopt) = [s EXCEPT !.adm[i] = look]
    <3> HIDE DEF next
    <3> QED
      BY <1>2 DEF SweepOn, next
  <2>3. next \in 0..N
    BY <2>1, RuntimesAssumption DEF Runtimes
  <2> HIDE DEF next
  <2>4. stop \in Admission /\ look \in Admission
    BY <2>3 DEF Admission, AdmissionSteps
  <2>a. Rests(s, t)
    BY <2>3, BeginStopRests
  <2> HIDE DEF t, stop, look
  <2>5. t \in GpuState
    BY <2>a DEF Rests, Calm
  <2>6. Rests(t, [t EXCEPT !.adm[i] = stop])
    BY <2>4, <2>5, SetAdmissionRests
  <2>7. Rests(s, [s EXCEPT !.adm[i] = look])
    BY <2>4, SetAdmissionRests
  <2>8. Stirs(s, AdmissionFails(s, i, "failed", "e503"))
    BY AdmissionFailsStirs DEF Final, Refusals
  <2> QED
    BY <2>2, <2>a, <2>6, <2>7, <2>8, RestsMoves DEF Moves
<1> QED
  BY <1>1, <1>2

(* The release callback of a lease. *)
LEMMA ReleasedCalm ==
  ASSUME NEW s \in GpuState, NEW i \in Items, NEW outcome \in Final,
         s.lease[i] # "none"
  PROVE  Calm(s, Released(s, i, outcome))
<1> DEFINE t == [s EXCEPT !.lease[i] = "released"]
           u == FreeSlot(t, i)
           v == Finish(u, i, outcome)
           w == Cleanup(v, i)
           x == ScheduleIdleUnload(w, Model[i])
<1>1. t \in GpuState
  BY DEF GpuState
<1>2. /\ t.work = s.work /\ t.born = s.born /\ t.rows = s.rows
      /\ t.pending = s.pending /\ t.answer = s.answer /\ t.adm = s.adm
      /\ \A j \in Items : j # i => t.lease[j] = s.lease[j]
  BY DEF GpuState
<1>3. Released(s, i, outcome) = IF Model[i] = OneShot THEN w ELSE x
  BY DEF Released
<1> HIDE DEF t
<1>4. Calm(s, t)
  BY <1>1, <1>2 DEF Calm
<1>5. u \in GpuState
  BY <1>1, FreeSlotEvolves DEF Evolves
<1>6. /\ u.work = t.work /\ u.born = t.born /\ u.rows = t.rows
      /\ u.pending = t.pending /\ u.answer = t.answer /\ u.lease = t.lease
      /\ u.adm = t.adm
  BY <1>1 DEF FreeSlot, GpuState
<1> HIDE DEF u
<1>7. Calm(t, u)
  BY <1>1, <1>5, <1>6, CalmElsewhere
<1>8. v.work[i] # "queued"
  BY <1>5 DEF Finish, GpuState, Live, Final
<1>9. Calm(u, v)
  BY <1>5, FinishCalm
<1> HIDE DEF v
<1>10. Calm(v, w)
  BY <1>8, <1>9, CleanupCalm DEF Calm
<1> HIDE DEF w
<1>11. w \in GpuState
  BY <1>10 DEF Calm
<1>12. Model[i] # OneShot => x \in GpuState
  BY <1>11, RequestsAssumption, ScheduleEvolves DEF Evolves
<1>13. /\ x.work = w.work /\ x.born = w.born /\ x.rows = w.rows
       /\ x.pending = w.pending /\ x.answer = w.answer /\ x.lease = w.lease
       /\ x.adm = w.adm
  BY <1>11 DEF ScheduleIdleUnload, GpuState
<1> HIDE DEF x
<1>14. Model[i] # OneShot => Calm(w, x)
  BY <1>11, <1>12, <1>13, CalmElsewhere
<1> QED
  BY <1>3, <1>4, <1>7, <1>9, <1>10, <1>14, CalmTransitive

(* cancelWorkItem, the release by an abort listener included. *)
LEMMA CancelledCalm ==
  ASSUME NEW s \in GpuState, NEW i \in Items,
         NEW outcome \in Final, NEW now \in BOOLEAN
  PROVE  Calm(s, Cancelled(s, i, outcome, now))
<1> DEFINE code == CASE outcome = "timed_out" -> "e504"
                     [] outcome = "cancelled" -> "e499"
                     [] OTHER -> "e503"
           f == Finish(s, i, outcome)
           t == [f EXCEPT !.aborted = IF i \in s.pending THEN @ \cup {i} ELSE @]
           u == Reject(t, i, code)
<1>1. code \in Refusals
  BY DEF Refusals
<1>2. f.work[i] # "queued" /\ f.lease = s.lease
  BY DEF Finish, GpuState, Live, Final
<1>3. Calm(s, f)
  BY FinishCalm
<1>4. \/ Cancelled(s, i, outcome, now) = Cleanup(u, i)
      \/ /\ Cancelled(s, i, outcome, now) = Released(t, i, "cancelled")
         /\ s.lease[i] = "held"
      \/ Cancelled(s, i, outcome, now) = t
  BY DEF Cancelled
<1> HIDE DEF code, f
<1>5. f \in GpuState
  BY <1>3 DEF Calm
<1>6. t \in GpuState
  BY <1>5 DEF GpuState
<1>7. /\ t.work = f.work /\ t.born = f.born /\ t.rows = f.rows
      /\ t.pending = f.pending /\ t.answer = f.answer /\ t.lease = f.lease
      /\ t.adm = f.adm
  BY <1>5 DEF GpuState
<1> HIDE DEF t
<1>8. Calm(f, t)
  BY <1>5, <1>6, <1>7, CalmElsewhere
<1>9. Calm(t, u)
  BY <1>1, <1>6, RejectCalm
<1>10. u.work[i] # "queued"
  BY <1>2, <1>6, <1>7 DEF Reject, GpuState
<1> HIDE DEF u
<1>11. Calm(u, Cleanup(u, i))
  BY <1>9, <1>10, CleanupCalm DEF Calm
<1>12. s.lease[i] = "held" => Calm(t, Released(t, i, "cancelled"))
  BY <1>2, <1>6, <1>7, ReleasedCalm DEF Final
<1> QED
  BY <1>3, <1>4, <1>8, <1>9, <1>11, <1>12, CalmTransitive

-----------------------------------------------------------------------------
(* The steps of the system *)

(* A state moves to itself by doing nothing. *)
LEMMA RestsHere ==
  ASSUME NEW s \in GpuState
  PROVE  Rests(s, s)
BY RestsElsewhere

(* Every step but acquire and forceUnloadRuntime awaits or pumps. *)
LEMMA CallsMove ==
  ASSUME IInv, NEW i \in Items,
         \/ AcquireRefused(i) \/ Release(i)
         \/ Cancel(i) \/ QueueTimeout(i) \/ DeadlinePasses(i)
  PROVE  Moves(gpu, gpu')
<1> USE DEF IInv, TypeOK
<1>1. CASE AcquireRefused(i)
  <2>1. PICK code \in {"e404", "e499"} : gpu' = [gpu EXCEPT !.answer[i] = code]
    BY <1>1 DEF AcquireRefused
  <2>2. gpu' \in GpuState
    BY <2>1 DEF GpuState, Refusals
  <2>3. /\ gpu'.work = gpu.work /\ gpu'.born = gpu.born /\ gpu'.rows = gpu.rows
        /\ gpu'.pending = gpu.pending /\ gpu'.lease = gpu.lease
        /\ gpu'.adm = gpu.adm /\ gpu'.active = gpu.active
        /\ gpu'.admitting = gpu.admitting /\ gpu'.oneShot = gpu.oneShot
    BY <2>1 DEF GpuState
  <2> QED
    BY <2>2, <2>3 DEF Moves, Rests, Calm
<1>2. CASE Release(i)
  <2>1. PICK outcome \in {"succeeded", "failed", "cancelled"} :
           gpu' = Pump(Released(gpu, i, outcome))
    BY <1>2 DEF Release
  <2>2. outcome \in Final /\ gpu.lease[i] # "none"
    BY <1>2 DEF Final, Release
  <2>3. Calm(gpu, Released(gpu, i, outcome))
    BY <2>2, ReleasedCalm
  <2> QED
    BY <2>1, <2>3 DEF Moves, Stirs
<1>3. CASE Cancel(i) \/ QueueTimeout(i)
  <2>1. PICK outcome \in {"cancelled", "timed_out"}, now \in BOOLEAN :
           gpu' = Pump(Cancelled(gpu, i, outcome, now))
    BY <1>3 DEF Cancel, QueueTimeout
  <2>2. outcome \in Final
    BY DEF Final
  <2>3. Calm(gpu, Cancelled(gpu, i, outcome, now))
    BY <2>2, CancelledCalm
  <2> QED
    BY <2>1, <2>3 DEF Moves, Stirs
<1>4. CASE DeadlinePasses(i)
  BY <1>4, RestsHere DEF DeadlinePasses, Moves
<1> QED
  BY <1>1, <1>2, <1>3, <1>4

(* A step of the admission in flight. *)
LEMMA AdmissionMoves ==
  ASSUME IInv, NEW i \in Items, AdmissionStep(i)
  PROVE  Moves(gpu, gpu')
<1> DEFINE a == gpu.adm[i]
<1>1. /\ gpu \in GpuState
      /\ a \in Admission
      /\ a.pos \in 0..N
      /\ a.adopt \in BOOLEAN
  BY DEF IInv, TypeOK, GpuState, Admission
<1>3. ASSUME NEW s \in GpuState, Rests(gpu, s),
             NEW pos \in 0..N, NEW adopt \in BOOLEAN
      PROVE  Moves(gpu, SweepOn(s, i, pos, adopt))
  BY <1>3, SweepOnMoves, RestsMoves
<1>4. ASSUME NEW s \in GpuState, Rests(gpu, s),
             NEW step \in AdmissionSteps, s.adm = gpu.adm
      PROVE  Moves(gpu, [s EXCEPT !.adm[i].at = step])
  <2> DEFINE b == [a EXCEPT !.at = step]
  <2>1. b \in Admission
    BY <1>1, <1>4 DEF Admission
  <2>2. [s EXCEPT !.adm[i].at = step] = [s EXCEPT !.adm[i] = b]
    BY <1>4
  <2> HIDE DEF b
  <2>3. Rests(s, [s EXCEPT !.adm[i] = b])
    BY <1>4, <2>1, SetAdmissionRests
  <2> QED
    BY <1>4, <2>2, <2>3, RestsMoves DEF Moves
<1>5. Rests(gpu, gpu)
  BY <1>1, RestsHere
<1>6. ASSUME NEW r, NEW value \in RuntimeStates
      PROVE  Rests(gpu, [gpu EXCEPT !.state[r] = value])
  BY <1>1, SetStateRests
<1>7. CASE CheckHealth(i)
  <2>1. Model[i] # OneShot
    BY <1>7 DEF CheckHealth, IInv, OneShotsOnlySweep
  <2>2. Moves(gpu, RuntimeReady(gpu, i))
    BY <1>1, <2>1, RuntimeReadyStirs DEF Moves
  <2>3. Moves(gpu, [gpu EXCEPT !.adm[i].at = "probe"])
    BY <1>1, <1>4, <1>5 DEF AdmissionSteps
  <2> QED
    BY <1>7, <2>2, <2>3 DEF CheckHealth
<1>8. CASE ProbeHealth(i)
  <2>1. 0 \in 0..N /\ Up(Model[i]) \in BOOLEAN
    BY RuntimesAssumption DEF Up
  <2>2. Moves(gpu, SweepOn(gpu, i, 0, Up(Model[i])))
    BY <1>1, <1>3, <1>5, <2>1
  <2> QED
    BY <1>8, <2>2 DEF ProbeHealth
<1>9. CASE SweepProbe(i)
  <2> DEFINE value == IF gpu.state[a.pos] = "failed" THEN "failed" ELSE "unloaded"
             down == [gpu EXCEPT !.state[a.pos] = value]
             used == [gpu EXCEPT !.idle = @ \ {a.pos}]
             stop == BeginStop(gpu, a.pos)
  <2>1. \/ gpu' = SweepOn(down, i, a.pos, a.adopt)
        \/ gpu' = SweepOn(used, i, a.pos, a.adopt)
        \/ gpu' = [stop EXCEPT !.adm[i].at = "stopCmd"]
    BY <1>9 DEF SweepProbe
  <2>3. value \in RuntimeStates
    BY DEF RuntimeStates
  <2> HIDE DEF value
  <2>4. Rests(gpu, down)
    BY <1>6, <2>3
  <2>5. used \in GpuState
    BY <1>1 DEF GpuState
  <2>6. /\ used.work = gpu.work /\ used.born = gpu.born /\ used.rows = gpu.rows
        /\ used.pending = gpu.pending /\ used.answer = gpu.answer
        /\ used.lease = gpu.lease /\ used.adm = gpu.adm
        /\ used.active = gpu.active /\ used.admitting = gpu.admitting
        /\ used.oneShot = gpu.oneShot
    BY <1>1 DEF GpuState
  <2>7. Rests(gpu, stop)
    BY <1>1, BeginStopRests
  <2>8. stop.adm = gpu.adm
    BY <1>1 DEF BeginStop, GpuState
  <2> HIDE DEF down, used, stop
  <2>9. Rests(gpu, used)
    BY <1>1, <2>5, <2>6, RestsElsewhere
  <2>10. /\ down \in GpuState
         /\ used \in GpuState
         /\ stop \in GpuState
    BY <2>4, <2>7, <2>9 DEF Rests, Calm
  <2>11. Moves(gpu, [stop EXCEPT !.adm[i].at = "stopCmd"])
    BY <1>4, <2>7, <2>8, <2>10 DEF AdmissionSteps
  <2> QED
    BY <1>1, <1>3, <2>1, <2>4, <2>9, <2>10, <2>11
<1>10. CASE SweepStopCommand(i) \/ StartCommand(i)
  <2>2. /\ Moves(gpu, [gpu EXCEPT !.adm[i].at = "stopWait"])
        /\ Moves(gpu, [gpu EXCEPT !.adm[i].at = "startWait"])
    BY <1>1, <1>4, <1>5 DEF AdmissionSteps
  <2> QED
    BY <1>10, <2>2 DEF SweepStopCommand, StartCommand
<1>11. CASE SweepStopped(i) \/ SweepStopFails(i)
  <2>1. PICK value \in RuntimeStates :
           gpu' = SweepOn([gpu EXCEPT !.state[a.pos] = value], i, a.pos, a.adopt)
    BY <1>11 DEF SweepStopped, SweepStopFails, RuntimeStates
  <2> DEFINE s == [gpu EXCEPT !.state[a.pos] = value]
  <2>2. Rests(gpu, s)
    BY <1>6
  <2>4. gpu' = SweepOn(s, i, a.pos, a.adopt)
    BY <2>1
  <2> HIDE DEF s
  <2>5. s \in GpuState
    BY <2>2 DEF Rests, Calm
  <2> QED
    BY <1>1, <1>3, <2>2, <2>4, <2>5
<1>12. CASE StartCommandFails(i) \/ LoadAborted(i) \/ LoadTimesOut(i)
  <2>1. PICK code \in Refusals : gpu' = LoadFails(gpu, i, code)
    BY <1>12 DEF StartCommandFails, LoadAborted, LoadTimesOut, Refusals
  <2> QED
    BY <1>1, <2>1, LoadFailsStirs DEF Moves
<1>13. CASE LoadHealthy(i)
  <2> DEFINE s == [gpu EXCEPT !.state[Model[i]] = "loaded"]
  <2>1. Rests(gpu, s)
    BY <1>6 DEF RuntimeStates
  <2>2. gpu' = RuntimeReady(s, i)
    BY <1>13 DEF LoadHealthy
  <2>3. Model[i] # OneShot
    BY <1>13 DEF LoadHealthy, IInv, OneShotsOnlySweep
  <2> HIDE DEF s
  <2>4. s \in GpuState
    BY <2>1 DEF Rests, Calm
  <2> QED
    BY <2>1, <2>2, <2>3, <2>4, RuntimeReadyStirs, RestsMoves DEF Moves
<1>14. CASE RefusedSettles(i)
  <2> DEFINE s == [gpu EXCEPT !.refusing = @ \ {i}, !.admitting = FALSE]
  <2>1. s \in GpuState
    BY <1>1 DEF GpuState
  <2>2. /\ s.work = gpu.work /\ s.born = gpu.born /\ s.rows = gpu.rows
        /\ s.pending = gpu.pending /\ s.answer = gpu.answer
        /\ s.lease = gpu.lease /\ s.adm = gpu.adm
    BY <1>1 DEF GpuState
  <2>3. gpu' = Pump(s)
    BY <1>14 DEF RefusedSettles
  <2> HIDE DEF s
  <2>4. Calm(gpu, s)
    BY <1>1, <2>1, <2>2, CalmElsewhere
  <2> QED
    BY <2>3, <2>4 DEF Moves, Stirs
<1> QED
  BY <1>7, <1>8, <1>9, <1>10, <1>11, <1>12, <1>13, <1>14 DEF AdmissionStep

(* A step of a runtime, or of refreshRuntimeHealth. *)
LEMMA RuntimesMove ==
  ASSUME IInv,
         RefreshApply \/ \E r \in Runtimes : RuntimeStep(r) /\ ~ForceUnload(r)
  PROVE  Moves(gpu, gpu')
<1>1. gpu \in GpuState
  BY DEF IInv, TypeOK
<1>2. CASE RefreshApply
  <2>1. gpu' \in GpuState
    BY <1>2, RefreshStep DEF Evolves
  <2>2. \E state : gpu' = [gpu EXCEPT !.state = state]
    BY <1>2 DEF RefreshApply
  <2>3. /\ gpu'.work = gpu.work /\ gpu'.born = gpu.born /\ gpu'.rows = gpu.rows
        /\ gpu'.pending = gpu.pending /\ gpu'.answer = gpu.answer
        /\ gpu'.lease = gpu.lease /\ gpu'.adm = gpu.adm
        /\ gpu'.active = gpu.active /\ gpu'.admitting = gpu.admitting
        /\ gpu'.oneShot = gpu.oneShot
    BY <1>1, <2>2 DEF GpuState
  <2> QED
    BY <1>1, <2>1, <2>3, RestsElsewhere DEF Moves
<1>3. ASSUME NEW r \in Runtimes, RuntimeStep(r), ~ForceUnload(r)
      PROVE  Moves(gpu, gpu')
  <2>1. CASE UNCHANGED gpu
    BY <1>1, <2>1, RestsHere DEF Moves
  <2>2. CASE IdleFires(r)
    <3> DEFINE s == [gpu EXCEPT !.idle = @ \ {r}]
    <3>1. s \in GpuState
      BY <1>1 DEF GpuState
    <3>2. /\ s.work = gpu.work /\ s.born = gpu.born /\ s.rows = gpu.rows
          /\ s.pending = gpu.pending /\ s.answer = gpu.answer
          /\ s.lease = gpu.lease /\ s.adm = gpu.adm
      BY <1>1 DEF GpuState
    <3>3. gpu' = Pump(s) \/ gpu' = BeginStop(gpu, r)
      BY <2>2 DEF IdleFires
    <3> HIDE DEF s
    <3>4. Calm(gpu, s)
      BY <1>1, <3>1, <3>2, CalmElsewhere
    <3>5. Rests(gpu, BeginStop(gpu, r))
      BY <1>1, BeginStopRests, RuntimesAssumption DEF Runtimes
    <3> QED
      BY <3>3, <3>4, <3>5 DEF Moves, Stirs
  <2>3. CASE IdleStopped(r) \/ IdleStopFails(r)
             \/ ForceStopped(r) \/ ForceStopFails(r)
    <3>1. PICK value \in RuntimeStates :
             gpu' = Pump([gpu EXCEPT !.state[r] = value])
      BY <2>3 DEF IdleStopped, IdleStopFails, ForceStopped, ForceStopFails,
                  RuntimeStates
    <3> DEFINE s == [gpu EXCEPT !.state[r] = value]
    <3>2. Rests(gpu, s)
      BY <1>1, SetStateRests
    <3>3. gpu' = Pump(s)
      BY <3>1
    <3> HIDE DEF s
    <3> QED
      BY <3>2, <3>3 DEF Rests, Moves, Stirs
  <2> QED
    BY <1>3, <2>1, <2>2, <2>3
    DEF RuntimeStep, StopStep, IdleStopCommand, ForceStopCommand,
        RefreshProbe, ServiceReady, ServiceDies, ServiceStartedOutside
<1> QED
  BY <1>2, <1>3

-----------------------------------------------------------------------------
(* pump() *)

(* Queue order is transitive. *)
LEMMA AheadTransitive ==
  ASSUME NEW s \in GpuState, NEW i \in Items, NEW j \in Items, NEW k \in Items,
         Ahead(s, i, j), Ahead(s, j, k)
  PROVE  Ahead(s, i, k)
<1>1. /\ Priority[i] \in Nat /\ Priority[j] \in Nat /\ Priority[k] \in Nat
      /\ s.born[i] \in Nat /\ s.born[j] \in Nat /\ s.born[k] \in Nat
  BY RequestsAssumption DEF GpuState
<1> QED
  BY <1>1 DEF Ahead

(* The sets pump() counts are finite sets of items. *)
LEMMA FreshFinite ==
  ASSUME NEW s \in GpuState, NEW i
  PROVE  /\ Fresh(s) \subseteq Items
         /\ IsFiniteSet(FreshAhead(s, i))
         /\ Cardinality(FreshAhead(s, i)) \in Nat
         /\ Nested(s) \in Nat /\ Nested(s) >= 1
<1>1. Fresh(s) \subseteq Items /\ Late(s) \subseteq Items
  BY DEF Fresh, Late, Queued, GpuState
<1>2. FreshAhead(s, i) \subseteq Items
  BY <1>1 DEF FreshAhead
<1> DEFINE heads == {o \in Late(s) : \A k \in Fresh(s) : Ahead(s, o, k)}
<1>3. heads \subseteq Items
  BY <1>1
<1>4. Nested(s) = Cardinality(heads) + 1
  BY DEF Nested
<1> HIDE DEF heads
<1>5. IsFiniteSet(heads) /\ IsFiniteSet(FreshAhead(s, i))
  BY <1>2, <1>3, FS_Subset, ItemsAssumption
<1>6. Cardinality(heads) \in Nat /\ Cardinality(FreshAhead(s, i)) \in Nat
  BY <1>5, FS_CardinalityType
<1> QED
  BY <1>1, <1>4, <1>5, <1>6

(* Whom an item overtakes if it starts: those who would start before it. *)
LEMMA AheadShrinks ==
  ASSUME NEW s \in GpuState, NEW i \in Items, NEW j \in Items, Ahead(s, i, j)
  PROVE  /\ FreshAhead(s, i) \subseteq FreshAhead(s, j)
         /\ Cardinality(FreshAhead(s, i)) <= Cardinality(FreshAhead(s, j))
<1>1. FreshAhead(s, i) \subseteq FreshAhead(s, j)
  BY AheadTransitive, FreshFinite DEF FreshAhead
<1> QED
  BY <1>1, FreshFinite, FS_Subset

(* pump() starts the fresh items in queue order: those ahead of one it      *)
(* starts start as well.                                                    *)
LEMMA TakenInOrder ==
  ASSUME NEW s \in GpuState, NEW j \in Taken(s), NEW i \in FreshAhead(s, j)
  PROVE  i \in Taken(s)
<1>1. /\ i \in Items /\ j \in Items /\ i \in Fresh(s) /\ Ahead(s, i, j)
  BY FreshFinite DEF Taken, FreshAhead
<1>2. /\ FreshAhead(s, i) \subseteq FreshAhead(s, j)
      /\ Cardinality(FreshAhead(s, i)) <= Cardinality(FreshAhead(s, j))
  BY <1>1, AheadShrinks
<1>3. Cardinality(FreshAhead(s, j)) < (Nested(s) + 1) \div 2
  BY DEF Taken
<1>4. \A k \in FreshAhead(s, j) : Admissible(s, k)
  BY DEF Taken
<1>5. Cardinality(FreshAhead(s, i)) < (Nested(s) + 1) \div 2
  <2> DEFINE half == (Nested(s) + 1) \div 2
  <2>1. half \in Int
    BY FreshFinite
  <2>2. Cardinality(FreshAhead(s, j)) < half
    BY <1>3
  <2> HIDE DEF half
  <2>3. Cardinality(FreshAhead(s, i)) < half
    BY <1>2, <2>1, <2>2, FreshFinite
  <2> QED
    BY <2>3 DEF half
<1> QED
  BY <1>1, <1>2, <1>4, <1>5 DEF Taken

(* ... and the late ones ahead of it end. *)
LEMMA ExpiredInOrder ==
  ASSUME NEW s \in GpuState, NEW j \in Taken(s), NEW o \in Late(s), Ahead(s, o, j)
  PROVE  o \in Expired(s)
<1>1. o \in Items /\ j \in Items
  BY FreshFinite DEF Taken, Late, Queued, GpuState
<1>2. /\ FreshAhead(s, o) \subseteq FreshAhead(s, j)
      /\ Cardinality(FreshAhead(s, o)) <= Cardinality(FreshAhead(s, j))
  BY <1>1, AheadShrinks
<1> DEFINE half == (Nested(s) + 1) \div 2
<1>3. half \in Int /\ Cardinality(FreshAhead(s, j)) < half
  BY FreshFinite DEF Taken
<1> HIDE DEF half
<1>4. Cardinality(FreshAhead(s, o)) < half
  BY <1>2, <1>3, FreshFinite
<1>5. FreshAhead(s, o) \subseteq Taken(s)
  BY <1>2, TakenInOrder
<1> QED
  BY <1>4, <1>5 DEF Expired, half

(* The fields of a coordinator that has pumped. *)
LEMMA PumpWrites ==
  ASSUME NEW s \in GpuState, ~PumpBlocked(s)
  PROVE  LET t == Pump(s) IN
         /\ t \in GpuState
         /\ t.born = s.born /\ t.rows = s.rows /\ t.lease = s.lease
         /\ t.active = s.active /\ t.oneShot = s.oneShot
         /\ t.admitting = (Taken(s) # {})
         /\ t.pending = s.pending \ (Expired(s) \cup TakenTwice(s))
         /\ \A i \in Items :
              /\ t.work[i] = CASE i \in Taken(s) -> "running"
                               [] i \in Expired(s) -> "timed_out"
                               [] OTHER -> s.work[i]
              /\ t.answer[i] = CASE i \in TakenTwice(s) -> "e409"
                                 [] i \in Expired(s) -> "e504"
                                 [] OTHER -> s.answer[i]
              /\ i \notin Taken(s) => t.adm[i] = s.adm[i]
<1> DEFINE t == Pump(s)
<1>1. t \in GpuState
  BY PumpEvolves DEF Evolves
<1>2. /\ t.born = s.born /\ t.rows = s.rows /\ t.lease = s.lease
      /\ t.active = s.active /\ t.oneShot = s.oneShot
      /\ t.admitting = (Taken(s) # {})
      /\ t.pending = s.pending \ (Expired(s) \cup TakenTwice(s))
      /\ t.work = [i \in Items |-> CASE i \in Taken(s) -> "running"
                                     [] i \in Expired(s) -> "timed_out"
                                     [] OTHER -> s.work[i]]
      /\ t.answer = [i \in Items |-> CASE i \in TakenTwice(s) -> "e409"
                                       [] i \in Expired(s) -> "e504"
                                       [] OTHER -> s.answer[i]]
      /\ t.adm = [i \in Items |->
                    IF i \in Taken(s) THEN BeginAdmission(s, i) ELSE s.adm[i]]
  BY DEF Pump, GpuState
<1> HIDE DEF t
<1>3. \A i \in Items :
        /\ t.work[i] = CASE i \in Taken(s) -> "running"
                         [] i \in Expired(s) -> "timed_out"
                         [] OTHER -> s.work[i]
        /\ t.answer[i] = CASE i \in TakenTwice(s) -> "e409"
                           [] i \in Expired(s) -> "e504"
                           [] OTHER -> s.answer[i]
        /\ i \notin Taken(s) => t.adm[i] = s.adm[i]
  BY <1>2
<1> QED
  BY <1>1, <1>2, <1>3 DEF t

(* pump() starts items in the order of the queue. *)
LEMMA PumpLined ==
  ASSUME NEW s \in GpuState, Lined(s)
  PROVE  Lined(Pump(s)) /\ InOrder(s, Pump(s))
<1> DEFINE t == Pump(s)
<1>1. CASE PumpBlocked(s)
  BY <1>1 DEF Pump, InOrder
<1>2. CASE ~PumpBlocked(s)
  <2>1. /\ t.born = s.born
        /\ t.pending = s.pending \ (Expired(s) \cup TakenTwice(s))
        /\ \A i \in Items :
             t.work[i] = CASE i \in Taken(s) -> "running"
                           [] i \in Expired(s) -> "timed_out"
                           [] OTHER -> s.work[i]
    BY <1>2, PumpWrites
  <2> HIDE DEF t
  <2>2. TakenTwice(s) \subseteq Taken(s)
    BY DEF TakenTwice
  <2>3. \A i \in Items : t.work[i] = "queued" =>
          /\ i \notin Taken(s) /\ i \notin Expired(s)
          /\ s.work[i] = "queued" /\ i \in s.pending
    BY <2>1 DEF Lined
  <2>4. Lined(t)
    BY <2>1, <2>2, <2>3 DEF Lined
  <2>5. ASSUME NEW i \in Items, NEW j \in Taken(s), t.work[i] = "queued"
        PROVE  ~Ahead(s, i, j)
    <3> SUFFICES ASSUME Ahead(s, i, j) PROVE FALSE
      OBVIOUS
    <3>1. i \in Queued(s)
      BY <2>3, <2>5 DEF Queued
    <3>2. CASE i \in Fresh(s)
      BY <2>3, <2>5, <3>2, TakenInOrder DEF FreshAhead
    <3>3. CASE i \in Late(s)
      BY <2>3, <2>5, <3>3, ExpiredInOrder
    <3> QED
      BY <3>1, <3>2, <3>3 DEF Fresh, Late
  <2>6. ASSUME NEW i \in Items, NEW j \in Items,
               s.work[j] # "running", t.work[j] = "running",
               t.work[i] = "queued"
        PROVE  /\ Priority[i] <= Priority[j]
               /\ Priority[i] = Priority[j] => t.born[j] <= t.born[i]
    <3>1. j \in Taken(s)
      BY <2>1, <2>6
    <3>2. ~Ahead(s, i, j)
      BY <2>5, <2>6, <3>1
    <3>3. /\ Priority[i] \in Nat /\ Priority[j] \in Nat
          /\ s.born[i] \in Nat /\ s.born[j] \in Nat
      BY RequestsAssumption DEF GpuState
    <3> QED
      BY <2>1, <3>2, <3>3 DEF Ahead
  <2> QED
    BY <2>4, <2>6 DEF InOrder, t
<1> QED
  BY <1>1, <1>2

(* pump() leaves no admissible head in the queue of an idle coordinator. *)
LEMMA PumpWakes ==
  ASSUME NEW s \in GpuState
  PROVE  Woken(Pump(s))
<1> DEFINE t == Pump(s)
<1>1. CASE PumpBlocked(s)
  BY <1>1 DEF Pump, PumpBlocked, Woken
<1>2. CASE ~PumpBlocked(s)
  <2>1. /\ t \in GpuState
        /\ t.born = s.born /\ t.active = s.active
        /\ t.admitting = (Taken(s) # {})
        /\ t.pending = s.pending \ (Expired(s) \cup TakenTwice(s))
        /\ \A i \in Items :
             t.work[i] = CASE i \in Taken(s) -> "running"
                           [] i \in Expired(s) -> "timed_out"
                           [] OTHER -> s.work[i]
    BY <1>2, PumpWrites
  <2> HIDE DEF t
  <2> SUFFICES ASSUME Taken(s) = {},
                      NEW i \in Queued(t),
                      \A j \in Queued(t) : ~Ahead(t, j, i),
                      Admissible(t, i)
               PROVE  FALSE
    BY <2>1 DEF Woken, t
  <2>2. TakenTwice(s) = {}
    BY DEF TakenTwice
  <2>3. Queued(t) = Queued(s) \ Expired(s)
    <3>1. Queued(t) \subseteq Items /\ Queued(s) \subseteq Items
      BY <2>1 DEF Queued, GpuState
    <3> QED
      BY <2>1, <2>2, <3>1 DEF Queued
  <2>4. /\ Admissible(s, i)
        /\ \A j : Ahead(t, j, i) = Ahead(s, j, i)
    BY <2>1 DEF Admissible, Busy, Ahead
  <2>5. FreshAhead(s, i) = {}
    <3>1. Fresh(s) \cap Expired(s) = {}
      BY DEF Fresh, Expired, Late
    <3> QED
      BY <2>3, <2>4, <3>1 DEF FreshAhead, Fresh
  <2>6. Cardinality(FreshAhead(s, i)) < (Nested(s) + 1) \div 2
    <3>1. Cardinality(FreshAhead(s, i)) = 0
      BY <2>5, FS_EmptySet
    <3>2. \A n \in Nat : n >= 1 => 0 < (n + 1) \div 2
      OBVIOUS
    <3> QED
      BY <3>1, <3>2, FreshFinite
  <2>7. CASE i \in Fresh(s)
    <3>1. \A j \in FreshAhead(s, i) \cup {i} : Admissible(s, j)
      BY <2>4, <2>5
    <3>2. i \in Taken(s)
      BY <2>6, <2>7, <3>1, Zenon DEF Taken
    <3> QED
      BY <3>2
  <2>8. CASE i \in Late(s)
    BY <2>3, <2>5, <2>6, <2>8 DEF Expired
  <2> QED
    BY <2>3, <2>7, <2>8 DEF Fresh, Late
<1> QED
  BY <1>1, <1>2

-----------------------------------------------------------------------------
(* The queue through every step *)

(* Methods that start nobody and queue nobody keep the queue as it is, and  *)
(* what pump() starts after them is in order from the beginning.            *)
LEMMA CalmLined ==
  ASSUME NEW s, NEW t, Lined(s), Calm(s, t)
  PROVE  Lined(t) /\ InOrder(s, t)
<1>1. Lined(t)
  BY DEF Calm, Lined
<1>2. InOrder(s, t)
  BY DEF Calm, InOrder
<1> QED
  BY <1>1, <1>2

LEMMA CalmInOrder ==
  ASSUME NEW s, NEW t, NEW u, Calm(s, t), InOrder(t, u)
  PROVE  InOrder(s, u)
BY DEF Calm, InOrder

LEMMA InOrderCalm ==
  ASSUME NEW s, NEW t, NEW u, InOrder(s, t), Calm(t, u)
  PROVE  InOrder(s, u)
BY DEF Calm, InOrder

LEMMA MovesLined ==
  ASSUME NEW s \in GpuState, NEW t, Lined(s), Moves(s, t)
  PROVE  Lined(t) /\ InOrder(s, t)
<1>1. CASE Rests(s, t)
  BY <1>1, CalmLined DEF Rests
<1>2. CASE Stirs(s, t)
  <2>1. PICK u : Calm(s, u) /\ t = Pump(u)
    BY <1>2 DEF Stirs
  <2>2. u \in GpuState /\ Lined(u)
    BY <2>1, CalmLined DEF Calm
  <2> QED
    BY <2>1, <2>2, PumpLined, CalmInOrder
<1> QED
  BY <1>1, <1>2 DEF Moves

(* forceUnloadRuntime cancels leases, pumps, and then takes the slots of    *)
(* the runtime away from whoever the pump has let in.                       *)
LEMMA ForceUnloadLined ==
  ASSUME IInv, Lined(gpu), NEW r \in Runtimes, ForceUnload(r)
  PROVE  Lined(gpu') /\ InOrder(gpu, gpu')
<1>1. gpu \in GpuState
  BY DEF IInv, TypeOK
<1>2. PICK now \in SUBSET gpu.ids[r] :
       LET hit == gpu.ids[r]
           over == {i \in now : gpu.lease[i] = "held" /\ i \notin gpu.aborted}
           t == [gpu EXCEPT
                  !.work = [i \in Items |-> IF i \in hit /\ @[i] \in Live
                                              THEN "failed" ELSE @[i]],
                  !.aborted = @ \cup (hit \cap gpu.pending),
                  !.lease = [i \in Items |-> IF i \in over
                                               THEN "released" ELSE @[i]],
                  !.pending = @ \ over,
                  !.active[r] = IF @ > Cardinality(over)
                                  THEN @ - Cardinality(over) ELSE 0,
                  !.ids[r] = @ \ over]
       IN gpu' = BeginStop([Pump(t) EXCEPT !.active[r] = 0, !.ids[r] = {}], r)
  BY Zenon DEF ForceUnload
<1> DEFINE hit == gpu.ids[r]
           over == {i \in now : gpu.lease[i] = "held" /\ i \notin gpu.aborted}
           n == IF gpu.active[r] > Cardinality(over)
                  THEN gpu.active[r] - Cardinality(over) ELSE 0
           work == [i \in Items |-> IF i \in hit /\ gpu.work[i] \in Live
                                      THEN "failed" ELSE gpu.work[i]]
           lease == [i \in Items |-> IF i \in over
                                       THEN "released" ELSE gpu.lease[i]]
           active == [gpu.active EXCEPT ![r] = n]
           ids == [gpu.ids EXCEPT ![r] = @ \ over]
           aborted == gpu.aborted \cup (hit \cap gpu.pending)
           pending == gpu.pending \ over
           s == [gpu EXCEPT !.work = work, !.aborted = aborted, !.lease = lease]
           t == [s EXCEPT !.pending = pending, !.active = active, !.ids = ids]
           u == Pump(t)
           v == [u EXCEPT !.active[r] = 0, !.ids[r] = {}]
<1>3. gpu' = BeginStop(v, r)
  BY <1>2
<1>4. over \in SUBSET gpu.ids[r] /\ gpu.ids[r] \subseteq Items
      /\ \A i \in over : gpu.lease[i] = "held"
  BY <1>1 DEF GpuState
<1>5. n \in Nat
  <2>1. Cardinality(over) \in Nat /\ gpu.active[r] \in Nat
    BY <1>1, <1>4, ItemsAssumption, FS_Subset, FS_CardinalityType DEF GpuState
  <2> HIDE DEF over
  <2> QED
    BY <2>1
<1> HIDE DEF over, n
<1>6. /\ work \in [Items -> {"absent"} \cup Live \cup Final]
      /\ lease \in [Items -> {"none", "held", "released", "lost"}]
      /\ active \in [Runtimes -> Nat]
      /\ ids \in [Runtimes -> SUBSET Items]
      /\ aborted \in SUBSET Items
      /\ pending \in SUBSET Items
  BY <1>1, <1>5 DEF GpuState, Final
<1>a. \A i \in Items :
        /\ work[i] = "queued" => gpu.work[i] = "queued" /\ i \notin hit
        /\ work[i] = "running" => gpu.work[i] = "running"
  BY DEF Live
<1>b. pending = gpu.pending \ over
  OBVIOUS
<1> HIDE DEF work, lease, active, ids, aborted, pending
<1>c. /\ s \in GpuState /\ s.work = work /\ s.lease = lease
      /\ s.born = gpu.born /\ s.rows = gpu.rows /\ s.answer = gpu.answer
      /\ s.adm = gpu.adm
  BY <1>1, <1>6 DEF GpuState
<1> HIDE DEF s
<1>7. /\ t \in GpuState /\ t.work = work /\ t.lease = lease
      /\ t.born = gpu.born /\ t.rows = gpu.rows /\ t.answer = gpu.answer
      /\ t.adm = gpu.adm /\ t.pending = pending
  BY <1>6, <1>c DEF GpuState
<1> HIDE DEF t
<1>9. \A i \in Items : t.work[i] = "queued" =>
        gpu.work[i] = "queued" /\ (i \in gpu.pending => i \in t.pending)
  BY <1>4, <1>7, <1>a, <1>b
<1>10. Calm(gpu, t)
  BY <1>7, <1>9, <1>a DEF Calm
<1>11. Lined(u) /\ InOrder(gpu, u) /\ u \in GpuState
  BY <1>7, <1>10, CalmLined, PumpLined, CalmInOrder, PumpEvolves DEF Evolves
<1> HIDE DEF u
<1>12. v \in GpuState
  BY <1>11, SetSlotsEvolves DEF Evolves
<1>13. /\ v.work = u.work /\ v.born = u.born /\ v.rows = u.rows
       /\ v.pending = u.pending /\ v.answer = u.answer /\ v.lease = u.lease
       /\ v.adm = u.adm
  BY <1>11 DEF GpuState
<1> HIDE DEF v
<1>14. Calm(u, v)
  BY <1>11, <1>12, <1>13, CalmElsewhere
<1>15. Rests(v, BeginStop(v, r))
  BY <1>12, BeginStopRests, RuntimesAssumption DEF Runtimes
<1> QED
  BY <1>3, <1>11, <1>14, <1>15, CalmLined, InOrderCalm DEF Rests

(* pump() is the last thing a step does; what changes without it is nothing *)
(* pump() would look at.                                                    *)
LEMMA MovesWoken ==
  ASSUME NEW s \in GpuState, NEW t, Woken(s), Moves(s, t)
  PROVE  Woken(t)
<1>1. CASE Rests(s, t)
  <2>1. /\ t.work = s.work /\ t.pending = s.pending /\ t.active = s.active
        /\ t.admitting = s.admitting /\ t.oneShot = s.oneShot
        /\ t.born = s.born
    BY <1>1 DEF Rests, Calm
  <2> QED
    BY <2>1 DEF Woken, Queued, Ahead, Admissible, Busy
<1>2. CASE Stirs(s, t)
  BY <1>2, PumpWakes DEF Stirs, Calm
<1> QED
  BY <1>1, <1>2 DEF Moves

LEMMA InitQueue == Init => Lined(gpu) /\ Woken(gpu)
<1> SUFFICES ASSUME Init PROVE Lined(gpu) /\ Woken(gpu)
  OBVIOUS
<1>1. /\ gpu.pending = {}
      /\ \A i \in Items : gpu.work[i] = "absent"
  BY DEF Init
<1> QED
  BY <1>1 DEF Lined, Woken, Queued

LEMMA NextLined ==
  ASSUME IInv, Lined(gpu), [Next]_vars
  PROVE  Lined(gpu') /\ InOrder(gpu, gpu')
<1>1. gpu \in GpuState
  BY DEF IInv, TypeOK
<1>2. CASE UNCHANGED vars
  BY <1>2 DEF vars, Lined, InOrder
<1>3. ASSUME NEW i \in Items, Acquire(i)
      PROVE  Lined(gpu') /\ InOrder(gpu, gpu')
  <2> DEFINE t == [gpu EXCEPT !.work[i] = "queued", !.born[i] = gpu.rows + 1,
                              !.rows = @ + 1, !.pending = @ \cup {i},
                              !.answer[i] = "waiting"]
  <2>1. gpu' = Pump(t) /\ gpu.answer[i] = "none"
    BY <1>3 DEF Acquire
  <2>2. gpu.work[i] \notin Final
    BY <2>1 DEF IInv, NoRowBeforeCall, Final
  <2>3. t \in GpuState
    BY <1>1, <2>2, EnqueueEvolves
  <2>4. /\ t.pending = gpu.pending \cup {i} /\ t.work[i] = "queued"
        /\ \A j \in Items : j # i => t.work[j] = gpu.work[j]
    BY <1>1 DEF GpuState
  <2> HIDE DEF t
  <2>5. Lined(t)
    BY <2>4 DEF Lined
  <2>6. Lined(gpu') /\ InOrder(t, gpu')
    BY <2>1, <2>3, <2>5, PumpLined
  <2>7. InOrder(gpu, gpu')
    BY <2>4, <2>6 DEF InOrder
  <2> QED
    BY <2>6, <2>7
<1>4. ASSUME NEW i \in Items, ItemStep(i), ~Acquire(i)
      PROVE  Lined(gpu') /\ InOrder(gpu, gpu')
  BY <1>1, <1>4, CallsMove, AdmissionMoves, MovesLined DEF ItemStep
<1>5. ASSUME NEW r \in Runtimes, RuntimeStep(r)
      PROVE  Lined(gpu') /\ InOrder(gpu, gpu')
  BY <1>1, <1>5, RuntimesMove, ForceUnloadLined, MovesLined
<1>6. CASE RefreshApply
  BY <1>1, <1>6, RuntimesMove, MovesLined
<1> QED
  BY <1>2, <1>3, <1>4, <1>5, <1>6 DEF Next

LEMMA NextWoken ==
  ASSUME "force" \notin Events, IInv, Woken(gpu), [Next]_vars
  PROVE  Woken(gpu')
<1>1. gpu \in GpuState
  BY DEF IInv, TypeOK
<1>2. CASE UNCHANGED vars
  BY <1>2 DEF vars, Woken, Queued, Ahead, Admissible, Busy
<1>3. ASSUME NEW i \in Items, Acquire(i)
      PROVE  Woken(gpu')
  <2> DEFINE t == [gpu EXCEPT !.work[i] = "queued", !.born[i] = gpu.rows + 1,
                              !.rows = @ + 1, !.pending = @ \cup {i},
                              !.answer[i] = "waiting"]
  <2>1. gpu' = Pump(t) /\ gpu.answer[i] = "none"
    BY <1>3 DEF Acquire
  <2>2. gpu.work[i] \notin Final
    BY <2>1 DEF IInv, NoRowBeforeCall, Final
  <2>3. t \in GpuState
    BY <1>1, <2>2, EnqueueEvolves
  <2> HIDE DEF t
  <2> QED
    BY <2>1, <2>3, PumpWakes
<1>4. ASSUME NEW i \in Items, ItemStep(i), ~Acquire(i)
      PROVE  Woken(gpu')
  BY <1>1, <1>4, CallsMove, AdmissionMoves, MovesWoken DEF ItemStep
<1>5. ASSUME NEW r \in Runtimes, RuntimeStep(r)
      PROVE  Woken(gpu')
  <2>1. ~ForceUnload(r)
    BY Zenon DEF ForceUnload
  <2> QED
    BY <1>1, <1>5, <2>1, RuntimesMove, MovesWoken
<1>6. CASE RefreshApply
  BY <1>1, <1>6, RuntimesMove, MovesWoken
<1> QED
  BY <1>2, <1>3, <1>4, <1>5, <1>6 DEF Next

(* Work starts in the order of the queue, with every kind of event: what    *)
(* starts leaves nothing behind it of a higher rank, or of the same rank    *)
(* and queued before it.                                                    *)
THEOREM QueueInOrder == Spec => NoOvertaking
<1>1. Init => IInv /\ Lined(gpu)
  BY InitIInv, InitQueue
<1>2. IInv /\ Lined(gpu) /\ [Next]_vars => (IInv /\ Lined(gpu))'
  BY NextIInv, NextLined
<1>3. ASSUME IInv, Lined(gpu), [Next]_vars
      PROVE  [\A i, j \in Items :
                gpu.work[j] # "running" /\ gpu'.work[j] = "running"
                /\ gpu'.work[i] = "queued"
                => /\ Priority[i] <= Priority[j]
                   /\ Priority[i] = Priority[j]
                        => gpu'.born[j] <= gpu'.born[i]]_vars
  BY <1>3, NextLined DEF InOrder
<1> QED
  BY <1>1, <1>2, <1>3, PTL DEF Spec, NoOvertaking

(* No wakeup is lost: whatever frees a slot, an abort, a timeout or a       *)
(* failed load included, an idle coordinator leaves no admissible head in   *)
(* its queue.  A forced unload is the exception: it takes the slots of its  *)
(* runtime away after its last pump, and pumps again only when the stop it  *)
(* has begun ends.                                                          *)
THEOREM NoWakeupLost ==
  ASSUME "force" \notin Events
  PROVE  Spec => []NoLostWakeup
<1>1. Init => IInv /\ Woken(gpu)
  BY InitIInv, InitQueue
<1>2. IInv /\ Woken(gpu) /\ [Next]_vars => (IInv /\ Woken(gpu))'
  BY NextIInv, NextWoken
<1>3. Woken(gpu) => NoLostWakeup
  BY DEF Woken, NoLostWakeup
<1> QED
  BY <1>1, <1>2, <1>3, PTL DEF Spec

-----------------------------------------------------------------------------
(* Mutual exclusion: the inductive invariant *)

Flight(s) == {i \in Items : s.adm[i].at # "none"}
Holders(s) == {i \in Items : s.lease[i] = "held"}

(* The queue has a head: rows are numbered in the order they were inserted. *)
Ordered(s) ==
  /\ \A i \in Items : s.born[i] <= s.rows
  /\ \A i, j \in s.pending : s.born[i] = s.born[j] => i = j

(* The admitting flag is the lock of the one admission in flight. *)
Locked(s) ==
  /\ s.admitting <=> Flight(s) # {}
  /\ \A i, j \in Flight(s) : i = j
  /\ s.refusing = {}

(* At most one runtime is in use, within its cap, or a one-shot runs alone. *)
Exclusive(s) ==
  /\ \A r \in Runtimes : s.active[r] <= MaxConcurrency[r]
  /\ \A q, r \in Runtimes : s.active[q] > 0 /\ s.active[r] > 0 => q = r
  /\ s.oneShot # NoItem => \A r \in Runtimes : s.active[r] = 0

(* The GPU stays reserved for the admission in flight: what pump() saw when *)
(* it started the item still holds when the admission ends, awaits later.   *)
Reserved(s) ==
  \A i \in Flight(s) :
    /\ s.oneShot = NoItem
    /\ \A r \in Runtimes :
         s.active[r] > 0 => r = Model[i] /\ s.active[r] < MaxConcurrency[r]

(* Who is queued or in flight is waited for and has no lease yet. *)
RowOK(s, i) ==
  /\ s.answer[i] = "none" => s.lease[i] = "none" /\ i \notin Flight(s)
  /\ i \in Queued(s) => s.answer[i] = "waiting" /\ s.lease[i] = "none"
  /\ i \in Flight(s) =>
       s.answer[i] = "waiting" /\ s.lease[i] = "none" /\ s.work[i] # "queued"

(* The counters and ids of the runtimes, and the id of the one-shot, name   *)
(* the members of H.                                                        *)
Counts(s, H) ==
  /\ \A r \in Runtimes :
       s.ids[r] = {i \in H : Model[i] = r} /\ s.active[r] = Cardinality(s.ids[r])
  /\ \A i \in Items : i \in H /\ Model[i] = OneShot <=> s.oneShot = i

Accounted(s, H) == "force" \notin Events => Counts(s, H)

Good(s) ==
  /\ s \in GpuState
  /\ Ordered(s) /\ Locked(s) /\ Exclusive(s) /\ Reserved(s)
  /\ \A i \in Items : RowOK(s, i)
  /\ Accounted(s, Holders(s))

XInv == IInv /\ overdue = {} /\ Good(gpu)

(* A state in which the admission of i is about to end. *)
Ending(s, i) ==
  /\ s \in GpuState
  /\ Ordered(s) /\ Exclusive(s)
  /\ s.refusing = {}
  /\ Flight(s) \subseteq {i}
  /\ \A j \in Items \ {i} : RowOK(s, j)
  /\ s.answer[i] # "none" /\ s.work[i] # "queued"
  /\ Accounted(s, Holders(s))

(* Updates of runtime states, idle timers and aborts keep the invariant.    *)
LEMMA GoodElsewhere ==
  ASSUME NEW s, Good(s), NEW t \in GpuState,
         t.work = s.work, t.born = s.born, t.rows = s.rows,
         t.pending = s.pending, t.answer = s.answer, t.lease = s.lease,
         t.active = s.active, t.ids = s.ids, t.oneShot = s.oneShot,
         t.admitting = s.admitting, t.refusing = s.refusing, t.adm = s.adm
  PROVE  Good(t)
<1>1. Flight(t) = Flight(s) /\ Queued(t) = Queued(s) /\ Holders(t) = Holders(s)
  BY DEF Flight, Queued, Holders
<1>2. Ordered(t) /\ Locked(t) /\ Exclusive(t) /\ Reserved(t)
  BY <1>1 DEF Good, Ordered, Locked, Exclusive, Reserved
<1>3. \A i \in Items : RowOK(t, i)
  BY <1>1 DEF Good, RowOK
<1>4. Accounted(t, Holders(t))
  BY <1>1 DEF Good, Accounted, Counts
<1> QED
  BY <1>2, <1>3, <1>4 DEF Good

-----------------------------------------------------------------------------
(* pump *)

(* Without overdue items pump() starts nobody or the head of the queue. *)
LEMMA PumpStarts ==
  ASSUME NEW s \in GpuState, overdue = {}, Ordered(s)
  PROVE  /\ Taken(s) \subseteq Queued(s)
         /\ \A i, j \in Taken(s) : i = j
         /\ \A i \in Taken(s) : Admissible(s, i)
         /\ TakenTwice(s) = {}
         /\ Expired(s) = {}
<1>1. Late(s) = {} /\ Fresh(s) = Queued(s) /\ Queued(s) \subseteq s.pending
      /\ s.pending \subseteq Items
  BY DEF Late, Fresh, Queued, GpuState
<1>2. Nested(s) = 1
  <2>1. {o \in Late(s) : \A i \in Fresh(s) : Ahead(s, o, i)} = {}
    BY <1>1
  <2> QED
    BY <2>1, FS_EmptySet DEF Nested
<1>3. \A i \in Items : /\ Cardinality(FreshAhead(s, i)) \in Nat
                       /\ Cardinality(FreshAhead(s, i)) < 1 => FreshAhead(s, i) = {}
  <2> SUFFICES ASSUME NEW i \in Items
               PROVE  /\ Cardinality(FreshAhead(s, i)) \in Nat
                      /\ Cardinality(FreshAhead(s, i)) < 1 => FreshAhead(s, i) = {}
    OBVIOUS
  <2>1. FreshAhead(s, i) \subseteq Items
    BY <1>1 DEF FreshAhead
  <2>2. IsFiniteSet(FreshAhead(s, i))
    BY <2>1, ItemsAssumption, FS_Subset
  <2>3. Cardinality(FreshAhead(s, i)) \in Nat
    BY <2>2, FS_CardinalityType
  <2>4. Cardinality(FreshAhead(s, i)) = 0 => FreshAhead(s, i) = {}
    BY <2>2, FS_EmptySet
  <2> QED
    BY <2>3, <2>4
<1>4. Expired(s) = {}
  BY <1>1 DEF Expired
<1>5. (Nested(s) + 1) \div 2 = 1 /\ Nested(s) \div 2 = 0
  BY <1>2
<1>6. \A i \in Taken(s) : /\ i \in Queued(s)
                          /\ FreshAhead(s, i) = {}
                          /\ Admissible(s, i)
  BY <1>1, <1>3, <1>5 DEF Taken
<1>7. TakenTwice(s) = {}
  <2>1. \A i \in Items : ~(Cardinality(FreshAhead(s, i)) < 0)
    BY <1>3
  <2> QED
    BY <1>1, <1>5, <1>6, <2>1 DEF TakenTwice
<1>8. ASSUME NEW i \in Taken(s), NEW j \in Taken(s)
      PROVE  i = j
  <2>1. i \in s.pending /\ j \in s.pending /\ i \in Items /\ j \in Items
    BY <1>1, <1>6
  <2>2. ~Ahead(s, i, j) /\ ~Ahead(s, j, i)
    BY <1>1, <1>6 DEF FreshAhead
  <2>3. Priority[i] \in Nat /\ Priority[j] \in Nat
        /\ s.born[i] \in Nat /\ s.born[j] \in Nat
    BY <2>1, RequestsAssumption DEF GpuState
  <2>4. s.born[i] = s.born[j]
    BY <2>2, <2>3 DEF Ahead
  <2> QED
    BY <2>1, <2>4 DEF Ordered
<1> QED
  BY <1>4, <1>6, <1>7, <1>8

(* What a pump() that may start somebody does to the fields of Good. *)
LEMMA PumpFields ==
  ASSUME NEW s \in GpuState, ~PumpBlocked(s),
         TakenTwice(s) = {}, Expired(s) = {}
  PROVE  LET t == Pump(s) IN
         /\ \A i \in Items :
              /\ i \notin Taken(s) => t.work[i] = s.work[i] /\ t.adm[i] = s.adm[i]
              /\ i \in Taken(s) => t.work[i] = "running"
              /\ t.answer[i] = s.answer[i]
         /\ t.pending = s.pending
         /\ t.admitting = (Taken(s) # {})
         /\ t.refusing = s.refusing
         /\ t.born = s.born /\ t.rows = s.rows /\ t.lease = s.lease
         /\ t.active = s.active /\ t.ids = s.ids /\ t.oneShot = s.oneShot
<1> DEFINE t == Pump(s)
<1>1. /\ t.work = [i \in Items |-> CASE i \in Taken(s) -> "running"
                                     [] i \in Expired(s) -> "timed_out"
                                     [] OTHER -> s.work[i]]
      /\ t.answer = [i \in Items |-> CASE i \in TakenTwice(s) -> "e409"
                                       [] i \in Expired(s) -> "e504"
                                       [] OTHER -> s.answer[i]]
      /\ t.adm = [i \in Items |-> IF i \in Taken(s) THEN BeginAdmission(s, i)
                                                    ELSE s.adm[i]]
      /\ t.pending = s.pending \ (Expired(s) \cup TakenTwice(s))
      /\ t.admitting = (Taken(s) # {})
      /\ t.refusing = s.refusing \cup TakenTwice(s)
      /\ t.born = s.born /\ t.rows = s.rows /\ t.lease = s.lease
      /\ t.active = s.active /\ t.ids = s.ids /\ t.oneShot = s.oneShot
  BY DEF Pump, GpuState
<1>2. \A i \in Items : t.work[i] = IF i \in Taken(s) THEN "running" ELSE s.work[i]
  BY <1>1
<1>3. \A i \in Items : i \notin Taken(s) => t.adm[i] = s.adm[i]
  BY <1>1
<1>4. \A i \in Items : t.answer[i] = s.answer[i]
  BY <1>1
<1>5. t.pending = s.pending /\ t.refusing = s.refusing
  BY <1>1
<1> HIDE DEF t
<1> QED
  BY <1>1, <1>2, <1>3, <1>4, <1>5 DEF t

(* pump() keeps the invariant: it starts an item only when the lock is free *)
(* and the GPU is either unused or used below the cap by the item's model.  *)
LEMMA PumpGood ==
  ASSUME NEW s, Good(s), overdue = {}
  PROVE  Good(Pump(s))
<1>1. CASE PumpBlocked(s)
  BY <1>1 DEF Pump
<1>2. CASE ~PumpBlocked(s)
  <2> DEFINE t == Pump(s)
             T == Taken(s)
  <2>1. s \in GpuState /\ Ordered(s)
    BY DEF Good
  <2>2. /\ T \subseteq Queued(s)
        /\ \A i, j \in T : i = j
        /\ \A i \in T : Admissible(s, i)
        /\ TakenTwice(s) = {}
        /\ Expired(s) = {}
    BY <2>1, PumpStarts
  <2>3. t \in GpuState
    BY <2>1, PumpEvolves DEF Evolves
  <2>4. /\ \A i \in Items :
             /\ i \notin T => t.work[i] = s.work[i] /\ t.adm[i] = s.adm[i]
             /\ i \in T => t.work[i] = "running"
             /\ t.answer[i] = s.answer[i]
        /\ t.pending = s.pending
        /\ t.admitting = (T # {})
        /\ t.refusing = s.refusing
        /\ t.born = s.born /\ t.rows = s.rows /\ t.lease = s.lease
        /\ t.active = s.active /\ t.ids = s.ids /\ t.oneShot = s.oneShot
    BY <1>2, <2>1, <2>2, PumpFields
  <2>5. s.oneShot = NoItem /\ Flight(s) = {} /\ s.refusing = {}
    BY <1>2 DEF PumpBlocked, Good, Locked
  <2>6. T \subseteq Items /\ T \subseteq s.pending
    BY <2>1, <2>2 DEF Queued, GpuState
  <2>7. \A i \in T : t.adm[i].at # "none"
    <3>1. \A i \in T : t.adm[i] = BeginAdmission(s, i)
      BY <1>2, <2>1, <2>6 DEF Pump, GpuState
    <3>2. \A i \in T : BeginAdmission(s, i).at # "none"
      BY <2>6 DEF BeginAdmission
    <3> QED
      BY <3>1, <3>2
  <2> HIDE DEF t, T
  <2>8. Flight(t) = T
    BY <2>4, <2>5, <2>6, <2>7 DEF Flight
  <2>9. Ordered(t)
    BY <2>1, <2>4 DEF Ordered
  <2>10. Locked(t)
    BY <2>2, <2>4, <2>5, <2>8 DEF Locked
  <2>11. Exclusive(t)
    BY <2>4 DEF Good, Exclusive
  <2>12. Reserved(t)
    <3> SUFFICES ASSUME NEW i \in T, NEW r \in Runtimes, s.active[r] > 0
                 PROVE  r = Model[i] /\ s.active[r] < MaxConcurrency[r]
      BY <2>4, <2>5, <2>8 DEF Reserved
    <3>1. r \in Busy(s) /\ Admissible(s, i)
      BY <2>2 DEF Busy
    <3>2. PICK m \in Busy(s) : Model[i] = m /\ s.active[m] < MaxConcurrency[m]
      BY <3>1 DEF Admissible
    <3>3. m = r
      BY <3>1, <3>2 DEF Busy, Good, Exclusive
    <3> QED
      BY <3>2, <3>3
  <2>13. ASSUME NEW i \in Items
         PROVE  RowOK(t, i)
    <3>1. RowOK(s, i)
      BY DEF Good
    <3>2. CASE i \in T
      <4>1. s.answer[i] = "waiting" /\ s.lease[i] = "none"
        BY <2>2, <3>1, <3>2 DEF RowOK
      <4> QED
        BY <2>4, <3>2, <4>1 DEF RowOK, Queued
    <3>3. CASE i \notin T
      <4>1. i \notin Flight(t) /\ (i \in Queued(t) <=> i \in Queued(s))
        BY <2>4, <2>8, <3>3 DEF Queued
      <4> QED
        BY <2>4, <3>1, <4>1 DEF RowOK
    <3> QED
      BY <3>2, <3>3
  <2>14. Accounted(t, Holders(t))
    BY <2>4 DEF Good, Accounted, Counts, Holders
  <2> QED
    BY <2>3, <2>9, <2>10, <2>11, <2>12, <2>13, <2>14 DEF Good, t
<1> QED
  BY <1>1, <1>2

-----------------------------------------------------------------------------
(* The ends of an admission *)

(* .finally frees the lock and pumps. *)
LEMMA SettleGood ==
  ASSUME NEW i \in Items, NEW s, Ending(s, i), overdue = {}
  PROVE  Good(Settle(s, i))
<1> DEFINE t == [s EXCEPT !.adm[i] = NotAdmitting, !.admitting = FALSE]
<1>1. s \in GpuState
  BY DEF Ending
<1>2. NotAdmitting \in Admission /\ NotAdmitting.at = "none"
  BY RuntimesAssumption DEF NotAdmitting, Admission, AdmissionSteps
<1>3. t \in GpuState
  BY <1>1, <1>2 DEF GpuState
<1>4. /\ t.adm[i] = NotAdmitting
      /\ \A j \in Items : j # i => t.adm[j] = s.adm[j]
      /\ t.admitting = FALSE
      /\ t.work = s.work /\ t.born = s.born /\ t.rows = s.rows
      /\ t.pending = s.pending /\ t.answer = s.answer /\ t.lease = s.lease
      /\ t.active = s.active /\ t.ids = s.ids /\ t.oneShot = s.oneShot
      /\ t.refusing = s.refusing
  BY <1>1 DEF GpuState
<1>5. Settle(s, i) = Pump(t)
  BY DEF Settle
<1> HIDE DEF t
<1>6. Flight(t) = {}
  BY <1>2, <1>4 DEF Flight, Ending
<1>7. Queued(t) = Queued(s) /\ Holders(t) = Holders(s)
  BY <1>4 DEF Queued, Holders
<1>8. Ordered(t) /\ Locked(t) /\ Exclusive(t) /\ Reserved(t)
  BY <1>4, <1>6 DEF Ending, Ordered, Locked, Exclusive, Reserved
<1>9. ASSUME NEW j \in Items
      PROVE  RowOK(t, j)
  <2>1. CASE j = i
    BY <1>4, <1>6, <1>7, <2>1 DEF Ending, RowOK, Queued
  <2>2. CASE j # i
    <3>1. RowOK(s, j)
      BY <2>2 DEF Ending
    <3> QED
      BY <1>4, <1>6, <1>7, <3>1 DEF RowOK
  <2> QED
    BY <2>1, <2>2
<1>10. Accounted(t, Holders(t))
  BY <1>4, <1>7 DEF Ending, Accounted, Counts
<1>11. Good(t)
  BY <1>3, <1>8, <1>9, <1>10 DEF Good
<1> QED
  BY <1>5, <1>11, PumpGood

(* An admission that fails, however it does. *)
LEMMA AdmissionFailsGood ==
  ASSUME NEW s, Good(s), overdue = {}, NEW i \in Flight(s),
         NEW outcome \in Final, NEW code \in Refusals
  PROVE  Good(AdmissionFails(s, i, outcome, code))
<1> DEFINE t == Finish(s, i, outcome)
           u == Reject(t, i, code)
           v == Cleanup(u, i)
<1>1. s \in GpuState /\ i \in Items /\ RowOK(s, i)
  BY DEF Good, Flight
<1>2. t \in GpuState
  BY <1>1, FinishEvolves DEF Evolves
<1>3. u \in GpuState
  BY <1>1, <1>2, RejectEvolves DEF Evolves
<1>4. v \in GpuState
  BY <1>1, <1>3, CleanupEvolves DEF Evolves
<1>5. /\ \A j \in Items : j # i => t.work[j] = s.work[j]
      /\ t.work[i] # "queued"
  BY <1>1 DEF Finish, GpuState, RowOK, Final
<1>6. /\ \A j \in Items : j # i => u.answer[j] = s.answer[j]
      /\ u.answer[i] # "none"
  BY <1>1 DEF Finish, Reject, GpuState, RowOK, Refusals
<1>7. /\ v.work = t.work /\ v.answer = u.answer
      /\ v.pending = s.pending \ {i}
      /\ v.born = s.born /\ v.rows = s.rows /\ v.lease = s.lease
      /\ v.active = s.active /\ v.ids = s.ids /\ v.oneShot = s.oneShot
      /\ v.refusing = s.refusing /\ v.adm = s.adm
  BY <1>1 DEF Finish, Reject, Cleanup, GpuState
<1>8. AdmissionFails(s, i, outcome, code) = Settle(v, i)
  BY DEF AdmissionFails
<1> HIDE DEF t, u, v
<1>9. Flight(v) = Flight(s) /\ Holders(v) = Holders(s)
  BY <1>7 DEF Flight, Holders
<1>10. ASSUME NEW j \in Items \ {i}
       PROVE  RowOK(v, j)
  <2>1. RowOK(s, j)
    BY DEF Good
  <2>2. j \in Queued(v) <=> j \in Queued(s)
    BY <1>5, <1>7 DEF Queued
  <2> QED
    BY <1>5, <1>6, <1>7, <1>9, <2>1, <2>2 DEF RowOK
<1>11. Ordered(v) /\ Exclusive(v) /\ v.refusing = {} /\ Flight(v) \subseteq {i}
  BY <1>7, <1>9 DEF Good, Ordered, Exclusive, Locked
<1>12. Accounted(v, Holders(v))
  BY <1>7, <1>9 DEF Good, Accounted, Counts
<1>13. Ending(v, i)
  BY <1>4, <1>5, <1>6, <1>7, <1>10, <1>11, <1>12 DEF Ending
<1> QED
  BY <1>1, <1>8, <1>13, SettleGood

(* A state in which i has its slot and is about to be told so. *)
Granting(s, i) ==
  /\ s \in GpuState
  /\ Ordered(s) /\ Exclusive(s)
  /\ s.refusing = {}
  /\ Flight(s) \subseteq {i}
  /\ \A j \in Items \ {i} : RowOK(s, j)
  /\ s.answer[i] = "waiting" /\ s.work[i] # "queued"
  /\ Accounted(s, Holders(s) \cup {i})

(* The caller gets the lease that was counted for it. *)
LEMMA GrantGood ==
  ASSUME NEW i \in Items, NEW s, Granting(s, i), overdue = {}
  PROVE  Good(Grant(s, i))
<1> DEFINE t == [s EXCEPT !.answer[i] = IF @ = "waiting" THEN "lease" ELSE @,
                          !.lease[i] = IF s.answer[i] = "waiting"
                                         THEN "held" ELSE "lost"]
<1>1. s \in GpuState
  BY DEF Granting
<1>2. t \in GpuState
  BY <1>1 DEF GpuState
<1>3. /\ t.answer[i] = "lease" /\ t.lease[i] = "held"
      /\ \A j \in Items : j # i => /\ t.answer[j] = s.answer[j]
                                   /\ t.lease[j] = s.lease[j]
      /\ t.work = s.work /\ t.born = s.born /\ t.rows = s.rows
      /\ t.pending = s.pending /\ t.adm = s.adm
      /\ t.active = s.active /\ t.ids = s.ids /\ t.oneShot = s.oneShot
      /\ t.refusing = s.refusing
  BY <1>1 DEF GpuState, Granting
<1>4. Grant(s, i) = Settle(t, i)
  BY DEF Grant
<1> HIDE DEF t
<1>5. Flight(t) = Flight(s) /\ Queued(t) = Queued(s)
      /\ Holders(t) = Holders(s) \cup {i}
  BY <1>3 DEF Flight, Queued, Holders
<1>6. \A j \in Items \ {i} : RowOK(t, j)
  BY <1>3, <1>5 DEF Granting, RowOK
<1>7. Ordered(t) /\ Exclusive(t) /\ t.refusing = {} /\ Flight(t) \subseteq {i}
  BY <1>3, <1>5 DEF Granting, Ordered, Exclusive
<1>8. Accounted(t, Holders(t))
  BY <1>3, <1>5 DEF Granting, Accounted, Counts
<1>9. Ending(t, i)
  BY <1>2, <1>3, <1>6, <1>7, <1>8 DEF Ending, Granting
<1> QED
  BY <1>4, <1>9, SettleGood

(* One lease more on a runtime that was reserved stays within its cap, and  *)
(* is counted.                                                              *)
LEMMA RuntimeReadyGood ==
  ASSUME NEW s, Good(s), overdue = {}, NEW i \in Flight(s), Model[i] # OneShot
  PROVE  Good(RuntimeReady(s, i))
<1> DEFINE r == Model[i]
           n == s.active[r] + 1
           I == s.ids[r] \cup {i}
           t == [s EXCEPT !.active[r] = n, !.ids[r] = I]
           u == ScheduleIdleUnload(s, r)
<1>1. s \in GpuState /\ i \in Items /\ RowOK(s, i) /\ r \in Runtimes
  BY RequestsAssumption DEF Good, Flight
<1>2. RuntimeReady(s, i) =
        IF i \in s.aborted THEN AdmissionFails(u, i, "cancelled", "e499")
                           ELSE Grant(t, i)
  BY <1>1 DEF RuntimeReady, GpuState
<1>3. Good(AdmissionFails(u, i, "cancelled", "e499"))
  <2>1. u \in GpuState
    BY <1>1, ScheduleEvolves DEF Evolves
  <2>2. Good(u)
    BY <1>1, <2>1, GoodElsewhere DEF ScheduleIdleUnload, GpuState
  <2>3. i \in Flight(u)
    BY <1>1 DEF ScheduleIdleUnload, GpuState, Flight
  <2> HIDE DEF u
  <2> QED
    BY <2>2, <2>3, AdmissionFailsGood DEF Final, Refusals
<1>4. Good(Grant(t, i))
  <2>1. s.active[r] \in Nat /\ s.ids[r] \in SUBSET Items
    BY <1>1 DEF GpuState
  <2>2. n \in Nat /\ I \in SUBSET Items
    BY <1>1, <2>1
  <2>3. t.active = [s.active EXCEPT ![r] = n] /\ t.ids = [s.ids EXCEPT ![r] = I]
        /\ t.work = s.work /\ t.born = s.born /\ t.rows = s.rows
        /\ t.pending = s.pending /\ t.answer = s.answer /\ t.lease = s.lease
        /\ t.adm = s.adm /\ t.oneShot = s.oneShot /\ t.refusing = s.refusing
    BY <1>1 DEF GpuState
  <2>4. /\ t.active[r] = n /\ t.ids[r] = I
        /\ \A q \in Runtimes : q # r => /\ t.active[q] = s.active[q]
                                        /\ t.ids[q] = s.ids[q]
    BY <1>1, <2>3 DEF GpuState
  <2>5. t \in GpuState
    <3> HIDE DEF n, I, r
    <3> QED
      BY <1>1, <2>2, SetSlotsEvolves DEF Evolves
  <2> HIDE DEF t
  <2>6. Flight(t) = Flight(s) /\ Queued(t) = Queued(s) /\ Holders(t) = Holders(s)
    BY <2>3 DEF Flight, Queued, Holders
  <2>7. Exclusive(t)
    <3>1. s.oneShot = NoItem
      BY DEF Good, Reserved
    <3>2. \A q \in Runtimes : s.active[q] > 0 => q = r /\ s.active[q] < MaxConcurrency[q]
      BY DEF Good, Reserved
    <3>3. \A q \in Runtimes : s.active[q] \in Nat /\ MaxConcurrency[q] \in Nat \ {0}
      BY <1>1, RuntimesAssumption DEF GpuState
    <3>4. n <= MaxConcurrency[r]
      BY <1>1, <3>2, <3>3
    <3>5. \A q \in Runtimes : q # r => t.active[q] = 0
      BY <2>4, <3>2, <3>3
    <3> QED
      BY <2>3, <2>4, <3>1, <3>3, <3>4, <3>5 DEF Exclusive
  <2>8. Accounted(t, Holders(t) \cup {i})
    <3> SUFFICES ASSUME "force" \notin Events
                 PROVE  Counts(t, Holders(t) \cup {i})
      BY DEF Accounted
    <3>1. Counts(s, Holders(s))
      BY DEF Good, Accounted
    <3>2. i \notin Holders(s)
      BY <1>1 DEF RowOK, Holders
    <3>3. Cardinality(I) = Cardinality(s.ids[r]) + 1
      <4>1. i \notin s.ids[r]
        BY <1>1, <3>1, <3>2 DEF Counts
      <4>2. IsFiniteSet(s.ids[r])
        BY <2>1, ItemsAssumption, FS_Subset
      <4> QED
        BY <4>1, <4>2, FS_AddElement
    <3>4. I = {j \in Holders(s) \cup {i} : Model[j] = r}
      BY <1>1, <3>1 DEF Counts
    <3>5. \A q \in Runtimes : q # r =>
            {j \in Holders(s) \cup {i} : Model[j] = q} = {j \in Holders(s) : Model[j] = q}
      OBVIOUS
    <3>6. \A j \in Items : j \in Holders(s) \cup {i} /\ Model[j] = OneShot
            <=> s.oneShot = j
      <4>1. s.oneShot # i
        BY <1>1, ItemsAssumption DEF Good, Reserved
      <4> QED
        BY <3>1, <4>1 DEF Counts
    <3>7. n = Cardinality(I)
      BY <1>1, <3>1, <3>3 DEF Counts
    <3> HIDE DEF I, n, r
    <3>8. ASSUME NEW q \in Runtimes
          PROVE  /\ t.ids[q] = {j \in Holders(s) \cup {i} : Model[j] = q}
                 /\ t.active[q] = Cardinality(t.ids[q])
      <4>1. CASE q = r
        BY <2>4, <3>4, <3>7, <4>1
      <4>2. CASE q # r
        <5>1. t.ids[q] = s.ids[q] /\ t.active[q] = s.active[q]
          BY <2>4, <4>2
        <5>2. s.ids[q] = {j \in Holders(s) : Model[j] = q}
              /\ s.active[q] = Cardinality(s.ids[q])
          BY <3>1 DEF Counts
        <5> QED
          BY <3>5, <4>2, <5>1, <5>2
      <4> QED
        BY <4>1, <4>2
    <3> QED
      BY <2>3, <2>6, <3>6, <3>8 DEF Counts
  <2>9. \A j \in Items \ {i} : RowOK(t, j)
    BY <2>3, <2>6 DEF Good, RowOK
  <2>10. Ordered(t) /\ t.refusing = {} /\ Flight(t) \subseteq {i}
    BY <2>3, <2>6 DEF Good, Ordered, Locked
  <2>11. t.answer[i] = "waiting" /\ t.work[i] # "queued"
    BY <1>1, <2>3 DEF RowOK
  <2>12. Granting(t, i)
    BY <2>5, <2>7, <2>8, <2>9, <2>10, <2>11 DEF Granting
  <2> QED
    BY <1>1, <2>12, GrantGood
<1> QED
  BY <1>2, <1>3, <1>4

(* A one-shot starts when nothing is in use. *)
LEMMA OneShotReadyGood ==
  ASSUME NEW s, Good(s), overdue = {}, NEW i \in Flight(s), Model[i] = OneShot
  PROVE  Good(OneShotReady(s, i))
<1> DEFINE t == [s EXCEPT !.oneShot = i]
<1>1. s \in GpuState /\ i \in Items /\ RowOK(s, i)
  BY DEF Good, Flight
<1>2. Good(AdmissionFails(s, i, "cancelled", "e499"))
  BY AdmissionFailsGood DEF Final, Refusals
<1>3. OneShotReady(s, i) =
        IF i \in s.aborted THEN AdmissionFails(s, i, "cancelled", "e499")
                           ELSE Grant(t, i)
  BY DEF OneShotReady
<1>4. t \in GpuState
  BY <1>1 DEF GpuState
<1>5. /\ t.oneShot = i
      /\ t.work = s.work /\ t.born = s.born /\ t.rows = s.rows
      /\ t.pending = s.pending /\ t.answer = s.answer /\ t.lease = s.lease
      /\ t.adm = s.adm /\ t.active = s.active /\ t.ids = s.ids
      /\ t.refusing = s.refusing
  BY <1>1 DEF GpuState
<1> HIDE DEF t
<1>6. Flight(t) = Flight(s) /\ Queued(t) = Queued(s) /\ Holders(t) = Holders(s)
  BY <1>5 DEF Flight, Queued, Holders
<1>7. Exclusive(t)
  <2>1. ASSUME NEW r \in Runtimes
        PROVE  s.active[r] = 0
    <3>1. r # OneShot
      BY RuntimesAssumption DEF Runtimes, OneShot
    <3>2. ~(s.active[r] > 0)
      BY <3>1 DEF Good, Reserved
    <3>3. s.active[r] \in Nat
      BY <1>1 DEF GpuState
    <3> QED
      BY <3>2, <3>3
  <2> QED
    BY <1>5, <2>1 DEF Good, Exclusive
<1>8. Accounted(t, Holders(t) \cup {i})
  <2> SUFFICES ASSUME "force" \notin Events
               PROVE  Counts(t, Holders(t) \cup {i})
    BY DEF Accounted
  <2>1. Counts(s, Holders(s)) /\ s.oneShot = NoItem
    BY DEF Good, Accounted, Reserved
  <2>2. \A r \in Runtimes :
          {j \in Holders(s) \cup {i} : Model[j] = r} = {j \in Holders(s) : Model[j] = r}
    BY DEF Runtimes, OneShot
  <2>3. \A j \in Items : ~(j \in Holders(s) /\ Model[j] = OneShot)
    BY <2>1, ItemsAssumption DEF Counts
  <2>4. \A j \in Items : j \in Holders(s) \cup {i} /\ Model[j] = OneShot <=> i = j
    BY <2>3
  <2> QED
    BY <1>5, <1>6, <2>1, <2>2, <2>4 DEF Counts
<1>9. \A j \in Items \ {i} : RowOK(t, j)
  BY <1>5, <1>6 DEF Good, RowOK
<1>10. Ordered(t) /\ t.refusing = {} /\ Flight(t) \subseteq {i}
  BY <1>5, <1>6 DEF Good, Ordered, Locked
<1>11. t.answer[i] = "waiting" /\ t.work[i] # "queued"
  BY <1>1, <1>5 DEF RowOK
<1>12. Granting(t, i)
  BY <1>4, <1>7, <1>8, <1>9, <1>10, <1>11 DEF Granting
<1>13. Good(Grant(t, i))
  BY <1>1, <1>12, GrantGood
<1> QED
  BY <1>2, <1>3, <1>13

-----------------------------------------------------------------------------
(* The awaits of an admission *)

(* Writing a runtime's state keeps the invariant and the admission. *)
LEMMA SetStateGood ==
  ASSUME NEW s, Good(s), NEW r, NEW value \in RuntimeStates
  PROVE  /\ Good([s EXCEPT !.state[r] = value])
         /\ Flight([s EXCEPT !.state[r] = value]) = Flight(s)
<1> DEFINE t == [s EXCEPT !.state[r] = value]
<1>1. s \in GpuState
  BY DEF Good
<1>2. t \in GpuState
  BY <1>1 DEF GpuState
<1>3. /\ t.work = s.work /\ t.born = s.born /\ t.rows = s.rows
      /\ t.pending = s.pending /\ t.answer = s.answer /\ t.lease = s.lease
      /\ t.active = s.active /\ t.ids = s.ids /\ t.oneShot = s.oneShot
      /\ t.admitting = s.admitting /\ t.refusing = s.refusing /\ t.adm = s.adm
  BY <1>1 DEF GpuState
<1> HIDE DEF t
<1>4. Good(t) /\ Flight(t) = Flight(s)
  BY <1>2, <1>3, GoodElsewhere DEF Flight
<1> QED
  BY <1>4 DEF t

(* So does beginning to stop a runtime. *)
LEMMA BeginStopGood ==
  ASSUME NEW s, Good(s), NEW r \in 0..N
  PROVE  Good(BeginStop(s, r)) /\ Flight(BeginStop(s, r)) = Flight(s)
<1> DEFINE t == BeginStop(s, r)
<1>1. s \in GpuState
  BY DEF Good
<1>2. t \in GpuState
  BY <1>1, BeginStopEvolves DEF Evolves
<1>3. /\ t.work = s.work /\ t.born = s.born /\ t.rows = s.rows
      /\ t.pending = s.pending /\ t.answer = s.answer /\ t.lease = s.lease
      /\ t.active = s.active /\ t.ids = s.ids /\ t.oneShot = s.oneShot
      /\ t.admitting = s.admitting /\ t.refusing = s.refusing /\ t.adm = s.adm
  BY <1>1 DEF BeginStop, GpuState
<1> HIDE DEF t
<1>4. Good(t) /\ Flight(t) = Flight(s)
  BY <1>2, <1>3, GoodElsewhere DEF Flight
<1> QED
  BY <1>4 DEF t

(* An admission that goes on to its next await keeps the invariant.         *)
LEMMA SetAdmissionGood ==
  ASSUME NEW s, Good(s), NEW i \in Flight(s),
         NEW a \in Admission, a.at # "none"
  PROVE  Good([s EXCEPT !.adm[i] = a])
<1> DEFINE t == [s EXCEPT !.adm[i] = a]
<1>1. s \in GpuState /\ i \in Items
  BY DEF Good, Flight
<1>2. t \in GpuState
  BY <1>1 DEF GpuState
<1>3. /\ t.adm[i] = a
      /\ \A j \in Items : j # i => t.adm[j] = s.adm[j]
      /\ t.work = s.work /\ t.born = s.born /\ t.rows = s.rows
      /\ t.pending = s.pending /\ t.answer = s.answer /\ t.lease = s.lease
      /\ t.active = s.active /\ t.ids = s.ids /\ t.oneShot = s.oneShot
      /\ t.admitting = s.admitting /\ t.refusing = s.refusing
  BY <1>1 DEF GpuState
<1> HIDE DEF t
<1>4. Flight(t) = Flight(s)
  BY <1>3 DEF Flight
<1>5. Queued(t) = Queued(s) /\ Holders(t) = Holders(s)
  BY <1>3 DEF Queued, Holders
<1>6. Ordered(t) /\ Locked(t) /\ Exclusive(t) /\ Reserved(t)
  BY <1>3, <1>4 DEF Good, Ordered, Locked, Exclusive, Reserved
<1>7. \A j \in Items : RowOK(t, j)
  BY <1>3, <1>4, <1>5 DEF Good, RowOK
<1>8. Accounted(t, Holders(t))
  BY <1>3, <1>5 DEF Good, Accounted, Counts
<1>9. Good(t)
  BY <1>2, <1>6, <1>7, <1>8 DEF Good
<1> QED
  BY <1>9 DEF t

(* A load that fails ends the admission and leaves the runtime failed.      *)
LEMMA LoadFailsGood ==
  ASSUME NEW s, Good(s), overdue = {}, NEW i \in Flight(s), NEW code \in Refusals
  PROVE  Good(LoadFails(s, i, code))
<1> DEFINE t == [s EXCEPT !.state[Model[i]] = "failed"]
<1>1. "failed" \in RuntimeStates /\ "failed" \in Final
  BY DEF RuntimeStates, Final
<1>2. Good(t) /\ i \in Flight(t)
  BY <1>1, SetStateGood
<1>3. LoadFails(s, i, code) = AdmissionFails(t, i, "failed", code)
  BY DEF LoadFails
<1> HIDE DEF t
<1> QED
  BY <1>1, <1>2, <1>3, AdmissionFailsGood

(* What follows the unloading of the other runtimes. *)
LEMMA SweepDoneGood ==
  ASSUME NEW s, Good(s), overdue = {}, NEW i \in Flight(s), NEW adopt \in BOOLEAN
  PROVE  Good(SweepDone(s, i, adopt))
<1> DEFINE start == [at |-> "startCmd", pos |-> 0, adopt |-> FALSE]
           t == [s EXCEPT !.state[Model[i]] = "loaded"]
           u == [s EXCEPT !.state[Model[i]] = "loading"]
           v == [u EXCEPT !.adm[i] = start]
<1>1. CASE Model[i] = OneShot
  BY <1>1, OneShotReadyGood DEF SweepDone
<1>2. CASE Model[i] # OneShot
  <2>1. SweepDone(s, i, adopt) =
          IF adopt THEN RuntimeReady(t, i)
          ELSE IF i \in s.aborted THEN AdmissionFails(s, i, "failed", "e499")
          ELSE v
    BY <1>2 DEF SweepDone, Good, GpuState
  <2>2. "loaded" \in RuntimeStates /\ "loading" \in RuntimeStates
    BY DEF RuntimeStates
  <2>3. Good(t) /\ i \in Flight(t)
    BY <2>2, SetStateGood
  <2>4. Good(u) /\ i \in Flight(u)
    BY <2>2, SetStateGood
  <2>5. start \in Admission /\ start.at # "none"
    BY RuntimesAssumption DEF Admission, AdmissionSteps
  <2> HIDE DEF t, u, start
  <2>6. Good(v)
    BY <2>4, <2>5, SetAdmissionGood
  <2>7. Good(RuntimeReady(t, i))
    BY <1>2, <2>3, RuntimeReadyGood
  <2>8. Good(AdmissionFails(s, i, "failed", "e499"))
    BY AdmissionFailsGood DEF Final, Refusals
  <2> QED
    BY <2>1, <2>6, <2>7, <2>8
<1> QED
  BY <1>1, <1>2

(* One turn of the loop of unloadLoadedRuntime. *)
LEMMA SweepOnGood ==
  ASSUME NEW s, Good(s), overdue = {}, NEW i \in Flight(s),
         NEW pos \in 0..N, NEW adopt \in BOOLEAN
  PROVE  Good(SweepOn(s, i, pos, adopt))
<1> DEFINE rest == {r \in Runtimes : r > pos /\ r # Model[i]}
           next == CHOOSE r \in rest : \A q \in rest : r <= q
           stop == [at |-> "stopCmd", pos |-> next, adopt |-> adopt]
           look == [at |-> "sweepProbe", pos |-> next, adopt |-> adopt]
           t == BeginStop(s, next)
<1>1. CASE rest = {}
  BY <1>1, SweepDoneGood DEF SweepOn
<1>2. CASE rest # {}
  <2>1. next \in rest
    <3>1. \E r \in rest : \A q \in rest : r <= q
      BY <1>2, FirstRuntime
    <3> HIDE DEF rest
    <3> QED
      BY <3>1
  <2>2. \/ SweepOn(s, i, pos, adopt) = AdmissionFails(s, i, "failed", "e503")
        \/ SweepOn(s, i, pos, adopt) = [t EXCEPT !.adm[i] = stop]
        \/ SweepOn(s, i, pos, adopt) = [s EXCEPT !.adm[i] = look]
    <3> HIDE DEF next
    <3> QED
      BY <1>2 DEF SweepOn, next
  <2>3. next \in 0..N
    BY <2>1, RuntimesAssumption DEF Runtimes
  <2> HIDE DEF next
  <2>4. stop \in Admission /\ look \in Admission
    BY <2>3 DEF Admission, AdmissionSteps
  <2>5. stop.at # "none" /\ look.at # "none"
    OBVIOUS
  <2>6. Good(t) /\ i \in Flight(t)
    BY <2>3, BeginStopGood
  <2> HIDE DEF t, stop, look
  <2>7. Good([t EXCEPT !.adm[i] = stop])
    BY <2>4, <2>5, <2>6, SetAdmissionGood
  <2>8. Good([s EXCEPT !.adm[i] = look])
    BY <2>4, <2>5, SetAdmissionGood
  <2>9. Good(AdmissionFails(s, i, "failed", "e503"))
    BY AdmissionFailsGood DEF Final, Refusals
  <2> QED
    BY <2>2, <2>7, <2>8, <2>9
<1> QED
  BY <1>1, <1>2

-----------------------------------------------------------------------------
(* Releases and cancellations *)

(* A lease given back frees its slot, and only its slot. *)
LEMMA FreeSlotGood ==
  ASSUME NEW s, Good(s), NEW i \in Holders(s)
  PROVE  Good(FreeSlot([s EXCEPT !.lease[i] = "released"], i))
<1> DEFINE l == [s EXCEPT !.lease[i] = "released"]
           t == FreeSlot(l, i)
           r == Model[i]
           n == IF s.active[r] > 0 THEN s.active[r] - 1 ELSE 0
           I == s.ids[r] \ {i}
<1>1. s \in GpuState /\ i \in Items /\ s.lease[i] = "held" /\ RowOK(s, i)
  BY DEF Good, Holders
<1>2. l \in GpuState
  BY <1>1 DEF GpuState
<1>3. t \in GpuState
  BY <1>1, <1>2, FreeSlotEvolves DEF Evolves
<1>4. /\ t.lease[i] = "released"
      /\ \A j \in Items : j # i => t.lease[j] = s.lease[j]
      /\ t.work = s.work /\ t.born = s.born /\ t.rows = s.rows
      /\ t.pending = s.pending /\ t.answer = s.answer /\ t.adm = s.adm
      /\ t.admitting = s.admitting /\ t.refusing = s.refusing
  BY <1>1 DEF FreeSlot, GpuState
<1>5. /\ Flight(t) = Flight(s) /\ Queued(t) = Queued(s)
      /\ Holders(t) = Holders(s) \ {i}
  <2> HIDE DEF t
  <2> QED
    BY <1>4 DEF Flight, Queued, Holders
<1>6. \A j \in Items : RowOK(t, j)
  <2>1. i \notin Flight(s) /\ i \notin Queued(s) /\ s.answer[i] # "none"
    BY <1>1 DEF RowOK
  <2> HIDE DEF t
  <2> QED
    BY <1>4, <1>5, <2>1 DEF Good, RowOK
<1>7. CASE r = OneShot
  <2>1. /\ t.active = s.active /\ t.ids = s.ids
        /\ t.oneShot = IF s.oneShot = i THEN NoItem ELSE s.oneShot
    BY <1>1, <1>7 DEF FreeSlot, GpuState
  <2> HIDE DEF t
  <2>2. Ordered(t) /\ Locked(t) /\ Exclusive(t) /\ Reserved(t)
    BY <1>4, <1>5, <2>1 DEF Good, Ordered, Locked, Exclusive, Reserved
  <2>3. Accounted(t, Holders(t))
    <3> SUFFICES ASSUME "force" \notin Events
                 PROVE  Counts(t, Holders(s) \ {i})
      BY <1>5 DEF Accounted
    <3>1. Counts(s, Holders(s))
      BY DEF Good, Accounted
    <3>2. s.oneShot = i
      BY <1>1, <1>7, <3>1 DEF Counts, Holders
    <3>3. \A q \in Runtimes :
            {j \in Holders(s) \ {i} : Model[j] = q} = {j \in Holders(s) : Model[j] = q}
      BY <1>7, RuntimesAssumption DEF Runtimes, OneShot
    <3>4. \A j \in Items : j \in Holders(s) /\ Model[j] = OneShot => j = i
      BY <3>1, <3>2 DEF Counts
    <3>5. t.oneShot = NoItem
      BY <2>1, <3>2
    <3> DEFINE H == Holders(s) \ {i}
    <3>6. \A q \in Runtimes : /\ t.ids[q] = {j \in H : Model[j] = q}
                              /\ t.active[q] = Cardinality(t.ids[q])
      BY <2>1, <3>1, <3>3 DEF Counts
    <3>7. \A j \in Items : j \in H /\ Model[j] = OneShot <=> t.oneShot = j
      BY <3>4, <3>5, ItemsAssumption
    <3> HIDE DEF H, r
    <3>8. Counts(t, H)
      BY <3>6, <3>7 DEF Counts
    <3> QED
      BY <3>8 DEF H
  <2>20. Good(t)
    BY <1>3, <1>6, <2>2, <2>3 DEF Good
  <2> QED
    BY <2>20 DEF t
<1>8. CASE r # OneShot
  <2>1. r \in Runtimes
    BY <1>1, <1>8, RequestsAssumption
  <2>2. s.active[r] \in Nat /\ s.ids[r] \in SUBSET Items
    BY <1>1, <2>1 DEF GpuState
  <2>3. /\ t.active = [s.active EXCEPT ![r] = n]
        /\ t.ids = [s.ids EXCEPT ![r] = I]
        /\ t.oneShot = s.oneShot
    BY <1>1, <1>8 DEF FreeSlot, GpuState
  <2>4. /\ t.active[r] = n /\ t.ids[r] = I
        /\ \A q \in Runtimes : q # r => /\ t.active[q] = s.active[q]
                                        /\ t.ids[q] = s.ids[q]
    BY <1>1, <2>1, <2>3 DEF GpuState
  <2> HIDE DEF t
  <2>5. n \in Nat /\ n <= s.active[r]
    BY <2>2
  <2>6. \A q \in Runtimes :
          /\ s.active[q] \in Nat /\ t.active[q] \in Nat
          /\ MaxConcurrency[q] \in Nat
          /\ t.active[q] <= s.active[q]
    BY <1>1, <2>4, <2>5, RuntimesAssumption DEF GpuState
  <2>7. Exclusive(t)
    <3>1. \A q \in Runtimes : t.active[q] <= MaxConcurrency[q]
      BY <2>6 DEF Good, Exclusive
    <3>2. \A q \in Runtimes : t.active[q] > 0 => s.active[q] > 0
      BY <2>6
    <3>3. \A q \in Runtimes : s.active[q] = 0 => t.active[q] = 0
      BY <2>6
    <3> QED
      BY <2>3, <3>1, <3>2, <3>3 DEF Good, Exclusive
  <2>8. Reserved(t)
    <3>1. \A q \in Runtimes :
            /\ t.active[q] > 0 => s.active[q] > 0
            /\ s.active[q] < MaxConcurrency[q] => t.active[q] < MaxConcurrency[q]
      BY <2>6
    <3> QED
      BY <1>5, <2>3, <3>1 DEF Good, Reserved
  <2>9. Ordered(t) /\ Locked(t)
    BY <1>4, <1>5 DEF Good, Ordered, Locked
  <2>10. Accounted(t, Holders(t))
    <3> SUFFICES ASSUME "force" \notin Events
                 PROVE  Counts(t, Holders(s) \ {i})
      BY <1>5 DEF Accounted
    <3>1. Counts(s, Holders(s))
      BY DEF Good, Accounted
    <3>2. i \in s.ids[r] /\ s.active[r] = Cardinality(s.ids[r])
          /\ s.ids[r] = {j \in Holders(s) : Model[j] = r}
      BY <1>1, <2>1, <3>1 DEF Counts, Holders
    <3>3. IsFiniteSet(s.ids[r])
      BY <2>2, ItemsAssumption, FS_Subset
    <3>4. Cardinality(I) = Cardinality(s.ids[r]) - 1
      BY <3>2, <3>3, FS_RemoveElement
    <3>5. Cardinality(s.ids[r]) # 0
      BY <3>2, <3>3, FS_EmptySet
    <3>6. n = Cardinality(I)
      <4> HIDE DEF I
      <4> QED
        BY <2>2, <3>2, <3>4, <3>5
    <3>7. I = {j \in Holders(s) \ {i} : Model[j] = r}
      BY <3>2
    <3> DEFINE H == Holders(s) \ {i}
    <3> HIDE DEF n, I
    <3>8. ASSUME NEW q \in Runtimes
          PROVE  /\ t.ids[q] = {j \in H : Model[j] = q}
                 /\ t.active[q] = Cardinality(t.ids[q])
      <4>1. CASE q = r
        BY <2>4, <3>6, <3>7, <4>1
      <4>2. CASE q # r
        <5>1. {j \in Holders(s) \ {i} : Model[j] = q} = {j \in Holders(s) : Model[j] = q}
          BY <4>2
        <5>2. s.ids[q] = {j \in Holders(s) : Model[j] = q}
              /\ s.active[q] = Cardinality(s.ids[q])
          BY <3>1 DEF Counts
        <5> QED
          BY <2>4, <4>2, <5>1, <5>2
      <4> QED
        BY <4>1, <4>2
    <3>9. \A j \in Items : j \in H /\ Model[j] = OneShot <=> t.oneShot = j
      BY <1>8, <2>3, <3>1 DEF Counts
    <3> HIDE DEF H
    <3>10. Counts(t, H)
      BY <3>8, <3>9 DEF Counts
    <3> QED
      BY <3>10 DEF H
  <2>20. Good(t)
    BY <1>3, <1>6, <2>7, <2>8, <2>9, <2>10 DEF Good
  <2> QED
    BY <2>20 DEF t
<1> QED
  BY <1>7, <1>8

(* Rows that end, leave the queue or are answered keep the invariant.       *)
LEMMA EndedRowsGood ==
  ASSUME NEW s, Good(s), NEW t \in GpuState,
         t.born = s.born, t.rows = s.rows, t.lease = s.lease,
         t.active = s.active, t.ids = s.ids, t.oneShot = s.oneShot,
         t.admitting = s.admitting, t.refusing = s.refusing, t.adm = s.adm,
         t.pending \subseteq s.pending,
         \A j \in Items : t.work[j] = "queued" => s.work[j] = "queued",
         \A j \in Items :
           \/ t.answer[j] = s.answer[j]
           \/ /\ j \notin Flight(s) /\ t.work[j] # "queued"
              /\ t.answer[j] # "none"
  PROVE  Good(t)
<1>1. Flight(t) = Flight(s) /\ Holders(t) = Holders(s)
  BY DEF Flight, Holders
<1>2. Queued(t) \subseteq Queued(s) /\ Queued(t) \subseteq {j \in Items : t.work[j] = "queued"}
  BY DEF Queued, GpuState
<1>3. Ordered(t)
  BY DEF Good, Ordered
<1>4. Locked(t) /\ Exclusive(t) /\ Reserved(t)
  BY <1>1 DEF Good, Locked, Exclusive, Reserved
<1>5. ASSUME NEW j \in Items
      PROVE  RowOK(t, j)
  <2>1. RowOK(s, j)
    BY DEF Good
  <2> QED
    BY <1>1, <1>2, <2>1 DEF RowOK
<1>6. Accounted(t, Holders(t))
  BY <1>1 DEF Good, Accounted, Counts
<1> QED
  BY <1>3, <1>4, <1>5, <1>6 DEF Good

(* finishWorkItem keeps the invariant. *)
LEMMA FinishGood ==
  ASSUME NEW s, Good(s), NEW i \in Items, NEW outcome \in Final
  PROVE  Good(Finish(s, i, outcome))
<1> DEFINE t == Finish(s, i, outcome)
<1>1. s \in GpuState
  BY DEF Good
<1>2. t \in GpuState
  BY <1>1, FinishEvolves DEF Evolves
<1>3. /\ t.born = s.born /\ t.rows = s.rows /\ t.lease = s.lease
      /\ t.active = s.active /\ t.ids = s.ids /\ t.oneShot = s.oneShot
      /\ t.admitting = s.admitting /\ t.refusing = s.refusing /\ t.adm = s.adm
      /\ t.pending = s.pending /\ t.answer = s.answer
      /\ \A j \in Items : t.work[j] = "queued" => s.work[j] = "queued"
  BY <1>1 DEF Finish, GpuState, Final
<1> HIDE DEF t
<1>4. Good(t)
  BY <1>2, <1>3, EndedRowsGood
<1> QED
  BY <1>4 DEF t

(* So does cleanupPending. *)
LEMMA CleanupGood ==
  ASSUME NEW s, Good(s), NEW i \in Items
  PROVE  Good(Cleanup(s, i))
<1> DEFINE t == Cleanup(s, i)
<1>1. s \in GpuState
  BY DEF Good
<1>2. t \in GpuState
  BY <1>1, CleanupEvolves DEF Evolves
<1>3. /\ t.born = s.born /\ t.rows = s.rows /\ t.lease = s.lease
      /\ t.active = s.active /\ t.ids = s.ids /\ t.oneShot = s.oneShot
      /\ t.admitting = s.admitting /\ t.refusing = s.refusing /\ t.adm = s.adm
      /\ t.pending \subseteq s.pending /\ t.answer = s.answer /\ t.work = s.work
  BY <1>1 DEF Cleanup, GpuState
<1> HIDE DEF t
<1>4. Good(t)
  BY <1>2, <1>3, EndedRowsGood
<1> QED
  BY <1>4 DEF t

(* An item that is neither queued nor in flight may be rejected. *)
LEMMA RejectGood ==
  ASSUME NEW s, Good(s), NEW i \in Items, NEW code \in Refusals,
         i \notin Flight(s), s.work[i] # "queued"
  PROVE  Good(Reject(s, i, code))
<1> DEFINE t == Reject(s, i, code)
<1>1. s \in GpuState /\ code # "none"
  BY DEF Good, Refusals
<1>2. t \in GpuState
  BY <1>1, RejectEvolves DEF Evolves
<1>3. /\ t.born = s.born /\ t.rows = s.rows /\ t.lease = s.lease
      /\ t.active = s.active /\ t.ids = s.ids /\ t.oneShot = s.oneShot
      /\ t.admitting = s.admitting /\ t.refusing = s.refusing /\ t.adm = s.adm
      /\ t.pending = s.pending /\ t.work = s.work
      /\ \A j \in Items : t.answer[j] = s.answer[j] \/ (j = i /\ t.answer[j] = code)
  BY <1>1 DEF Reject, GpuState
<1> HIDE DEF t
<1>4. Good(t)
  BY <1>1, <1>2, <1>3, EndedRowsGood
<1> QED
  BY <1>4 DEF t

(* The release of a lease frees what it held and finishes its row. *)
LEMMA ReleasedGood ==
  ASSUME NEW s, Good(s), NEW i \in Holders(s), NEW outcome \in Final
  PROVE  Good(Released(s, i, outcome))
<1> DEFINE l == [s EXCEPT !.lease[i] = "released"]
           u == FreeSlot(l, i)
           v == Finish(u, i, outcome)
           w == Cleanup(v, i)
           x == ScheduleIdleUnload(w, Model[i])
<1>1. i \in Items
  BY DEF Holders
<1>2. Good(u)
  BY FreeSlotGood
<1>3. Released(s, i, outcome) = IF Model[i] = OneShot THEN w ELSE x
  BY DEF Released
<1> HIDE DEF u
<1>4. Good(v)
  BY <1>1, <1>2, FinishGood
<1> HIDE DEF v
<1>5. Good(w)
  BY <1>1, <1>4, CleanupGood
<1> HIDE DEF w
<1>6. CASE Model[i] = OneShot
  BY <1>3, <1>5, <1>6
<1>7. CASE Model[i] # OneShot
  <2>1. Model[i] \in Runtimes /\ w \in GpuState
    BY <1>1, <1>5, <1>7, RequestsAssumption DEF Good
  <2>2. x \in GpuState
    BY <2>1, ScheduleEvolves DEF Evolves
  <2>3. /\ x.work = w.work /\ x.born = w.born /\ x.rows = w.rows
        /\ x.pending = w.pending /\ x.answer = w.answer /\ x.lease = w.lease
        /\ x.active = w.active /\ x.ids = w.ids /\ x.oneShot = w.oneShot
        /\ x.admitting = w.admitting /\ x.refusing = w.refusing /\ x.adm = w.adm
    BY <2>1 DEF ScheduleIdleUnload, GpuState
  <2> HIDE DEF x
  <2>4. Good(x)
    BY <1>5, <2>2, <2>3, GoodElsewhere
  <2> QED
    BY <1>3, <1>7, <2>4
<1> QED
  BY <1>6, <1>7

(* cancelWorkItem keeps the invariant, whomever it cancels. *)
LEMMA CancelledGood ==
  ASSUME NEW s, Good(s), NEW i \in Items,
         NEW outcome \in Final, NEW now \in BOOLEAN
  PROVE  Good(Cancelled(s, i, outcome, now))
<1> DEFINE code == CASE outcome = "timed_out" -> "e504"
                     [] outcome = "cancelled" -> "e499"
                     [] OTHER -> "e503"
           f == Finish(s, i, outcome)
           A == IF i \in s.pending THEN f.aborted \cup {i} ELSE f.aborted
           t == [f EXCEPT !.aborted = A]
           u == Reject(t, i, code)
           v == Cleanup(u, i)
           w == Released(t, i, "cancelled")
<1>1. s \in GpuState /\ RowOK(s, i)
  BY DEF Good
<1>2. Good(f)
  BY FinishGood
<1>3. f.adm = s.adm /\ f.lease = s.lease
      /\ f.work[i] # "queued"
  BY <1>1 DEF Finish, GpuState, Final, Live
<1> HIDE DEF f
<1>4. f \in GpuState
  BY <1>2 DEF Good
<1>5. t \in GpuState
  BY <1>4 DEF GpuState
<1>6. /\ t.work = f.work /\ t.born = f.born /\ t.rows = f.rows
      /\ t.pending = f.pending /\ t.answer = f.answer /\ t.lease = f.lease
      /\ t.active = f.active /\ t.ids = f.ids /\ t.oneShot = f.oneShot
      /\ t.admitting = f.admitting /\ t.refusing = f.refusing /\ t.adm = f.adm
  BY <1>4 DEF GpuState
<1>7. code \in Refusals
  BY DEF Refusals
<1>8. Cancelled(s, i, outcome, now) =
        CASE i \in s.pending /\ s.work[i] = "queued" -> v
          [] /\ now /\ s.lease[i] = "held" /\ Model[i] # OneShot
             /\ i \in s.pending \ s.aborted -> w
          [] OTHER -> t
  BY DEF Cancelled, f
<1> HIDE DEF t, code
<1>9. Good(t)
  BY <1>2, <1>5, <1>6, GoodElsewhere
<1>10. CASE i \in s.pending /\ s.work[i] = "queued"
  <2>1. i \notin Flight(s) /\ s.lease[i] # "held"
    BY <1>1, <1>10 DEF RowOK, Queued
  <2>2. i \notin Flight(t) /\ t.work[i] # "queued"
    BY <1>3, <1>6, <2>1 DEF Flight
  <2>3. Good(u)
    BY <1>7, <1>9, <2>2, RejectGood
  <2> HIDE DEF u
  <2>4. Good(v)
    BY <2>3, CleanupGood
  <2> HIDE DEF v, w
  <2> QED
    BY <1>8, <1>10, <2>1, <2>4
<1>11. CASE ~(i \in s.pending /\ s.work[i] = "queued") /\ s.lease[i] = "held"
  <2>1. i \in Holders(t)
    BY <1>3, <1>6, <1>11 DEF Holders
  <2>2. Good(w)
    BY <1>9, <2>1, ReleasedGood DEF Final
  <2> HIDE DEF w, v
  <2> QED
    BY <1>8, <1>9, <1>11, <2>2
<1>12. CASE ~(i \in s.pending /\ s.work[i] = "queued") /\ s.lease[i] # "held"
  BY <1>8, <1>9, <1>12
<1> QED
  BY <1>10, <1>11, <1>12

(* A call of acquire adds a row at the end of the queue. *)
LEMMA EnqueueGood ==
  ASSUME NEW s, Good(s), NEW i \in Items, s.answer[i] = "none",
         s.work[i] \notin Final
  PROVE  Good([s EXCEPT !.work[i] = "queued", !.born[i] = s.rows + 1,
                        !.rows = @ + 1, !.pending = @ \cup {i},
                        !.answer[i] = "waiting"])
<1> DEFINE t == [s EXCEPT !.work[i] = "queued", !.born[i] = s.rows + 1,
                          !.rows = @ + 1, !.pending = @ \cup {i},
                          !.answer[i] = "waiting"]
<1>1. s \in GpuState /\ RowOK(s, i)
  BY DEF Good
<1>2. t \in GpuState
  BY <1>1, EnqueueEvolves
<1>3. /\ t.lease = s.lease /\ t.adm = s.adm
      /\ t.active = s.active /\ t.ids = s.ids /\ t.oneShot = s.oneShot
      /\ t.admitting = s.admitting /\ t.refusing = s.refusing
  BY <1>1 DEF GpuState
<1>4. t.rows = s.rows + 1 /\ t.pending = s.pending \cup {i}
  BY <1>1 DEF GpuState
<1>5. t.born[i] = s.rows + 1 /\ t.answer[i] = "waiting"
  BY <1>1 DEF GpuState
<1>6. \A j \in Items : j # i => /\ t.work[j] = s.work[j]
                                /\ t.born[j] = s.born[j]
                                /\ t.answer[j] = s.answer[j]
  BY <1>1 DEF GpuState
<1>7. s.rows \in Nat /\ (\A j \in Items : s.born[j] \in Nat)
      /\ s.pending \subseteq Items
  BY <1>1 DEF GpuState
<1> HIDE DEF t
<1>8. Flight(t) = Flight(s) /\ Holders(t) = Holders(s)
  BY <1>3 DEF Flight, Holders
<1>9. \A j \in Items : j # i => (j \in Queued(t) <=> j \in Queued(s))
  BY <1>4, <1>6 DEF Queued
<1>10. Ordered(t)
  <2>1. \A j \in Items : s.born[j] <= s.rows
    BY DEF Good, Ordered
  <2>2. \A j \in Items : t.born[j] <= t.rows
    BY <1>4, <1>5, <1>6, <1>7, <2>1
  <2>3. \A j \in Items : j # i => t.born[j] # t.born[i]
    BY <1>5, <1>6, <1>7, <2>1
  <2>4. \A j, k \in s.pending : s.born[j] = s.born[k] => j = k
    BY DEF Good, Ordered
  <2>5. \A j, k \in t.pending : t.born[j] = t.born[k] => j = k
    <3> SUFFICES ASSUME NEW j \in t.pending, NEW k \in t.pending,
                        t.born[j] = t.born[k]
                 PROVE  j = k
      OBVIOUS
    <3>1. j \in Items /\ k \in Items
      BY <1>4, <1>7
    <3>2. CASE j = i \/ k = i
      BY <2>3, <3>1, <3>2
    <3>3. CASE j # i /\ k # i
      <4>1. j \in s.pending /\ k \in s.pending
        BY <1>4, <3>3
      <4> QED
        BY <1>6, <2>4, <3>1, <3>3, <4>1
    <3> QED
      BY <3>2, <3>3
  <2> QED
    BY <2>2, <2>5 DEF Ordered
<1>11. Locked(t) /\ Exclusive(t) /\ Reserved(t)
  BY <1>3, <1>8 DEF Good, Locked, Exclusive, Reserved
<1>12. ASSUME NEW j \in Items
       PROVE  RowOK(t, j)
  <2>1. CASE j = i
    BY <1>1, <1>3, <1>5, <1>8, <2>1 DEF RowOK
  <2>2. CASE j # i
    <3>1. RowOK(s, j)
      BY DEF Good
    <3> QED
      BY <1>3, <1>6, <1>8, <1>9, <2>2, <3>1 DEF RowOK
  <2> QED
    BY <2>1, <2>2
<1>13. Accounted(t, Holders(t))
  BY <1>3, <1>8 DEF Good, Accounted, Counts
<1>14. Good(t)
  BY <1>2, <1>10, <1>11, <1>12, <1>13 DEF Good
<1> QED
  BY <1>14 DEF t

(* With forced unloads about, counters that only go down, rows that end and *)
(* leases given back keep what is left of the invariant.                    *)
LEMMA LoweredGood ==
  ASSUME "force" \in Events, NEW s, Good(s), NEW t \in GpuState,
         t.born = s.born, t.rows = s.rows, t.answer = s.answer,
         t.oneShot = s.oneShot, t.admitting = s.admitting,
         t.refusing = s.refusing, t.adm = s.adm,
         t.pending \subseteq s.pending,
         \A j \in Items : t.work[j] = "queued" => s.work[j] = "queued",
         \A j \in Items : s.work[j] # "queued" => t.work[j] # "queued",
         \A j \in Items : s.lease[j] = "none" => t.lease[j] = "none",
         \A q \in Runtimes : t.active[q] <= s.active[q]
  PROVE  Good(t)
<1>1. Flight(t) = Flight(s)
  BY DEF Flight
<1>2. Queued(t) \subseteq Queued(s)
  BY DEF Queued, Good, GpuState
<1>3. Ordered(t) /\ Locked(t)
  BY <1>1 DEF Good, Ordered, Locked
<1>4. \A q \in Runtimes :
        /\ s.active[q] \in Nat /\ t.active[q] \in Nat
        /\ MaxConcurrency[q] \in Nat
  BY RuntimesAssumption DEF Good, GpuState
<1>5. \A q \in Runtimes :
        /\ t.active[q] > 0 => s.active[q] > 0
        /\ s.active[q] = 0 => t.active[q] = 0
        /\ s.active[q] <= MaxConcurrency[q] => t.active[q] <= MaxConcurrency[q]
        /\ s.active[q] < MaxConcurrency[q] => t.active[q] < MaxConcurrency[q]
  BY <1>4
<1>6. Exclusive(t)
  BY <1>5 DEF Good, Exclusive
<1>7. Reserved(t)
  BY <1>1, <1>5 DEF Good, Reserved
<1>8. ASSUME NEW j \in Items
      PROVE  RowOK(t, j)
  <2>1. RowOK(s, j)
    BY DEF Good
  <2> QED
    BY <1>1, <1>2, <2>1 DEF RowOK
<1> QED
  BY <1>3, <1>6, <1>7, <1>8 DEF Good, Accounted

-----------------------------------------------------------------------------
(* Every step keeps the invariant *)

(* A call of acquire, release, cancel or a timer. *)
LEMMA CallsGood ==
  ASSUME XInv, NEW i \in Items,
         \/ Acquire(i) \/ AcquireRefused(i) \/ Release(i)
         \/ Cancel(i) \/ QueueTimeout(i)
  PROVE  Good(gpu') /\ overdue' = overdue
<1>1. Good(gpu) /\ overdue = {} /\ gpu \in GpuState /\ NoRowBeforeCall(gpu)
  BY DEF XInv, Good, IInv
<1>2. CASE Acquire(i)
  <2> DEFINE t == [gpu EXCEPT !.work[i] = "queued", !.born[i] = gpu.rows + 1,
                              !.rows = @ + 1, !.pending = @ \cup {i},
                              !.answer[i] = "waiting"]
  <2>1. gpu' = Pump(t) /\ overdue' = overdue
    BY <1>2 DEF Acquire
  <2>2. gpu.work[i] \notin Final
    BY <1>1, <1>2 DEF Acquire, NoRowBeforeCall, Final
  <2>3. Good(t)
    BY <1>1, <1>2, <2>2, EnqueueGood DEF Acquire
  <2> HIDE DEF t
  <2> QED
    BY <1>1, <2>1, <2>3, PumpGood
<1>3. CASE AcquireRefused(i)
  <2>1. PICK code \in {"e404", "e499"} : gpu' = [gpu EXCEPT !.answer[i] = code]
    BY <1>3 DEF AcquireRefused
  <2>2. gpu.answer[i] = "none" /\ overdue' = overdue /\ RowOK(gpu, i)
    BY <1>1, <1>3 DEF AcquireRefused, Good
  <2>3. i \notin Flight(gpu) /\ gpu.work[i] # "queued"
    BY <1>1, <2>2 DEF RowOK, NoRowBeforeCall
  <2> DEFINE t == [gpu EXCEPT !.answer[i] = code]
  <2>4. t \in GpuState
    BY <1>1 DEF GpuState, Refusals
  <2>5. /\ t.born = gpu.born /\ t.rows = gpu.rows /\ t.lease = gpu.lease
        /\ t.active = gpu.active /\ t.ids = gpu.ids /\ t.oneShot = gpu.oneShot
        /\ t.admitting = gpu.admitting /\ t.refusing = gpu.refusing
        /\ t.adm = gpu.adm /\ t.pending = gpu.pending /\ t.work = gpu.work
        /\ \A j \in Items : t.answer[j] = gpu.answer[j] \/ (j = i /\ t.answer[j] = code)
    BY <1>1 DEF GpuState
  <2>6. code # "none"
    OBVIOUS
  <2> HIDE DEF t
  <2>7. Good(t)
    BY <1>1, <2>3, <2>4, <2>5, <2>6, EndedRowsGood
  <2> QED
    BY <2>1, <2>2, <2>7 DEF t
<1>4. CASE Release(i)
  <2>1. PICK outcome \in {"succeeded", "failed", "cancelled"} :
           gpu' = Pump(Released(gpu, i, outcome))
    BY <1>4 DEF Release
  <2>2. i \in Holders(gpu) /\ overdue' = overdue
    BY <1>4 DEF Release, Holders
  <2> DEFINE t == Released(gpu, i, outcome)
  <2>3. outcome \in Final
    BY DEF Final
  <2>4. Good(t)
    BY <1>1, <2>2, <2>3, ReleasedGood
  <2> HIDE DEF t
  <2>5. Good(Pump(t))
    BY <1>1, <2>4, PumpGood
  <2> QED
    BY <2>1, <2>2, <2>5 DEF t
<1>5. CASE Cancel(i) \/ QueueTimeout(i)
  <2>1. PICK outcome \in {"cancelled", "timed_out"}, now \in BOOLEAN :
           gpu' = Pump(Cancelled(gpu, i, outcome, now))
    BY <1>5 DEF Cancel, QueueTimeout
  <2>2. overdue' = overdue
    BY <1>5 DEF Cancel, QueueTimeout
  <2> DEFINE t == Cancelled(gpu, i, outcome, now)
  <2>3. outcome \in Final
    BY DEF Final
  <2>4. Good(t)
    BY <1>1, <2>3, CancelledGood
  <2> HIDE DEF t
  <2>5. Good(Pump(t))
    BY <1>1, <2>4, PumpGood
  <2> QED
    BY <2>1, <2>2, <2>5 DEF t
<1> QED
  BY <1>2, <1>3, <1>4, <1>5

(* A step of the admission in flight. *)
LEMMA AdmissionStepsGood ==
  ASSUME XInv, NEW i \in Items, AdmissionStep(i)
  PROVE  Good(gpu') /\ overdue' = overdue
<1> DEFINE a == gpu.adm[i]
<1>1. /\ Good(gpu) /\ overdue = {} /\ gpu \in GpuState
      /\ a \in Admission
      /\ a.pos \in 0..N
      /\ a.adopt \in BOOLEAN
  BY DEF XInv, Good, GpuState, Admission
<1>2. 0 \in 0..N
  BY RuntimesAssumption
<1>3. a.at \in {"check", "probe", "startCmd", "startWait"} => Model[i] # OneShot
  BY DEF XInv, IInv, OneShotsOnlySweep
<1>4. gpu.refusing = {} /\ a.at # "none" /\ i \in Flight(gpu)
  <2>1. gpu.refusing = {}
    BY <1>1 DEF Good, Locked
  <2>2. a.at # "none"
    BY <2>1, Zenon DEF AdmissionStep, CheckHealth, ProbeHealth, SweepProbe,
                SweepStopCommand, SweepStopped, SweepStopFails, StartCommand,
                StartCommandFails, LoadHealthy, LoadAborted, LoadTimesOut,
                RefusedSettles
  <2> QED
    BY <2>1, <2>2 DEF Flight
<1>5. overdue' = overdue
  BY Zenon DEF AdmissionStep, CheckHealth, ProbeHealth, SweepProbe,
         SweepStopCommand, SweepStopped, SweepStopFails, StartCommand,
         StartCommandFails, LoadHealthy, LoadAborted, LoadTimesOut,
         RefusedSettles
<1>6. ASSUME NEW step \in AdmissionSteps \ {"none"},
             NEW s, Good(s), s.adm = gpu.adm
      PROVE  Good([s EXCEPT !.adm[i].at = step])
  <2> DEFINE b == [a EXCEPT !.at = step]
  <2>1. b \in Admission /\ b.at # "none"
    BY <1>1 DEF Admission
  <2>2. [s EXCEPT !.adm[i].at = step] = [s EXCEPT !.adm[i] = b]
    BY <1>6
  <2>3. i \in Flight(s)
    BY <1>4, <1>6 DEF Flight
  <2> HIDE DEF b
  <2>4. Good([s EXCEPT !.adm[i] = b])
    BY <1>6, <2>1, <2>3, SetAdmissionGood
  <2> QED
    BY <2>2, <2>4
<1>7. ASSUME NEW s, Good(s), Flight(s) = Flight(gpu)
      PROVE  Good(SweepOn(s, i, a.pos, a.adopt))
  <2> HIDE DEF a
  <2> QED
    BY <1>1, <1>4, <1>7, SweepOnGood
<1>8. CASE CheckHealth(i)
  <2>1. Model[i] # OneShot
    BY <1>3, <1>8 DEF CheckHealth
  <2>2. Good(RuntimeReady(gpu, i))
    BY <1>1, <1>4, <2>1, RuntimeReadyGood
  <2>3. Good([gpu EXCEPT !.adm[i].at = "probe"])
    BY <1>1, <1>6 DEF AdmissionSteps
  <2> QED
    BY <1>5, <1>8, <2>2, <2>3 DEF CheckHealth
<1>9. CASE ProbeHealth(i)
  <2>1. Up(Model[i]) \in BOOLEAN
    BY DEF Up
  <2>2. Good(SweepOn(gpu, i, 0, Up(Model[i])))
    BY <1>1, <1>2, <1>4, <2>1, SweepOnGood
  <2> QED
    BY <1>5, <1>9, <2>2 DEF ProbeHealth
<1>10. CASE SweepProbe(i)
  <2> DEFINE value == IF gpu.state[a.pos] = "failed" THEN "failed" ELSE "unloaded"
             down == [gpu EXCEPT !.state[a.pos] = value]
             used == [gpu EXCEPT !.idle = @ \ {a.pos}]
             stop == BeginStop(gpu, a.pos)
  <2>1. \/ gpu' = SweepOn(down, i, a.pos, a.adopt)
        \/ gpu' = SweepOn(used, i, a.pos, a.adopt)
        \/ gpu' = [stop EXCEPT !.adm[i].at = "stopCmd"]
    BY <1>10 DEF SweepProbe
  <2>2. value \in RuntimeStates
    BY DEF RuntimeStates
  <2>3. used \in GpuState
    BY <1>1 DEF GpuState
  <2>4. /\ used.work = gpu.work /\ used.born = gpu.born /\ used.rows = gpu.rows
        /\ used.pending = gpu.pending /\ used.answer = gpu.answer
        /\ used.lease = gpu.lease /\ used.active = gpu.active
        /\ used.ids = gpu.ids /\ used.oneShot = gpu.oneShot
        /\ used.admitting = gpu.admitting /\ used.refusing = gpu.refusing
        /\ used.adm = gpu.adm
    BY <1>1 DEF GpuState
  <2>5. stop.adm = gpu.adm
    BY <1>1 DEF BeginStop, GpuState
  <2> HIDE DEF value
  <2>6. Good(down) /\ Flight(down) = Flight(gpu)
    BY <1>1, <2>2, SetStateGood
  <2>7. Good(stop)
    BY <1>1, BeginStopGood
  <2> HIDE DEF down, used, stop
  <2>8. Good(used) /\ Flight(used) = Flight(gpu)
    BY <1>1, <2>3, <2>4, GoodElsewhere DEF Flight
  <2>9. Good([stop EXCEPT !.adm[i].at = "stopCmd"])
    BY <1>6, <2>5, <2>7 DEF AdmissionSteps
  <2> QED
    BY <1>5, <1>7, <2>1, <2>6, <2>8, <2>9
<1>11. CASE SweepStopCommand(i) \/ StartCommand(i)
  <2>1. Good([gpu EXCEPT !.adm[i].at = "stopWait"])
    BY <1>1, <1>6 DEF AdmissionSteps
  <2>2. Good([gpu EXCEPT !.adm[i].at = "startWait"])
    BY <1>1, <1>6 DEF AdmissionSteps
  <2> QED
    BY <1>5, <1>11, <2>1, <2>2 DEF SweepStopCommand, StartCommand
<1>12. CASE SweepStopped(i) \/ SweepStopFails(i)
  <2>1. PICK value \in RuntimeStates :
           gpu' = SweepOn([gpu EXCEPT !.state[a.pos] = value], i, a.pos, a.adopt)
    BY <1>12 DEF SweepStopped, SweepStopFails, RuntimeStates
  <2> DEFINE s == [gpu EXCEPT !.state[a.pos] = value]
  <2>2. Good(s) /\ Flight(s) = Flight(gpu)
    BY <1>1, SetStateGood
  <2> HIDE DEF s
  <2>3. Good(SweepOn(s, i, a.pos, a.adopt))
    BY <1>7, <2>2
  <2> QED
    BY <1>5, <2>1, <2>3 DEF s
<1>13. CASE StartCommandFails(i) \/ LoadAborted(i) \/ LoadTimesOut(i)
  <2>1. PICK code \in Refusals : gpu' = LoadFails(gpu, i, code)
    BY <1>13 DEF StartCommandFails, LoadAborted, LoadTimesOut, Refusals
  <2> QED
    BY <1>1, <1>4, <1>5, <2>1, LoadFailsGood
<1>14. CASE LoadHealthy(i)
  <2> DEFINE s == [gpu EXCEPT !.state[Model[i]] = "loaded"]
  <2>1. Good(s) /\ Flight(s) = Flight(gpu)
    BY <1>1, SetStateGood DEF RuntimeStates
  <2>2. gpu' = RuntimeReady(s, i)
    BY <1>14 DEF LoadHealthy
  <2>3. Model[i] # OneShot
    BY <1>3, <1>14 DEF LoadHealthy
  <2> HIDE DEF s
  <2> QED
    BY <1>1, <1>4, <1>5, <2>1, <2>2, <2>3, RuntimeReadyGood
<1>15. CASE RefusedSettles(i)
  BY <1>4, <1>15 DEF RefusedSettles
<1> QED
  BY <1>8, <1>9, <1>10, <1>11, <1>12, <1>13, <1>14, <1>15 DEF AdmissionStep

(* forceUnloadRuntime up to its stop command only ends rows, takes leases   *)
(* back and lowers the runtime's counter, before and after it pumps.        *)
LEMMA ForceUnloadGood ==
  ASSUME XInv, NEW r \in Runtimes, ForceUnload(r)
  PROVE  Good(gpu')
<1>1. /\ Good(gpu) /\ overdue = {} /\ gpu \in GpuState
      /\ "force" \in Events
  BY DEF XInv, Good, ForceUnload
<1>2. PICK now \in SUBSET gpu.ids[r] :
       LET hit == gpu.ids[r]
           over == {i \in now : gpu.lease[i] = "held" /\ i \notin gpu.aborted}
           t == [gpu EXCEPT
                  !.work = [i \in Items |-> IF i \in hit /\ @[i] \in Live
                                              THEN "failed" ELSE @[i]],
                  !.aborted = @ \cup (hit \cap gpu.pending),
                  !.lease = [i \in Items |-> IF i \in over
                                               THEN "released" ELSE @[i]],
                  !.pending = @ \ over,
                  !.active[r] = IF @ > Cardinality(over)
                                  THEN @ - Cardinality(over) ELSE 0,
                  !.ids[r] = @ \ over]
       IN gpu' = BeginStop([Pump(t) EXCEPT !.active[r] = 0, !.ids[r] = {}], r)
  BY DEF ForceUnload
<1> DEFINE hit == gpu.ids[r]
           over == {i \in now : gpu.lease[i] = "held" /\ i \notin gpu.aborted}
           work == [i \in Items |-> IF i \in hit /\ gpu.work[i] \in Live
                                      THEN "failed" ELSE gpu.work[i]]
           lease == [i \in Items |-> IF i \in over
                                       THEN "released" ELSE gpu.lease[i]]
           n == IF gpu.active[r] > Cardinality(over)
                  THEN gpu.active[r] - Cardinality(over) ELSE 0
           active == [gpu.active EXCEPT ![r] = n]
           ids == [gpu.ids EXCEPT ![r] = @ \ over]
           aborted == gpu.aborted \cup (hit \cap gpu.pending)
           pending == gpu.pending \ over
           s == [gpu EXCEPT !.work = work, !.aborted = aborted, !.lease = lease]
           t == [s EXCEPT !.pending = pending, !.active = active, !.ids = ids]
           u == Pump(t)
           v == [u EXCEPT !.active[r] = 0, !.ids[r] = {}]
<1>3. gpu' = BeginStop(v, r)
  BY <1>2
<1>4. /\ hit \in SUBSET Items
      /\ \A q \in Runtimes : gpu.active[q] \in Nat
  BY <1>1 DEF GpuState
<1>5. over \in SUBSET Items /\ \A i \in over : gpu.lease[i] = "held"
  BY <1>4
<1>6. Cardinality(over) \in Nat
  BY <1>5, ItemsAssumption, FS_Subset, FS_CardinalityType
<1>7. n \in Nat /\ n <= gpu.active[r]
  <2> HIDE DEF over
  <2> QED
    BY <1>4, <1>6
<1> HIDE DEF over, n
<1>8. /\ work \in [Items -> {"absent"} \cup Live \cup Final]
      /\ lease \in [Items -> {"none", "held", "released", "lost"}]
      /\ active \in [Runtimes -> Nat]
      /\ ids \in [Runtimes -> SUBSET Items]
      /\ aborted \in SUBSET Items
      /\ pending \in SUBSET gpu.pending
  BY <1>1, <1>7 DEF GpuState, Final
<1>9. /\ \A i \in Items : work[i] = "queued" => gpu.work[i] = "queued"
      /\ \A i \in Items : gpu.work[i] # "queued" => work[i] # "queued"
      /\ \A i \in Items : gpu.lease[i] = "none" => lease[i] = "none"
  BY <1>5
<1>10. \A q \in Runtimes : active[q] <= gpu.active[q]
  <2> SUFFICES ASSUME NEW q \in Runtimes
               PROVE  active[q] <= gpu.active[q]
    OBVIOUS
  <2>1. active[q] = IF q = r THEN n ELSE gpu.active[q]
    BY <1>1 DEF GpuState
  <2> HIDE DEF active
  <2> QED
    BY <1>4, <1>7, <2>1
<1> HIDE DEF work, lease, active, ids, aborted, pending
<1>11. /\ s \in GpuState /\ s.work = work /\ s.lease = lease
       /\ s.born = gpu.born /\ s.rows = gpu.rows /\ s.answer = gpu.answer
       /\ s.oneShot = gpu.oneShot /\ s.admitting = gpu.admitting
       /\ s.refusing = gpu.refusing /\ s.adm = gpu.adm
  BY <1>1, <1>8 DEF GpuState
<1> HIDE DEF s
<1>12. pending \in SUBSET Items
  BY <1>1, <1>8 DEF GpuState
<1>13. /\ t \in GpuState /\ t.work = work /\ t.lease = lease
       /\ t.pending = pending /\ t.active = active
       /\ t.born = gpu.born /\ t.rows = gpu.rows /\ t.answer = gpu.answer
       /\ t.oneShot = gpu.oneShot /\ t.admitting = gpu.admitting
       /\ t.refusing = gpu.refusing /\ t.adm = gpu.adm
  BY <1>8, <1>11, <1>12 DEF GpuState
<1> HIDE DEF t
<1>14. Good(t)
  BY <1>1, <1>8, <1>9, <1>10, <1>13, LoweredGood
<1>15. Good(u)
  BY <1>1, <1>14, PumpGood
<1>16. u \in GpuState
  BY <1>15 DEF Good
<1> HIDE DEF u
<1>17. v \in GpuState
  <2>1. Evolves(u, v)
    BY <1>16, SetSlotsEvolves
  <2> QED
    BY <2>1 DEF Evolves
<1>18. /\ v.work = u.work /\ v.lease = u.lease /\ v.pending = u.pending
       /\ v.born = u.born /\ v.rows = u.rows /\ v.answer = u.answer
       /\ v.oneShot = u.oneShot /\ v.admitting = u.admitting
       /\ v.refusing = u.refusing /\ v.adm = u.adm
       /\ v.active = [u.active EXCEPT ![r] = 0]
  BY <1>16 DEF GpuState
<1>19. \A q \in Runtimes : v.active[q] <= u.active[q]
  <2>1. \A q \in Runtimes : u.active[q] \in Nat /\ v.active[q] \in {0, u.active[q]}
    BY <1>16, <1>18 DEF GpuState
  <2> QED
    BY <2>1
<1> HIDE DEF v
<1>20. Good(v)
  BY <1>1, <1>15, <1>17, <1>18, <1>19, LoweredGood, Zenon
<1> QED
  BY <1>3, <1>20, BeginStopGood, RuntimesAssumption DEF Runtimes

(* A step of a runtime: a timer, a stop, a probe or its service process. *)
LEMMA RuntimesGood ==
  ASSUME XInv, NEW r \in Runtimes, RuntimeStep(r)
  PROVE  Good(gpu') /\ overdue' = overdue
<1>1. Good(gpu) /\ overdue = {} /\ gpu \in GpuState
  BY DEF XInv, Good
<1>2. overdue' = overdue
  BY Zenon DEF RuntimeStep, StopStep, IdleFires, ForceUnload, IdleStopCommand,
         IdleStopped, IdleStopFails, ForceStopCommand, ForceStopped,
         ForceStopFails, RefreshProbe, ServiceReady, ServiceDies,
         ServiceStartedOutside
<1>3. Good(BeginStop(gpu, r))
  BY <1>1, BeginStopGood, RuntimesAssumption DEF Runtimes
<1>4. ASSUME NEW value \in {"unloaded", "failed"},
             gpu' = Pump([gpu EXCEPT !.state[r] = value])
      PROVE  Good(gpu')
  <2> DEFINE s == [gpu EXCEPT !.state[r] = value]
  <2>1. Good(s)
    BY <1>1, SetStateGood DEF RuntimeStates
  <2>2. gpu' = Pump(s)
    BY <1>4
  <2> HIDE DEF s
  <2> QED
    BY <1>1, <2>1, <2>2, PumpGood
<1>5. CASE IdleFires(r)
  <2> DEFINE s == [gpu EXCEPT !.idle = @ \ {r}]
  <2>1. s \in GpuState
    BY <1>1 DEF GpuState
  <2>2. /\ s.work = gpu.work /\ s.born = gpu.born /\ s.rows = gpu.rows
        /\ s.pending = gpu.pending /\ s.answer = gpu.answer
        /\ s.lease = gpu.lease /\ s.active = gpu.active
        /\ s.ids = gpu.ids /\ s.oneShot = gpu.oneShot
        /\ s.admitting = gpu.admitting /\ s.refusing = gpu.refusing
        /\ s.adm = gpu.adm
    BY <1>1 DEF GpuState
  <2>3. gpu' = Pump(s) \/ gpu' = BeginStop(gpu, r)
    BY <1>5 DEF IdleFires
  <2> HIDE DEF s
  <2>4. Good(s)
    BY <1>1, <2>1, <2>2, GoodElsewhere
  <2> QED
    BY <1>1, <1>2, <1>3, <2>3, <2>4, PumpGood
<1>6. CASE ForceUnload(r)
  BY <1>2, <1>6, ForceUnloadGood
<1>7. CASE IdleStopped(r) \/ IdleStopFails(r) \/ ForceStopped(r) \/ ForceStopFails(r)
  BY <1>2, <1>4, <1>7
  DEF IdleStopped, IdleStopFails, ForceStopped, ForceStopFails
<1>8. CASE \/ IdleStopCommand(r) \/ ForceStopCommand(r) \/ RefreshProbe(r)
           \/ ServiceReady(r) \/ ServiceDies(r) \/ ServiceStartedOutside(r)
  BY <1>1, <1>2, <1>8
  DEF IdleStopCommand, ForceStopCommand, RefreshProbe,
      ServiceReady, ServiceDies, ServiceStartedOutside
<1> QED
  BY <1>5, <1>6, <1>7, <1>8 DEF RuntimeStep, StopStep

(* refreshRuntimeHealth writes runtime states alone. *)
LEMMA RefreshGood ==
  ASSUME XInv, RefreshApply
  PROVE  Good(gpu') /\ overdue' = overdue
<1>1. Good(gpu) /\ gpu \in GpuState
  BY DEF XInv, Good
<1>2. gpu' \in GpuState
  BY RefreshStep DEF XInv, Evolves
<1>3. \E state : gpu' = [gpu EXCEPT !.state = state]
  BY DEF RefreshApply
<1>4. /\ gpu'.work = gpu.work /\ gpu'.born = gpu.born /\ gpu'.rows = gpu.rows
      /\ gpu'.pending = gpu.pending /\ gpu'.answer = gpu.answer
      /\ gpu'.lease = gpu.lease /\ gpu'.active = gpu.active
      /\ gpu'.ids = gpu.ids /\ gpu'.oneShot = gpu.oneShot
      /\ gpu'.admitting = gpu.admitting /\ gpu'.refusing = gpu.refusing
      /\ gpu'.adm = gpu.adm
  BY <1>1, <1>3 DEF GpuState
<1> QED
  BY <1>1, <1>2, <1>4, GoodElsewhere DEF RefreshApply

(* Where no item is found overdue, the invariant is inductive. *)
LEMMA NextXInv ==
  ASSUME "late" \notin Events, XInv, [Next]_vars
  PROVE  XInv'
<1>1. IInv'
  BY NextIInv DEF XInv
<1>2. CASE UNCHANGED vars
  <2>1. gpu' = gpu /\ overdue' = overdue
    BY <1>2 DEF vars
  <2> QED
    BY <1>1, <2>1 DEF XInv
<1>3. ASSUME NEW i \in Items, ItemStep(i)
      PROVE  Good(gpu') /\ overdue' = overdue
  <2>1. ~DeadlinePasses(i)
    BY DEF DeadlinePasses
  <2> QED
    BY <1>3, <2>1, CallsGood, AdmissionStepsGood DEF ItemStep
<1>4. ASSUME NEW r \in Runtimes, RuntimeStep(r)
      PROVE  Good(gpu') /\ overdue' = overdue
  BY <1>4, RuntimesGood
<1>5. CASE Next
  <2>1. Good(gpu') /\ overdue' = overdue
    BY <1>3, <1>4, <1>5, RefreshGood DEF Next
  <2> QED
    BY <1>1, <2>1 DEF XInv
<1> QED
  BY <1>2, <1>5

(* The coordinator is constructed empty. *)
LEMMA InitXInv == Init => XInv
<1> SUFFICES ASSUME Init PROVE XInv
  OBVIOUS
<1>1. IInv
  BY InitIInv
<1>2. gpu \in GpuState
  BY <1>1 DEF IInv, TypeOK
<1>3. /\ overdue = {} /\ gpu.pending = {} /\ gpu.rows = 0
      /\ gpu.refusing = {} /\ gpu.admitting = FALSE /\ gpu.oneShot = NoItem
      /\ \A i \in Items : /\ gpu.born[i] = 0 /\ gpu.answer[i] = "none"
                          /\ gpu.lease[i] = "none"
                          /\ gpu.adm[i] = NotAdmitting
      /\ \A r \in Runtimes : gpu.active[r] = 0 /\ gpu.ids[r] = {}
  BY DEF Init
<1>4. Flight(gpu) = {} /\ Queued(gpu) = {} /\ Holders(gpu) = {}
  BY <1>3 DEF Flight, Queued, Holders, NotAdmitting
<1>5. Ordered(gpu) /\ Locked(gpu) /\ Reserved(gpu)
  BY <1>3, <1>4 DEF Ordered, Locked, Reserved
<1>6. Exclusive(gpu)
  BY <1>3, RuntimesAssumption DEF Exclusive
<1>7. \A i \in Items : RowOK(gpu, i)
  BY <1>3, <1>4 DEF RowOK
<1>8. Accounted(gpu, Holders(gpu))
  <2>1. \A r \in Runtimes :
          gpu.ids[r] = {i \in Holders(gpu) : Model[i] = r}
          /\ gpu.active[r] = Cardinality(gpu.ids[r])
    BY <1>3, <1>4, FS_EmptySet
  <2>2. \A i \in Items : ~(i \in Holders(gpu)) /\ gpu.oneShot # i
    BY <1>3, <1>4, ItemsAssumption
  <2> QED
    BY <2>1, <2>2 DEF Accounted, Counts
<1> QED
  BY <1>1, <1>2, <1>3, <1>5, <1>6, <1>7, <1>8 DEF XInv, Good

-----------------------------------------------------------------------------
(* The theorems *)

(* What the invariant says of the admission in flight. *)
LEMMA OneAtATime == XInv => OneAdmission
BY DEF XInv, Good, Locked, OneAdmission, InFlight, Flight

(* What it says of the counters kept by hand. *)
LEMMA CountersRight ==
  ASSUME "force" \notin Events, XInv
  PROVE  ActiveAccounting
<1>1. Counts(gpu, Holders(gpu)) /\ gpu \in GpuState
  BY DEF XInv, Good, Accounted
<1>2. Held = Holders(gpu)
  BY DEF Held, Holders
<1>3. \A r \in Runtimes : /\ gpu.ids[r] = HeldOn(r)
                          /\ gpu.active[r] = Cardinality(gpu.ids[r])
  BY <1>1, <1>2 DEF Counts, HeldOn
<1>4. HeldOn(OneShot) = IF gpu.oneShot = NoItem THEN {} ELSE {gpu.oneShot}
  <2>1. Held \subseteq Items /\ gpu.oneShot \in Items \cup {NoItem}
    BY <1>1 DEF Held, GpuState
  <2>2. \A i \in Items : i \in HeldOn(OneShot) <=> gpu.oneShot = i
    BY <1>1, <1>2 DEF Counts, HeldOn
  <2>3. HeldOn(OneShot) \subseteq Items
    BY <2>1 DEF HeldOn
  <2> QED
    BY <2>1, <2>2, <2>3, ItemsAssumption
<1> QED
  BY <1>3, <1>4 DEF ActiveAccounting

(* What it says of the leases held together. *)
LEMMA LeasesExclusive ==
  ASSUME "force" \notin Events, XInv
  PROVE  OneModelAtATime /\ WithinMaxConcurrency
<1>1. ActiveAccounting /\ Exclusive(gpu) /\ gpu \in GpuState
  BY CountersRight DEF XInv, Good
<1>2. \A r \in Runtimes : Cardinality(HeldOn(r)) = gpu.active[r]
                          /\ gpu.active[r] \in Nat
  BY <1>1 DEF ActiveAccounting, GpuState
<1>3. WithinMaxConcurrency
  BY <1>1, <1>2 DEF WithinMaxConcurrency, Exclusive
<1>4. ASSUME NEW i \in Held, NEW r \in Runtimes, Model[i] = r
      PROVE  gpu.active[r] > 0
  <2>1. i \in HeldOn(r) /\ HeldOn(r) \subseteq Items
    BY <1>4 DEF HeldOn, Held
  <2>2. Cardinality(HeldOn(r)) # 0
    BY <2>1, ItemsAssumption, FS_Subset, FS_EmptySet
  <2> QED
    BY <1>2, <2>2
<1>5. ASSUME NEW i \in Held, Model[i] = OneShot
      PROVE  gpu.oneShot = i /\ gpu.oneShot # NoItem
  <2>1. i \in HeldOn(OneShot) /\ i \in Items
    BY <1>5 DEF HeldOn, Held
  <2> QED
    BY <1>1, <2>1, ItemsAssumption DEF ActiveAccounting
<1>6. ASSUME NEW i \in Held, NEW j \in Held
      PROVE  Model[i] = Model[j] /\ (Model[i] = OneShot => i = j)
  <2>1. Model[i] \in Runtimes \cup {OneShot} /\ Model[j] \in Runtimes \cup {OneShot}
    BY RequestsAssumption DEF Held
  <2>2. CASE Model[i] = OneShot
    <3>1. gpu.oneShot = i /\ \A r \in Runtimes : ~(gpu.active[r] > 0)
      BY <1>1, <1>2, <1>5, <2>2 DEF Exclusive
    <3>2. Model[j] = OneShot
      BY <1>4, <2>1, <3>1
    <3> QED
      BY <1>5, <2>2, <3>1, <3>2
  <2>3. CASE Model[i] # OneShot
    <3>1. Model[i] \in Runtimes /\ gpu.active[Model[i]] > 0
      BY <1>4, <2>1, <2>3
    <3>2. Model[j] # OneShot
      BY <1>1, <1>2, <1>5, <3>1 DEF Exclusive
    <3>3. Model[j] \in Runtimes /\ gpu.active[Model[j]] > 0
      BY <1>4, <2>1, <3>2
    <3> QED
      BY <1>1, <2>3, <3>1, <3>3 DEF Exclusive
  <2> QED
    BY <2>2, <2>3
<1>7. OneModelAtATime
  BY <1>6 DEF OneModelAtATime
<1> QED
  BY <1>3, <1>7

(* this.admitting works as a lock: however calls, timers, forced unloads    *)
(* and the awaits of an admission interleave, one item at a time is between *)
(* pump() and the end of admit(), and the flag is up exactly then.          *)
THEOREM AdmissionLock == "late" \notin Events => (Spec => []OneAdmission)
<1> SUFFICES ASSUME "late" \notin Events PROVE Spec => []OneAdmission
  OBVIOUS
<1>1. XInv /\ [Next]_vars => XInv'
  BY NextXInv
<1> QED
  BY <1>1, InitXInv, OneAtATime, PTL DEF Spec

(* activeRequests, activeWorkItemIds and activeOneShotWorkItemId name the   *)
(* leases held, through every grant, release, cancellation and failure.     *)
THEOREM CountersNameTheLeases ==
  {"late", "force"} \cap Events = {} => (Spec => []ActiveAccounting)
<1> SUFFICES ASSUME "late" \notin Events, "force" \notin Events
             PROVE  Spec => []ActiveAccounting
  OBVIOUS
<1>1. XInv /\ [Next]_vars => XInv'
  BY NextXInv
<1>2. XInv => ActiveAccounting
  BY CountersRight
<1> QED
  BY <1>1, <1>2, InitXInv, PTL DEF Spec

(* Leases held together are for one model, or are one one-shot: what pump() *)
(* checked when it started an item still holds when its lease is granted,   *)
(* however many awaits later that is.                                       *)
THEOREM OneModelHolds ==
  {"late", "force"} \cap Events = {} => (Spec => []OneModelAtATime)
<1> SUFFICES ASSUME "late" \notin Events, "force" \notin Events
             PROVE  Spec => []OneModelAtATime
  OBVIOUS
<1>1. XInv /\ [Next]_vars => XInv'
  BY NextXInv
<1>2. XInv => OneModelAtATime
  BY LeasesExclusive
<1> QED
  BY <1>1, <1>2, InitXInv, PTL DEF Spec

(* At most maxConcurrency clients hold a lease of a runtime. *)
THEOREM CapHolds ==
  {"late", "force"} \cap Events = {} => (Spec => []WithinMaxConcurrency)
<1> SUFFICES ASSUME "late" \notin Events, "force" \notin Events
             PROVE  Spec => []WithinMaxConcurrency
  OBVIOUS
<1>1. XInv /\ [Next]_vars => XInv'
  BY NextXInv
<1>2. XInv => WithinMaxConcurrency
  BY LeasesExclusive
<1> QED
  BY <1>1, <1>2, InitXInv, PTL DEF Spec

-----------------------------------------------------------------------------
(* Every live row has somebody who will finish it                           *)

(* A queued row has its pending entry and a caller who waits; a running one *)
(* is in flight or leased; a pending entry is there for as long as the      *)
(* promise or the lease; and who has had a lease waits no more.             *)
Attended(s, i) ==
  /\ s.work[i] = "queued" => i \in s.pending /\ s.answer[i] = "waiting"
  /\ s.work[i] = "running" => i \in Flight(s) \/ s.lease[i] = "held"
  /\ i \in Flight(s) => /\ s.answer[i] = "waiting" /\ s.lease[i] = "none"
                        /\ s.work[i] # "queued"
  /\ i \in s.pending <=> s.answer[i] = "waiting" \/ s.lease[i] = "held"
  /\ s.lease[i] # "none" => s.answer[i] \notin {"none", "waiting"}

Owned(s) == s \in GpuState /\ \A i \in Items : Attended(s, i)

(* A state in which the admission of i ends: its row has ended, or its      *)
(* caller has the lease.                                                    *)
Closing(s, i) ==
  /\ s \in GpuState
  /\ \A j \in Items \ {i} : Attended(s, j)
  /\ s.work[i] # "queued"
  /\ s.work[i] = "running" => s.lease[i] = "held"
  /\ i \in s.pending <=> s.answer[i] = "waiting" \/ s.lease[i] = "held"
  /\ s.lease[i] # "none" => s.answer[i] \notin {"none", "waiting"}

(* What is not about rows, answers, leases or admissions leaves no orphan.  *)
LEMMA OwnedElsewhere ==
  ASSUME NEW s, Owned(s), NEW t \in GpuState,
         t.work = s.work, t.pending = s.pending, t.answer = s.answer,
         t.lease = s.lease, t.adm = s.adm
  PROVE  Owned(t) /\ Flight(t) = Flight(s)
BY DEF Owned, Attended, Flight

(* pump() without overdue items starts items and ends none. *)
LEMMA PumpOwned ==
  ASSUME NEW s, Owned(s), overdue = {}
  PROVE  Owned(Pump(s))
<1> DEFINE t == Pump(s)
<1>1. CASE PumpBlocked(s)
  BY <1>1 DEF Pump
<1>2. CASE ~PumpBlocked(s)
  <2>1. s \in GpuState
    BY DEF Owned
  <2>2. /\ t \in GpuState /\ t.lease = s.lease
        /\ t.pending = s.pending \ (Expired(s) \cup TakenTwice(s))
        /\ \A i \in Items :
             /\ t.work[i] = CASE i \in Taken(s) -> "running"
                              [] i \in Expired(s) -> "timed_out"
                              [] OTHER -> s.work[i]
             /\ t.answer[i] = CASE i \in TakenTwice(s) -> "e409"
                                [] i \in Expired(s) -> "e504"
                                [] OTHER -> s.answer[i]
             /\ i \notin Taken(s) => t.adm[i] = s.adm[i]
    BY <1>2, <2>1, PumpWrites
  <2>3. t.adm = [i \in Items |-> IF i \in Taken(s) THEN BeginAdmission(s, i)
                                                   ELSE s.adm[i]]
    BY <1>2, <2>1 DEF Pump, GpuState
  <2>4. \A i \in Items : BeginAdmission(s, i).at # "none"
    BY DEF BeginAdmission
  <2> HIDE DEF t
  <2>5. Late(s) = {} /\ Expired(s) = {}
    BY DEF Late, Expired
  <2>6. TakenTwice(s) = {}
    <3>1. Nested(s) = 1
      <4>1. {o \in Late(s) : \A i \in Fresh(s) : Ahead(s, o, i)} = {}
        BY <2>5
      <4> QED
        BY <4>1, FS_EmptySet DEF Nested
    <3>2. \A i : Cardinality(FreshAhead(s, i)) \in Nat
      BY <2>1, FreshFinite
    <3>3. Nested(s) \div 2 = 0
      BY <3>1
    <3>4. \A i : ~(Cardinality(FreshAhead(s, i)) < Nested(s) \div 2)
      <4> DEFINE half == Nested(s) \div 2
      <4>1. half = 0
        BY <3>3
      <4> HIDE DEF half
      <4>2. \A i : ~(Cardinality(FreshAhead(s, i)) < half)
        BY <3>2, <4>1
      <4> QED
        BY <4>2 DEF half
    <3> QED
      BY <3>4, Zenon DEF TakenTwice
  <2>7. ASSUME NEW i \in Items
        PROVE  Attended(t, i)
    <3>1. CASE i \in Taken(s)
      <4>1. s.work[i] = "queued"
        BY <3>1 DEF Taken, Fresh, Queued
      <4>2. Attended(s, i) /\ i \in Flight(t)
        BY <2>3, <2>4, <3>1 DEF Owned, Flight
      <4> QED
        BY <2>2, <2>5, <2>6, <3>1, <4>1, <4>2 DEF Attended
    <3>2. CASE i \notin Taken(s)
      <4>1. Attended(s, i) /\ (i \in Flight(t) <=> i \in Flight(s))
        BY <2>2, <3>2 DEF Owned, Flight
      <4> QED
        BY <2>2, <2>5, <2>6, <3>2, <4>1 DEF Attended
    <3> QED
      BY <3>1, <3>2
  <2> QED
    BY <2>2, <2>7 DEF Owned, t
<1> QED
  BY <1>1, <1>2

(* The end of an admission. *)
LEMMA SettleOwned ==
  ASSUME NEW s, NEW i \in Items, Closing(s, i), overdue = {}
  PROVE  Owned(Settle(s, i))
<1> DEFINE t == [s EXCEPT !.adm[i] = NotAdmitting, !.admitting = FALSE]
<1>1. NotAdmitting \in Admission /\ NotAdmitting.at = "none"
  BY RuntimesAssumption DEF NotAdmitting, Admission, AdmissionSteps
<1>2. s \in GpuState
  BY DEF Closing
<1>3. t \in GpuState
  BY <1>1, <1>2 DEF GpuState
<1>4. /\ t.work = s.work /\ t.pending = s.pending /\ t.answer = s.answer
      /\ t.lease = s.lease /\ t.adm[i].at = "none"
      /\ \A j \in Items : j # i => t.adm[j] = s.adm[j]
  BY <1>1, <1>2 DEF GpuState
<1>5. Settle(s, i) = Pump(t)
  BY DEF Settle
<1> HIDE DEF t
<1>6. i \notin Flight(t) /\ \A j \in Items \ {i} : j \in Flight(t) <=> j \in Flight(s)
  BY <1>4 DEF Flight
<1>7. Owned(t)
  BY <1>3, <1>4, <1>6 DEF Owned, Attended, Closing
<1> QED
  BY <1>5, <1>7, PumpOwned

(* The refusal of an admission: row, answer and pending entry end together. *)
LEMMA AdmissionFailsOwned ==
  ASSUME NEW s, Owned(s), NEW i \in Flight(s), overdue = {},
         NEW outcome \in Final, NEW code \in Refusals
  PROVE  Owned(AdmissionFails(s, i, outcome, code))
<1> DEFINE t == Cleanup(Reject(Finish(s, i, outcome), i, code), i)
<1>1. s \in GpuState /\ i \in Items
  BY DEF Owned, Flight
<1>2. t \in GpuState
  <2>1. Finish(s, i, outcome) \in GpuState
    BY <1>1, FinishEvolves DEF Evolves
  <2>2. Reject(Finish(s, i, outcome), i, code) \in GpuState
    BY <1>1, <2>1, RejectEvolves DEF Evolves
  <2> QED
    BY <1>1, <2>2, CleanupEvolves DEF Evolves
<1>3. /\ t.lease = s.lease /\ t.adm = s.adm /\ t.pending = s.pending \ {i}
      /\ t.work[i] \notin Live /\ t.answer[i] # "waiting"
      /\ \A j \in Items \ {i} : t.work[j] = s.work[j] /\ t.answer[j] = s.answer[j]
  BY <1>1 DEF Cleanup, Reject, Finish, GpuState, Final, Refusals, Live
<1>4. AdmissionFails(s, i, outcome, code) = Settle(t, i)
  BY DEF AdmissionFails
<1> HIDE DEF t
<1>5. Flight(t) = Flight(s)
  BY <1>3 DEF Flight
<1>6. Closing(t, i)
  BY <1>1, <1>2, <1>3, <1>5 DEF Closing, Owned, Attended, Live
<1> QED
  BY <1>1, <1>4, <1>6, SettleOwned

(* pending.resolve gives the caller who waits its lease. *)
LEMMA GrantOwned ==
  ASSUME NEW s, Owned(s), NEW i \in Flight(s), overdue = {}
  PROVE  Owned(Grant(s, i))
<1> DEFINE t == [s EXCEPT !.answer[i] = IF @ = "waiting" THEN "lease" ELSE @,
                          !.lease[i] = IF s.answer[i] = "waiting"
                                         THEN "held" ELSE "lost"]
<1>1. s \in GpuState /\ i \in Items
  BY DEF Owned, Flight
<1>2. t \in GpuState
  BY <1>1 DEF GpuState
<1>3. s.answer[i] = "waiting"
  BY <1>1 DEF Owned, Attended
<1>4. /\ t.work = s.work /\ t.pending = s.pending /\ t.adm = s.adm
      /\ t.answer[i] = "lease" /\ t.lease[i] = "held"
      /\ \A j \in Items \ {i} : t.lease[j] = s.lease[j] /\ t.answer[j] = s.answer[j]
  BY <1>1, <1>3 DEF GpuState
<1>5. Grant(s, i) = Settle(t, i)
  BY DEF Grant
<1> HIDE DEF t
<1>6. Flight(t) = Flight(s)
  BY <1>4 DEF Flight
<1>7. Closing(t, i)
  BY <1>1, <1>2, <1>4, <1>6 DEF Closing, Owned, Attended
<1> QED
  BY <1>1, <1>5, <1>7, SettleOwned

LEMMA RuntimeReadyOwned ==
  ASSUME NEW s, Owned(s), NEW i \in Flight(s), overdue = {}, Model[i] # OneShot
  PROVE  Owned(RuntimeReady(s, i))
<1> DEFINE r == Model[i]
           t == [s EXCEPT !.active[r] = @ + 1, !.ids[r] = @ \cup {i}]
           u == ScheduleIdleUnload(s, r)
<1>1. s \in GpuState /\ i \in Items /\ r \in Runtimes
  BY RequestsAssumption DEF Owned, Flight
<1>2. t \in GpuState
  <2>1. s.active[r] + 1 \in Nat /\ s.ids[r] \cup {i} \in SUBSET Items
    BY <1>1 DEF GpuState
  <2>2. [s EXCEPT !.active[r] = s.active[r] + 1, !.ids[r] = s.ids[r] \cup {i}]
          \in GpuState
    BY <1>1, <2>1, SetSlotsEvolves DEF Evolves
  <2>3. t = [s EXCEPT !.active[r] = s.active[r] + 1, !.ids[r] = s.ids[r] \cup {i}]
    BY <1>1 DEF GpuState
  <2> QED
    BY <2>2, <2>3
<1>3. u \in GpuState
  BY <1>1, ScheduleEvolves DEF Evolves
<1>4. /\ t.work = s.work /\ t.pending = s.pending /\ t.answer = s.answer
      /\ t.lease = s.lease /\ t.adm = s.adm
      /\ u.work = s.work /\ u.pending = s.pending /\ u.answer = s.answer
      /\ u.lease = s.lease /\ u.adm = s.adm
  BY <1>1 DEF ScheduleIdleUnload, GpuState
<1>5. RuntimeReady(s, i) =
        IF i \in s.aborted THEN AdmissionFails(u, i, "cancelled", "e499")
                           ELSE Grant(t, i)
  BY DEF RuntimeReady
<1> HIDE DEF t, u
<1>6. /\ Owned(t) /\ i \in Flight(t)
      /\ Owned(u) /\ i \in Flight(u)
  BY <1>2, <1>3, <1>4, OwnedElsewhere
<1>7. Owned(Grant(t, i)) /\ Owned(AdmissionFails(u, i, "cancelled", "e499"))
  BY <1>6, GrantOwned, AdmissionFailsOwned DEF Final, Refusals
<1> QED
  BY <1>5, <1>7

LEMMA OneShotReadyOwned ==
  ASSUME NEW s, Owned(s), NEW i \in Flight(s), overdue = {}
  PROVE  Owned(OneShotReady(s, i))
<1> DEFINE t == [s EXCEPT !.oneShot = i]
<1>1. s \in GpuState /\ i \in Items
  BY DEF Owned, Flight
<1>2. t \in GpuState
  BY <1>1 DEF GpuState
<1>3. /\ t.work = s.work /\ t.pending = s.pending /\ t.answer = s.answer
      /\ t.lease = s.lease /\ t.adm = s.adm
  BY <1>1 DEF GpuState
<1>4. OneShotReady(s, i) =
        IF i \in s.aborted THEN AdmissionFails(s, i, "cancelled", "e499")
                           ELSE Grant(t, i)
  BY DEF OneShotReady
<1> HIDE DEF t
<1>5. Owned(t) /\ i \in Flight(t)
  BY <1>2, <1>3, OwnedElsewhere
<1>6. Owned(Grant(t, i)) /\ Owned(AdmissionFails(s, i, "cancelled", "e499"))
  BY <1>5, GrantOwned, AdmissionFailsOwned DEF Final, Refusals
<1> QED
  BY <1>4, <1>6

LEMMA SetStateOwned ==
  ASSUME NEW s, Owned(s), NEW r, NEW value \in RuntimeStates
  PROVE  /\ Owned([s EXCEPT !.state[r] = value])
         /\ Flight([s EXCEPT !.state[r] = value]) = Flight(s)
<1> DEFINE t == [s EXCEPT !.state[r] = value]
<1>1. s \in GpuState
  BY DEF Owned
<1>2. t \in GpuState
  BY <1>1, SetStateEvolves DEF Evolves
<1>3. /\ t.work = s.work /\ t.pending = s.pending /\ t.answer = s.answer
      /\ t.lease = s.lease /\ t.adm = s.adm
  BY <1>1 DEF GpuState
<1> HIDE DEF t
<1>4. Owned(t) /\ Flight(t) = Flight(s)
  BY <1>2, <1>3, OwnedElsewhere
<1> QED
  BY <1>4 DEF t

LEMMA BeginStopOwned ==
  ASSUME NEW s, Owned(s), NEW r \in 0..N
  PROVE  Owned(BeginStop(s, r)) /\ Flight(BeginStop(s, r)) = Flight(s)
<1> DEFINE t == BeginStop(s, r)
<1>1. s \in GpuState
  BY DEF Owned
<1>2. t \in GpuState
  BY <1>1, BeginStopEvolves DEF Evolves
<1>3. /\ t.work = s.work /\ t.pending = s.pending /\ t.answer = s.answer
      /\ t.lease = s.lease /\ t.adm = s.adm
  BY <1>1 DEF BeginStop, GpuState
<1> HIDE DEF t
<1>4. Owned(t) /\ Flight(t) = Flight(s)
  BY <1>2, <1>3, OwnedElsewhere
<1> QED
  BY <1>4 DEF t

(* The next await of an admission. *)
LEMMA SetAdmissionOwned ==
  ASSUME NEW s, Owned(s), NEW i \in Flight(s), NEW a \in Admission, a.at # "none"
  PROVE  Owned([s EXCEPT !.adm[i] = a])
<1> DEFINE t == [s EXCEPT !.adm[i] = a]
<1>1. s \in GpuState /\ i \in Items
  BY DEF Owned, Flight
<1>2. t \in GpuState
  BY <1>1 DEF GpuState
<1>3. /\ t.work = s.work /\ t.pending = s.pending /\ t.answer = s.answer
      /\ t.lease = s.lease /\ t.adm[i] = a
      /\ \A j \in Items : j # i => t.adm[j] = s.adm[j]
  BY <1>1 DEF GpuState
<1> HIDE DEF t
<1>4. Flight(t) = Flight(s)
  BY <1>1, <1>3 DEF Flight
<1>5. Owned(t)
  BY <1>2, <1>3, <1>4 DEF Owned, Attended
<1> QED
  BY <1>5 DEF t

LEMMA LoadFailsOwned ==
  ASSUME NEW s, Owned(s), NEW i \in Flight(s), NEW code \in Refusals, overdue = {}
  PROVE  Owned(LoadFails(s, i, code))
<1> DEFINE t == [s EXCEPT !.state[Model[i]] = "failed"]
<1>1. Owned(t) /\ Flight(t) = Flight(s)
  BY SetStateOwned DEF RuntimeStates
<1>2. LoadFails(s, i, code) = AdmissionFails(t, i, "failed", code)
  BY DEF LoadFails
<1> HIDE DEF t
<1> QED
  BY <1>1, <1>2, AdmissionFailsOwned DEF Final

LEMMA SweepDoneOwned ==
  ASSUME NEW s, Owned(s), NEW i \in Flight(s), NEW adopt \in BOOLEAN, overdue = {}
  PROVE  Owned(SweepDone(s, i, adopt))
<1> DEFINE start == [at |-> "startCmd", pos |-> 0, adopt |-> FALSE]
           t == [s EXCEPT !.state[Model[i]] = "loaded"]
           u == [s EXCEPT !.state[Model[i]] = "loading"]
           v == [u EXCEPT !.adm[i] = start]
<1>1. CASE Model[i] = OneShot
  BY <1>1, OneShotReadyOwned DEF SweepDone
<1>2. CASE Model[i] # OneShot
  <2>1. s \in GpuState
    BY DEF Owned
  <2>2. SweepDone(s, i, adopt) =
          IF adopt THEN RuntimeReady(t, i)
          ELSE IF i \in s.aborted THEN AdmissionFails(s, i, "failed", "e499")
          ELSE v
    BY <1>2, <2>1 DEF SweepDone, GpuState
  <2>3. /\ Owned(t) /\ Flight(t) = Flight(s)
        /\ Owned(u) /\ Flight(u) = Flight(s)
    BY SetStateOwned DEF RuntimeStates
  <2>4. start \in Admission /\ start.at # "none"
    BY RuntimesAssumption DEF Admission, AdmissionSteps
  <2> HIDE DEF t, u, start
  <2>5. Owned(v)
    BY <2>3, <2>4, SetAdmissionOwned
  <2> HIDE DEF v
  <2>6. Owned(RuntimeReady(t, i))
    BY <1>2, <2>3, RuntimeReadyOwned
  <2>7. Owned(AdmissionFails(s, i, "failed", "e499"))
    BY AdmissionFailsOwned DEF Final, Refusals
  <2> QED
    BY <2>2, <2>5, <2>6, <2>7
<1> QED
  BY <1>1, <1>2

LEMMA SweepOnOwned ==
  ASSUME NEW s, Owned(s), NEW i \in Flight(s), NEW pos \in 0..N,
         NEW adopt \in BOOLEAN, overdue = {}
  PROVE  Owned(SweepOn(s, i, pos, adopt))
<1> DEFINE rest == {r \in Runtimes : r > pos /\ r # Model[i]}
           next == CHOOSE r \in rest : \A q \in rest : r <= q
           stop == [at |-> "stopCmd", pos |-> next, adopt |-> adopt]
           look == [at |-> "sweepProbe", pos |-> next, adopt |-> adopt]
           t == BeginStop(s, next)
<1>1. CASE rest = {}
  BY <1>1, SweepDoneOwned DEF SweepOn
<1>2. CASE rest # {}
  <2>1. next \in rest
    <3>1. \E r \in rest : \A q \in rest : r <= q
      BY <1>2, FirstRuntime
    <3> HIDE DEF rest
    <3> QED
      BY <3>1
  <2>2. \/ SweepOn(s, i, pos, adopt) = AdmissionFails(s, i, "failed", "e503")
        \/ SweepOn(s, i, pos, adopt) = [t EXCEPT !.adm[i] = stop]
        \/ SweepOn(s, i, pos, adopt) = [s EXCEPT !.adm[i] = look]
    <3> HIDE DEF next
    <3> QED
      BY <1>2 DEF SweepOn, next
  <2>3. next \in 0..N
    BY <2>1, RuntimesAssumption DEF Runtimes
  <2> HIDE DEF next
  <2>4. stop \in Admission /\ look \in Admission
        /\ stop.at # "none" /\ look.at # "none"
    BY <2>3 DEF Admission, AdmissionSteps
  <2>5. Owned(t) /\ Flight(t) = Flight(s)
    BY <2>3, BeginStopOwned
  <2> HIDE DEF t, stop, look
  <2>6. Owned([t EXCEPT !.adm[i] = stop]) /\ Owned([s EXCEPT !.adm[i] = look])
    BY <2>4, <2>5, SetAdmissionOwned
  <2>7. Owned(AdmissionFails(s, i, "failed", "e503"))
    BY AdmissionFailsOwned DEF Final, Refusals
  <2> QED
    BY <2>2, <2>6, <2>7
<1> QED
  BY <1>1, <1>2

-----------------------------------------------------------------------------
(* Releases and cancellations *)

(* The release callback of a lease. *)
LEMMA ReleasedOwned ==
  ASSUME NEW s, Owned(s), NEW i \in Items, s.lease[i] = "held",
         NEW outcome \in Final
  PROVE  Owned(Released(s, i, outcome))
<1> DEFINE t == Released(s, i, outcome)
<1>1. s \in GpuState
  BY DEF Owned
<1>2. t \in GpuState
  BY <1>1, ReleasedEvolves DEF Evolves
<1>3. /\ t.answer = s.answer /\ t.adm = s.adm /\ t.pending = s.pending \ {i}
      /\ t.lease[i] = "released" /\ t.work[i] \notin Live
      /\ \A j \in Items \ {i} : t.work[j] = s.work[j] /\ t.lease[j] = s.lease[j]
  <2> DEFINE a == [s EXCEPT !.lease[i] = "released"]
             b == FreeSlot(a, i)
             c == Finish(b, i, outcome)
             d == Cleanup(c, i)
  <2>1. a \in GpuState
    BY <1>1 DEF GpuState
  <2>2. /\ a.answer = s.answer /\ a.adm = s.adm /\ a.pending = s.pending
        /\ a.work = s.work /\ a.lease[i] = "released"
        /\ \A j \in Items \ {i} : a.lease[j] = s.lease[j]
    BY <1>1 DEF GpuState
  <2>3. t = IF Model[i] = OneShot THEN d ELSE ScheduleIdleUnload(d, Model[i])
    BY DEF Released
  <2> HIDE DEF a
  <2>4. /\ b.answer = a.answer /\ b.adm = a.adm /\ b.pending = a.pending
        /\ b.work = a.work /\ b.lease = a.lease
    BY <2>1 DEF FreeSlot, GpuState
  <2>5. b \in GpuState
    BY <2>1, FreeSlotEvolves DEF Evolves
  <2> HIDE DEF b
  <2>6. /\ c.answer = b.answer /\ c.adm = b.adm /\ c.pending = b.pending
        /\ c.lease = b.lease /\ c.work[i] \notin Live
        /\ \A j \in Items \ {i} : c.work[j] = b.work[j]
    BY <2>5 DEF Finish, GpuState, Live, Final
  <2>7. c \in GpuState
    BY <2>5, FinishEvolves DEF Evolves
  <2> HIDE DEF c
  <2>8. /\ d.answer = c.answer /\ d.adm = c.adm /\ d.pending = c.pending \ {i}
        /\ d.lease = c.lease /\ d.work = c.work
    BY <2>7 DEF Cleanup, GpuState
  <2>9. d \in GpuState
    BY <2>7, CleanupEvolves DEF Evolves
  <2> HIDE DEF d, t
  <2>10. /\ t.answer = d.answer /\ t.adm = d.adm /\ t.pending = d.pending
         /\ t.lease = d.lease /\ t.work = d.work
    BY <2>3, <2>9 DEF ScheduleIdleUnload, GpuState
  <2> QED
    BY <2>2, <2>4, <2>6, <2>8, <2>10
<1> HIDE DEF t
<1>4. Flight(t) = Flight(s)
  BY <1>3 DEF Flight
<1>5. Owned(t)
  BY <1>2, <1>3, <1>4 DEF Owned, Attended, Live
<1> QED
  BY <1>5 DEF t

(* finishWorkItem of a row that is no longer queued leaves its holder, or   *)
(* its admission, to end it.                                                *)
LEMMA FinishOwned ==
  ASSUME NEW s, Owned(s), NEW i \in Items, s.work[i] # "queued",
         NEW outcome \in Final
  PROVE  Owned(Finish(s, i, outcome))
<1> DEFINE t == Finish(s, i, outcome)
<1>1. s \in GpuState
  BY DEF Owned
<1>2. t \in GpuState
  BY <1>1, FinishEvolves DEF Evolves
<1>3. /\ t.answer = s.answer /\ t.adm = s.adm /\ t.pending = s.pending
      /\ t.lease = s.lease /\ t.work[i] \notin Live
      /\ \A j \in Items \ {i} : t.work[j] = s.work[j]
  BY <1>1 DEF Finish, GpuState, Live, Final
<1> HIDE DEF t
<1>4. Flight(t) = Flight(s)
  BY <1>3 DEF Flight
<1>5. Owned(t)
  BY <1>2, <1>3, <1>4 DEF Owned, Attended, Live
<1> QED
  BY <1>5 DEF t

(* cancelWorkItem. *)
LEMMA CancelledOwned ==
  ASSUME NEW s, Owned(s), NEW i \in Items,
         NEW outcome \in Final, NEW now \in BOOLEAN
  PROVE  Owned(Cancelled(s, i, outcome, now))
<1> DEFINE code == CASE outcome = "timed_out" -> "e504"
                     [] outcome = "cancelled" -> "e499"
                     [] OTHER -> "e503"
           f == Finish(s, i, outcome)
           t == [f EXCEPT !.aborted = IF i \in s.pending THEN @ \cup {i} ELSE @]
           w == Cleanup(Reject(t, i, code), i)
<1>1. s \in GpuState /\ Attended(s, i)
  BY DEF Owned
<1>2. code \in Refusals
  BY DEF Refusals
<1>3. /\ i \in s.pending /\ s.work[i] = "queued" =>
           Cancelled(s, i, outcome, now) = w
      /\ ~(i \in s.pending /\ s.work[i] = "queued") =>
           \/ /\ s.lease[i] = "held"
              /\ Cancelled(s, i, outcome, now) = Released(t, i, "cancelled")
           \/ Cancelled(s, i, outcome, now) = t
  <2>1. s.work[i] = "queued" => s.lease[i] # "held"
    BY <1>1 DEF Attended
  <2> HIDE DEF code, f, t
  <2>2. CASE i \in s.pending /\ s.work[i] = "queued"
    BY <2>1, <2>2 DEF Cancelled, code, f, t
  <2>3. CASE ~(i \in s.pending /\ s.work[i] = "queued")
    BY <2>3 DEF Cancelled, code, f, t
  <2> QED
    BY <2>2, <2>3
<1>4. f \in GpuState
  BY <1>1, FinishEvolves DEF Evolves
<1>5. /\ f.answer = s.answer /\ f.adm = s.adm /\ f.pending = s.pending
      /\ f.lease = s.lease /\ f.work[i] \notin Live
      /\ \A j \in Items \ {i} : f.work[j] = s.work[j]
  BY <1>1 DEF Finish, GpuState, Live, Final
<1>6. s.work[i] # "queued" => Owned(f)
  BY FinishOwned
<1> HIDE DEF code, f
<1>7. /\ t \in GpuState /\ t.answer = f.answer /\ t.adm = f.adm
      /\ t.pending = f.pending /\ t.lease = f.lease /\ t.work = f.work
  BY <1>4 DEF GpuState
<1> HIDE DEF t
<1>8. CASE i \in s.pending /\ s.work[i] = "queued"
  <2>1. /\ w.adm = t.adm /\ w.lease = t.lease /\ w.work = t.work
        /\ w.pending = t.pending \ {i}
        /\ w.answer[i] = IF t.answer[i] = "waiting" THEN code ELSE t.answer[i]
        /\ \A j \in Items \ {i} : w.answer[j] = t.answer[j]
    BY <1>7 DEF Cleanup, Reject, GpuState
  <2>2. w \in GpuState
    <3>1. Reject(t, i, code) \in GpuState
      BY <1>2, <1>7, RejectEvolves DEF Evolves
    <3> QED
      BY <3>1, CleanupEvolves DEF Evolves
  <2> HIDE DEF w
  <2>3. Flight(w) = Flight(s)
    BY <1>5, <1>7, <2>1 DEF Flight
  <2>4. code \notin {"none", "waiting"}
    BY <1>2 DEF Refusals
  <2>5. \A j \in Items \ {i} : Attended(w, j)
    BY <1>5, <1>7, <2>1, <2>3 DEF Owned, Attended
  <2>6. Attended(w, i)
    BY <1>1, <1>5, <1>7, <1>8, <2>1, <2>3, <2>4 DEF Attended, Live
  <2> QED
    BY <1>3, <1>8, <2>2, <2>5, <2>6 DEF Owned
<1>9. CASE ~(i \in s.pending /\ s.work[i] = "queued")
  <2>1. Owned(t)
    BY <1>1, <1>6, <1>7, <1>9, OwnedElsewhere DEF Attended
  <2>2. s.lease[i] = "held" => Owned(Released(t, i, "cancelled"))
    BY <1>5, <1>7, <2>1, ReleasedOwned DEF Final
  <2> QED
    BY <1>3, <1>9, <2>1, <2>2
<1> QED
  BY <1>8, <1>9

(* acquire inserts a row with its pending entry and its waiting caller. *)
LEMMA EnqueueOwned ==
  ASSUME NEW s, Owned(s), NEW i \in Items, s.answer[i] = "none",
         NEW t \in GpuState,
         t = [s EXCEPT !.work[i] = "queued", !.born[i] = s.rows + 1,
                       !.rows = @ + 1, !.pending = @ \cup {i},
                       !.answer[i] = "waiting"]
  PROVE  Owned(t)
<1>1. s \in GpuState
  BY DEF Owned
<1>2. /\ t.pending = s.pending \cup {i}
      /\ t.lease = s.lease /\ t.adm = s.adm
      /\ t.work[i] = "queued" /\ t.answer[i] = "waiting"
      /\ \A j \in Items \ {i} :
           t.work[j] = s.work[j] /\ t.answer[j] = s.answer[j]
  BY <1>1 DEF GpuState
<1>3. Flight(t) = Flight(s)
  BY <1>2 DEF Flight
<1> QED
  BY <1>2, <1>3 DEF Owned, Attended

-----------------------------------------------------------------------------
(* The steps of the system *)

LEMMA CallsOwned ==
  ASSUME IInv, overdue = {}, Owned(gpu), NEW i \in Items,
         \/ Acquire(i) \/ AcquireRefused(i) \/ Release(i)
         \/ Cancel(i) \/ QueueTimeout(i)
  PROVE  Owned(gpu')
<1>1. gpu \in GpuState
  BY DEF Owned
<1>2. CASE Acquire(i)
  <2> DEFINE t == [gpu EXCEPT !.work[i] = "queued", !.born[i] = gpu.rows + 1,
                              !.rows = @ + 1, !.pending = @ \cup {i},
                              !.answer[i] = "waiting"]
  <2>1. gpu' = Pump(t) /\ gpu.answer[i] = "none"
    BY <1>2 DEF Acquire
  <2>2. gpu.work[i] \notin Final
    BY <2>1 DEF IInv, NoRowBeforeCall, Final
  <2>3. t \in GpuState
    BY <1>1, <2>2, EnqueueEvolves
  <2>4. Owned(t)
    BY <2>1, <2>3, EnqueueOwned
  <2> HIDE DEF t
  <2> QED
    BY <2>1, <2>4, PumpOwned
<1>3. CASE AcquireRefused(i)
  <2>1. PICK code \in {"e404", "e499"} : gpu' = [gpu EXCEPT !.answer[i] = code]
    BY <1>3 DEF AcquireRefused
  <2>2. gpu.answer[i] = "none" /\ gpu.work[i] = "absent"
    BY <1>3 DEF AcquireRefused, IInv, NoRowBeforeCall
  <2>3. gpu' \in GpuState
    BY <1>1, <2>1 DEF GpuState, Refusals
  <2>4. /\ gpu'.work = gpu.work /\ gpu'.pending = gpu.pending
        /\ gpu'.lease = gpu.lease /\ gpu'.adm = gpu.adm
        /\ gpu'.answer[i] \notin {"none", "waiting"}
        /\ \A j \in Items \ {i} : gpu'.answer[j] = gpu.answer[j]
    BY <1>1, <2>1 DEF GpuState
  <2>5. Flight(gpu') = Flight(gpu)
    BY <2>4 DEF Flight
  <2> QED
    BY <2>2, <2>3, <2>4, <2>5 DEF Owned, Attended
<1>4. CASE Release(i)
  <2>1. PICK outcome \in {"succeeded", "failed", "cancelled"} :
           gpu' = Pump(Released(gpu, i, outcome))
    BY <1>4 DEF Release
  <2>2. Owned(Released(gpu, i, outcome))
    BY <1>4, ReleasedOwned DEF Release, Final
  <2> QED
    BY <2>1, <2>2, PumpOwned
<1>5. CASE Cancel(i) \/ QueueTimeout(i)
  <2>1. PICK outcome \in {"cancelled", "timed_out"}, now \in BOOLEAN :
           gpu' = Pump(Cancelled(gpu, i, outcome, now))
    BY <1>5 DEF Cancel, QueueTimeout
  <2>2. outcome \in Final
    BY DEF Final
  <2>3. Owned(Cancelled(gpu, i, outcome, now))
    BY <2>2, CancelledOwned
  <2> QED
    BY <2>1, <2>3, PumpOwned
<1> QED
  BY <1>2, <1>3, <1>4, <1>5

LEMMA AdmissionOwned ==
  ASSUME IInv, overdue = {}, Owned(gpu), NEW i \in Items, AdmissionStep(i)
  PROVE  Owned(gpu')
<1> DEFINE a == gpu.adm[i]
<1>1. /\ gpu \in GpuState
      /\ a \in Admission
      /\ a.pos \in 0..N
      /\ a.adopt \in BOOLEAN
      /\ 0 \in 0..N
  BY RuntimesAssumption DEF IInv, TypeOK, GpuState, Admission
<1>2. a.at # "none" => i \in Flight(gpu)
  BY DEF Flight
<1>3. ASSUME NEW s, Owned(s), i \in Flight(s),
             NEW step \in AdmissionSteps \ {"none"}, s.adm = gpu.adm
      PROVE  Owned([s EXCEPT !.adm[i].at = step])
  <2> DEFINE b == [a EXCEPT !.at = step]
  <2>1. b \in Admission /\ b.at # "none"
    BY <1>1 DEF Admission
  <2>2. [s EXCEPT !.adm[i].at = step] = [s EXCEPT !.adm[i] = b]
    BY <1>3
  <2> HIDE DEF b
  <2>3. Owned([s EXCEPT !.adm[i] = b])
    BY <1>3, <2>1, SetAdmissionOwned
  <2> QED
    BY <2>2, <2>3
<1>4. ASSUME NEW s, Owned(s), i \in Flight(s)
      PROVE  Owned(SweepOn(s, i, a.pos, a.adopt))
  <2> HIDE DEF a
  <2> QED
    BY <1>1, <1>4, SweepOnOwned
<1>5. CASE CheckHealth(i)
  <2>1. i \in Flight(gpu) /\ Model[i] # OneShot
    BY <1>2, <1>5 DEF CheckHealth, IInv, OneShotsOnlySweep
  <2>2. Owned(RuntimeReady(gpu, i))
    BY <2>1, RuntimeReadyOwned
  <2>3. Owned([gpu EXCEPT !.adm[i].at = "probe"])
    BY <1>3, <2>1 DEF AdmissionSteps
  <2> QED
    BY <1>5, <2>2, <2>3 DEF CheckHealth
<1>6. CASE ProbeHealth(i)
  <2>1. i \in Flight(gpu) /\ Up(Model[i]) \in BOOLEAN
    BY <1>2, <1>6 DEF ProbeHealth, Up
  <2>2. Owned(SweepOn(gpu, i, 0, Up(Model[i])))
    BY <1>1, <2>1, SweepOnOwned
  <2> QED
    BY <1>6, <2>2 DEF ProbeHealth
<1>7. CASE SweepProbe(i)
  <2> DEFINE value == IF gpu.state[a.pos] = "failed" THEN "failed" ELSE "unloaded"
             down == [gpu EXCEPT !.state[a.pos] = value]
             used == [gpu EXCEPT !.idle = @ \ {a.pos}]
             stop == BeginStop(gpu, a.pos)
  <2>1. \/ gpu' = SweepOn(down, i, a.pos, a.adopt)
        \/ gpu' = SweepOn(used, i, a.pos, a.adopt)
        \/ gpu' = [stop EXCEPT !.adm[i].at = "stopCmd"]
    BY <1>7 DEF SweepProbe
  <2>2. i \in Flight(gpu)
    BY <1>2, <1>7 DEF SweepProbe
  <2>3. value \in RuntimeStates
    BY DEF RuntimeStates
  <2>4. used \in GpuState
    BY <1>1 DEF GpuState
  <2>5. /\ used.work = gpu.work /\ used.pending = gpu.pending
        /\ used.answer = gpu.answer /\ used.lease = gpu.lease
        /\ used.adm = gpu.adm
    BY <1>1 DEF GpuState
  <2>6. stop.adm = gpu.adm
    BY <1>1 DEF BeginStop, GpuState
  <2> HIDE DEF value
  <2>7. Owned(down) /\ Flight(down) = Flight(gpu)
    BY <2>3, SetStateOwned
  <2>8. Owned(stop) /\ Flight(stop) = Flight(gpu)
    BY <1>1, BeginStopOwned
  <2> HIDE DEF down, used, stop
  <2>9. Owned(used) /\ Flight(used) = Flight(gpu)
    BY <2>4, <2>5, OwnedElsewhere
  <2>10. Owned([stop EXCEPT !.adm[i].at = "stopCmd"])
    BY <1>3, <2>2, <2>6, <2>8 DEF AdmissionSteps
  <2> QED
    BY <1>4, <2>1, <2>2, <2>7, <2>9, <2>10
<1>8. CASE SweepStopCommand(i) \/ StartCommand(i)
  <2>1. i \in Flight(gpu)
    BY <1>2, <1>8 DEF SweepStopCommand, StartCommand
  <2>2. /\ Owned([gpu EXCEPT !.adm[i].at = "stopWait"])
        /\ Owned([gpu EXCEPT !.adm[i].at = "startWait"])
    BY <1>3, <2>1 DEF AdmissionSteps
  <2> QED
    BY <1>8, <2>2 DEF SweepStopCommand, StartCommand
<1>9. CASE SweepStopped(i) \/ SweepStopFails(i)
  <2>1. PICK value \in RuntimeStates :
           gpu' = SweepOn([gpu EXCEPT !.state[a.pos] = value], i, a.pos, a.adopt)
    BY <1>9 DEF SweepStopped, SweepStopFails, RuntimeStates
  <2> DEFINE s == [gpu EXCEPT !.state[a.pos] = value]
  <2>2. Owned(s) /\ Flight(s) = Flight(gpu)
    BY SetStateOwned
  <2>3. i \in Flight(gpu)
    BY <1>2, <1>9 DEF SweepStopped, SweepStopFails
  <2> HIDE DEF s
  <2>4. Owned(SweepOn(s, i, a.pos, a.adopt))
    BY <1>4, <2>2, <2>3
  <2> QED
    BY <2>1, <2>4 DEF s
<1>10. CASE StartCommandFails(i) \/ LoadAborted(i) \/ LoadTimesOut(i)
  <2>1. PICK code \in Refusals : gpu' = LoadFails(gpu, i, code)
    BY <1>10 DEF StartCommandFails, LoadAborted, LoadTimesOut, Refusals
  <2>2. i \in Flight(gpu)
    BY <1>2, <1>10 DEF StartCommandFails, LoadAborted, LoadTimesOut
  <2> QED
    BY <2>1, <2>2, LoadFailsOwned
<1>11. CASE LoadHealthy(i)
  <2> DEFINE s == [gpu EXCEPT !.state[Model[i]] = "loaded"]
  <2>1. Owned(s) /\ Flight(s) = Flight(gpu)
    BY SetStateOwned DEF RuntimeStates
  <2>2. gpu' = RuntimeReady(s, i)
    BY <1>11 DEF LoadHealthy
  <2>3. i \in Flight(gpu) /\ Model[i] # OneShot
    BY <1>2, <1>11 DEF LoadHealthy, IInv, OneShotsOnlySweep
  <2> HIDE DEF s
  <2> QED
    BY <2>1, <2>2, <2>3, RuntimeReadyOwned
<1>12. CASE RefusedSettles(i)
  <2> DEFINE s == [gpu EXCEPT !.refusing = @ \ {i}, !.admitting = FALSE]
  <2>1. s \in GpuState
    BY <1>1 DEF GpuState
  <2>2. /\ s.work = gpu.work /\ s.pending = gpu.pending
        /\ s.answer = gpu.answer /\ s.lease = gpu.lease /\ s.adm = gpu.adm
    BY <1>1 DEF GpuState
  <2>3. gpu' = Pump(s)
    BY <1>12 DEF RefusedSettles
  <2> HIDE DEF s
  <2>4. Owned(s)
    BY <2>1, <2>2, OwnedElsewhere
  <2> QED
    BY <2>3, <2>4, PumpOwned
<1> QED
  BY <1>5, <1>6, <1>7, <1>8, <1>9, <1>10, <1>11, <1>12 DEF AdmissionStep

(* forceUnloadRuntime: a holder it does not release keeps its lease, and    *)
(* releases it later.                                                       *)
LEMMA ForceUnloadOwned ==
  ASSUME overdue = {}, Owned(gpu), NEW r \in Runtimes, ForceUnload(r)
  PROVE  Owned(gpu')
<1>1. gpu \in GpuState
  BY DEF Owned
<1>2. PICK now \in SUBSET gpu.ids[r] :
       LET hit == gpu.ids[r]
           over == {i \in now : gpu.lease[i] = "held" /\ i \notin gpu.aborted}
           t == [gpu EXCEPT
                  !.work = [i \in Items |-> IF i \in hit /\ @[i] \in Live
                                              THEN "failed" ELSE @[i]],
                  !.aborted = @ \cup (hit \cap gpu.pending),
                  !.lease = [i \in Items |-> IF i \in over
                                               THEN "released" ELSE @[i]],
                  !.pending = @ \ over,
                  !.active[r] = IF @ > Cardinality(over)
                                  THEN @ - Cardinality(over) ELSE 0,
                  !.ids[r] = @ \ over]
       IN gpu' = BeginStop([Pump(t) EXCEPT !.active[r] = 0, !.ids[r] = {}], r)
  BY Zenon DEF ForceUnload
<1> DEFINE hit == gpu.ids[r]
           over == {i \in now : gpu.lease[i] = "held" /\ i \notin gpu.aborted}
           n == IF gpu.active[r] > Cardinality(over)
                  THEN gpu.active[r] - Cardinality(over) ELSE 0
           work == [i \in Items |-> IF i \in hit /\ gpu.work[i] \in Live
                                      THEN "failed" ELSE gpu.work[i]]
           lease == [i \in Items |-> IF i \in over
                                       THEN "released" ELSE gpu.lease[i]]
           active == [gpu.active EXCEPT ![r] = n]
           ids == [gpu.ids EXCEPT ![r] = @ \ over]
           aborted == gpu.aborted \cup (hit \cap gpu.pending)
           pending == gpu.pending \ over
           s == [gpu EXCEPT !.work = work, !.aborted = aborted, !.lease = lease]
           t == [s EXCEPT !.pending = pending, !.active = active, !.ids = ids]
           u == Pump(t)
           v == [u EXCEPT !.active[r] = 0, !.ids[r] = {}]
<1>3. gpu' = BeginStop(v, r)
  BY <1>2
<1>4. over \in SUBSET gpu.ids[r] /\ gpu.ids[r] \subseteq Items
      /\ \A i \in over : gpu.lease[i] = "held"
  BY <1>1 DEF GpuState
<1>5. n \in Nat
  <2>1. Cardinality(over) \in Nat /\ gpu.active[r] \in Nat
    BY <1>1, <1>4, ItemsAssumption, FS_Subset, FS_CardinalityType DEF GpuState
  <2> HIDE DEF over
  <2> QED
    BY <2>1
<1> HIDE DEF over, n
<1>6. /\ work \in [Items -> {"absent"} \cup Live \cup Final]
      /\ lease \in [Items -> {"none", "held", "released", "lost"}]
      /\ active \in [Runtimes -> Nat]
      /\ ids \in [Runtimes -> SUBSET Items]
      /\ aborted \in SUBSET Items
      /\ pending \in SUBSET Items
  BY <1>1, <1>5 DEF GpuState, Final
<1>7. /\ pending = gpu.pending \ over
      /\ over \subseteq hit
      /\ \A i \in Items :
           /\ i \notin hit => work[i] = gpu.work[i]
           /\ i \in hit => work[i] \notin Live
           /\ i \in over => lease[i] = "released" /\ gpu.lease[i] = "held"
           /\ i \notin over => lease[i] = gpu.lease[i]
  BY <1>4 DEF Live
<1> HIDE DEF work, lease, active, ids, aborted, pending, hit
<1>8. /\ s \in GpuState /\ s.work = work /\ s.lease = lease
      /\ s.answer = gpu.answer /\ s.adm = gpu.adm
  BY <1>1, <1>6 DEF GpuState
<1> HIDE DEF s
<1>9. /\ t \in GpuState /\ t.work = work /\ t.lease = lease
      /\ t.answer = gpu.answer /\ t.adm = gpu.adm /\ t.pending = pending
  BY <1>6, <1>8 DEF GpuState
<1> HIDE DEF t
<1>10. Flight(t) = Flight(gpu)
  BY <1>9 DEF Flight
<1>11. \A i \in Items : work[i] \in Live => i \notin hit /\ work[i] = gpu.work[i]
  BY <1>7
<1>12. ASSUME NEW i \in Items
       PROVE  Attended(t, i)
  <2>1. Attended(gpu, i)
    BY DEF Owned
  <2>2. CASE i \in over
    BY <1>7, <1>9, <1>10, <2>1, <2>2 DEF Attended, Live
  <2>3. CASE i \notin over
    BY <1>7, <1>9, <1>10, <1>11, <2>1, <2>3 DEF Attended, Live
  <2> QED
    BY <2>2, <2>3
<1>13. Owned(u) /\ u \in GpuState
  BY <1>9, <1>12, PumpOwned DEF Owned
<1> HIDE DEF u
<1>14. v \in GpuState
  BY <1>13, SetSlotsEvolves DEF Evolves
<1>15. /\ v.work = u.work /\ v.pending = u.pending /\ v.answer = u.answer
       /\ v.lease = u.lease /\ v.adm = u.adm
  BY <1>13 DEF GpuState
<1> HIDE DEF v
<1>16. Owned(v)
  BY <1>13, <1>14, <1>15, OwnedElsewhere
<1> QED
  BY <1>3, <1>16, BeginStopOwned, RuntimesAssumption DEF Runtimes

LEMMA RuntimesOwned ==
  ASSUME IInv, overdue = {}, Owned(gpu),
         RefreshApply \/ \E r \in Runtimes : RuntimeStep(r) /\ ~ForceUnload(r)
  PROVE  Owned(gpu')
<1>1. gpu \in GpuState
  BY DEF Owned
<1>2. CASE RefreshApply
  <2>1. gpu' \in GpuState
    BY <1>2, RefreshStep DEF Evolves
  <2>2. \E state : gpu' = [gpu EXCEPT !.state = state]
    BY <1>2 DEF RefreshApply
  <2>3. /\ gpu'.work = gpu.work /\ gpu'.pending = gpu.pending
        /\ gpu'.answer = gpu.answer /\ gpu'.lease = gpu.lease
        /\ gpu'.adm = gpu.adm
    BY <1>1, <2>2 DEF GpuState
  <2> QED
    BY <2>1, <2>3, OwnedElsewhere
<1>3. ASSUME NEW r \in Runtimes, RuntimeStep(r), ~ForceUnload(r)
      PROVE  Owned(gpu')
  <2>1. CASE UNCHANGED gpu
    BY <2>1 DEF Owned, Attended, Flight
  <2>2. CASE IdleFires(r)
    <3> DEFINE s == [gpu EXCEPT !.idle = @ \ {r}]
    <3>1. s \in GpuState
      BY <1>1 DEF GpuState
    <3>2. /\ s.work = gpu.work /\ s.pending = gpu.pending
          /\ s.answer = gpu.answer /\ s.lease = gpu.lease /\ s.adm = gpu.adm
      BY <1>1 DEF GpuState
    <3>3. gpu' = Pump(s) \/ gpu' = BeginStop(gpu, r)
      BY <2>2 DEF IdleFires
    <3> HIDE DEF s
    <3>4. Owned(s)
      BY <3>1, <3>2, OwnedElsewhere
    <3>5. Owned(BeginStop(gpu, r))
      BY BeginStopOwned, RuntimesAssumption DEF Runtimes
    <3> QED
      BY <3>3, <3>4, <3>5, PumpOwned
  <2>3. CASE IdleStopped(r) \/ IdleStopFails(r)
             \/ ForceStopped(r) \/ ForceStopFails(r)
    <3>1. PICK value \in RuntimeStates :
             gpu' = Pump([gpu EXCEPT !.state[r] = value])
      BY <2>3 DEF IdleStopped, IdleStopFails, ForceStopped, ForceStopFails,
                  RuntimeStates
    <3>2. Owned([gpu EXCEPT !.state[r] = value])
      BY SetStateOwned
    <3> QED
      BY <3>1, <3>2, PumpOwned
  <2> QED
    BY <1>3, <2>1, <2>2, <2>3
    DEF RuntimeStep, StopStep, IdleStopCommand, ForceStopCommand,
        RefreshProbe, ServiceReady, ServiceDies, ServiceStartedOutside
<1> QED
  BY <1>2, <1>3

-----------------------------------------------------------------------------
(* No orphaned work *)

LEMMA InitOwned == Init => overdue = {} /\ Owned(gpu)
<1> SUFFICES ASSUME Init PROVE overdue = {} /\ Owned(gpu)
  OBVIOUS
<1>1. gpu \in GpuState
  BY InitIInv DEF IInv, TypeOK
<1>2. /\ gpu.pending = {} /\ overdue = {}
      /\ \A i \in Items : /\ gpu.work[i] = "absent" /\ gpu.answer[i] = "none"
                          /\ gpu.lease[i] = "none" /\ gpu.adm[i].at = "none"
  BY DEF Init, NotAdmitting
<1> QED
  BY <1>1, <1>2 DEF Owned, Attended, Flight

LEMMA NextOwned ==
  ASSUME "late" \notin Events, IInv, overdue = {}, Owned(gpu), [Next]_vars
  PROVE  overdue' = {} /\ Owned(gpu')
<1>1. CASE UNCHANGED vars
  BY <1>1 DEF vars, Owned, Attended, Flight
<1>2. ASSUME NEW i \in Items, ItemStep(i)
      PROVE  overdue' = {} /\ Owned(gpu')
  <2>1. ~DeadlinePasses(i)
    BY DEF DeadlinePasses
  <2>2. CASE \/ Acquire(i) \/ AcquireRefused(i) \/ Release(i)
             \/ Cancel(i) \/ QueueTimeout(i)
    <3>1. overdue' = overdue
      BY <2>2, Zenon DEF Acquire, AcquireRefused, Release, Cancel, QueueTimeout
    <3> QED
      BY <2>2, <3>1, CallsOwned
  <2>3. CASE AdmissionStep(i)
    <3>1. overdue' = overdue
      BY <2>3, Zenon DEF AdmissionStep, CheckHealth, ProbeHealth, SweepProbe,
                  SweepStopCommand, SweepStopped, SweepStopFails, StartCommand,
                  StartCommandFails, LoadHealthy, LoadAborted, LoadTimesOut,
                  RefusedSettles
    <3> QED
      BY <2>3, <3>1, AdmissionOwned
  <2> QED
    BY <1>2, <2>1, <2>2, <2>3 DEF ItemStep
<1>3. ASSUME NEW r \in Runtimes, RuntimeStep(r)
      PROVE  overdue' = {} /\ Owned(gpu')
  <2>1. overdue' = overdue
    BY <1>3, Zenon
    DEF RuntimeStep, IdleFires, ForceUnload, StopStep, IdleStopCommand,
                IdleStopped, IdleStopFails, ForceStopCommand, ForceStopped,
                ForceStopFails, RefreshProbe, ServiceReady, ServiceDies,
                ServiceStartedOutside
  <2> QED
    BY <1>3, <2>1, ForceUnloadOwned, RuntimesOwned
<1>4. CASE RefreshApply
  <2>1. overdue' = overdue
    BY <1>4 DEF RefreshApply
  <2> QED
    BY <1>4, <2>1, RuntimesOwned
<1> QED
  BY <1>1, <1>2, <1>3, <1>4 DEF Next

(* Every live work item has somebody who will finish it, and pending        *)
(* entries neither leak nor go missing, whatever aborts, failed loads,      *)
(* service crashes and forced unloads come together.  An overdue queue head *)
(* is the exception: pump() then starts an item twice, and the second start *)
(* refuses the item that the first one still admits.                        *)
THEOREM NoWorkOrphaned ==
  ASSUME "late" \notin Events
  PROVE  Spec => []NoOrphanedWork
<1>1. Init => IInv /\ overdue = {} /\ Owned(gpu)
  BY InitIInv, InitOwned
<1>2. IInv /\ overdue = {} /\ Owned(gpu) /\ [Next]_vars
        => (IInv /\ overdue = {} /\ Owned(gpu))'
  BY NextIInv, NextOwned
<1>3. Owned(gpu) => NoOrphanedWork
  BY DEF Owned, Attended, NoOrphanedWork, Flight, InFlight, Held
<1> QED
  BY <1>1, <1>2, <1>3, PTL DEF Spec

-----------------------------------------------------------------------------
(* What the runtimes and the admission are when pump() runs, and after it *)

(* pump() starts item j, and with it the stretch up to its first await. *)
Begins(u, j, t) ==
  /\ j \in Queued(u) /\ u.oneShot = NoItem
  /\ \A i \in Items : t.adm[i] = IF i = j THEN t.adm[j] ELSE u.adm[i]
  /\ t.adm[j].adopt = FALSE
  /\ Queued(t) = Queued(u) \ {j}
  /\ t.idle \subseteq u.idle
  /\ \/ /\ Model[j] = OneShot /\ t.adm[j].pos = 1
        /\ IF u.state[1] = "loaded"
             THEN t.adm[j].at = "stopCmd"
                  /\ t.state = [u.state EXCEPT ![1] = "unloading"]
             ELSE t.adm[j].at = "sweepProbe" /\ t.state = u.state
     \/ /\ Model[j] # OneShot /\ t.state = u.state
        /\ t.adm[j].at = IF u.state[Model[j]] = "loaded" THEN "check" ELSE "probe"

(* An end of the admission of i, just before its pump(). *)
Rested(s, i, u) ==
  /\ u \in GpuState /\ Ordered(u)
  /\ Flight(u) = {}
  /\ u.state = s.state /\ u.aborted = s.aborted
  /\ Queued(u) \subseteq Queued(s)
  /\ \A j \in Items : u.answer[j] = "none" => s.answer[j] = "none"

(* The admission is refused: it leaves the runtimes as they are. *)
Leaves(s, i, idle, u) ==
  /\ Rested(s, i, u)
  /\ u.active = s.active /\ u.ids = s.ids /\ u.oneShot = s.oneShot
  /\ u.lease = s.lease /\ u.idle = idle

(* It is granted a lease of its runtime. *)
Gives(s, i, u) ==
  /\ i \notin s.aborted
  /\ Rested(s, i, u)
  /\ u.active = [s.active EXCEPT ![Model[i]] = @ + 1]
  /\ u.ids = [s.ids EXCEPT ![Model[i]] = @ \cup {i}]
  /\ u.oneShot = s.oneShot /\ u.idle = s.idle
  /\ u.lease = [s.lease EXCEPT ![i] = "held"]

(* It is granted the GPU for a one-shot. *)
GivesAlone(s, i, u) ==
  /\ Rested(s, i, u)
  /\ u.active = s.active /\ u.ids = s.ids /\ u.idle = s.idle
  /\ u.oneShot = i
  /\ u.lease = [s.lease EXCEPT ![i] = "held"]

(* Without overdue items pump() starts one item or none. *)
LEMMA PumpShape ==
  ASSUME NEW u \in GpuState, Ordered(u), overdue = {}
  PROVE  LET t == Pump(u) IN
         /\ t.active = u.active /\ t.ids = u.ids /\ t.oneShot = u.oneShot
         /\ t.lease = u.lease /\ t.aborted = u.aborted /\ t.answer = u.answer
         /\ \/ /\ t.state = u.state /\ t.idle = u.idle
               /\ t.adm = u.adm /\ Queued(t) = Queued(u)
            \/ \E j \in Items : Begins(u, j, t)
<1> DEFINE t == Pump(u)
<1>1. CASE PumpBlocked(u)
  BY <1>1 DEF Pump
<1>2. CASE ~PumpBlocked(u)
  <2>1. /\ Taken(u) \subseteq Queued(u)
        /\ \A i, j \in Taken(u) : i = j
        /\ TakenTwice(u) = {}
        /\ Expired(u) = {}
    BY PumpStarts
  <2>2. Taken(u) \subseteq Items
    BY <2>1 DEF Queued, GpuState
  <2> DEFINE stops == IF (\E i \in Taken(u) : Model[i] = OneShot)
                          /\ u.state[1] = "loaded" THEN {1} ELSE {}
  <2>3. /\ t.idle = (u.idle \ stops) \ {Model[i] : i \in Taken(u)}
        /\ t.state = [r \in Runtimes |-> IF r \in stops THEN "unloading"
                                                        ELSE u.state[r]]
        /\ t.adm = [i \in Items |-> IF i \in Taken(u) THEN BeginAdmission(u, i)
                                                      ELSE u.adm[i]]
        /\ t.aborted = u.aborted \cup Expired(u)
        /\ t.answer = [i \in Items |-> CASE i \in TakenTwice(u) -> "e409"
                                         [] i \in Expired(u) -> "e504"
                                         [] OTHER -> u.answer[i]]
    BY <1>2 DEF Pump, GpuState
  <2>4. /\ t.active = u.active /\ t.ids = u.ids /\ t.oneShot = u.oneShot
        /\ t.lease = u.lease /\ t.pending = u.pending
        /\ \A i \in Items :
             /\ i \notin Taken(u) => t.work[i] = u.work[i] /\ t.adm[i] = u.adm[i]
             /\ i \in Taken(u) => t.work[i] = "running"
             /\ t.answer[i] = u.answer[i]
    BY <1>2, <2>1, PumpFields
  <2>5. t.aborted = u.aborted /\ t.answer = u.answer
    BY <2>1, <2>3 DEF GpuState
  <2>6. u.pending \subseteq Items
    BY DEF GpuState
  <2>7. u.oneShot = NoItem
    BY <1>2 DEF PumpBlocked
  <2> HIDE DEF t, stops
  <2>8. CASE Taken(u) = {}
    <3>1. stops = {}
      BY <2>8 DEF stops
    <3>2. t.state = u.state /\ t.idle = u.idle /\ t.adm = u.adm
      BY <2>3, <2>8, <3>1 DEF GpuState
    <3>3. Queued(t) = Queued(u)
      BY <2>4, <2>6, <2>8 DEF Queued
    <3> QED
      BY <2>4, <2>5, <3>2, <3>3 DEF t
  <2>9. CASE Taken(u) # {}
    <3>1. PICK j \in Items : Taken(u) = {j}
      BY <2>1, <2>2, <2>9
    <3>2. j \in Queued(u) /\ Queued(t) = Queued(u) \ {j}
      BY <2>1, <2>4, <2>6, <3>1 DEF Queued
    <3>3. ~SweepsFirst(u, j)
      <4>1. ~Ahead(u, j, j)
        BY RequestsAssumption DEF Ahead, GpuState
      <4> QED
        BY <3>1, <4>1 DEF SweepsFirst, FreshAhead
    <3>4. t.adm[j] = BeginAdmission(u, j)
          /\ \A i \in Items : i # j => t.adm[i] = u.adm[i]
      BY <2>3, <3>1
    <3>5. stops = IF Model[j] = OneShot /\ u.state[1] = "loaded" THEN {1} ELSE {}
      BY <3>1 DEF stops
    <3>6. t.idle \subseteq u.idle
      BY <2>3
    <3>7. /\ stops = {} => t.state = u.state
          /\ stops = {1} => t.state = [u.state EXCEPT ![1] = "unloading"]
      <4>1. u.state = [r \in Runtimes |-> u.state[r]]
        BY DEF GpuState
      <4>2. [u.state EXCEPT ![1] = "unloading"]
              = [r \in Runtimes |-> IF r = 1 THEN "unloading" ELSE u.state[r]]
        BY <4>1
      <4> QED
        BY <2>3, <4>1, <4>2
    <3>8. BeginAdmission(u, j) =
            IF Model[j] = OneShot
              THEN [at |-> IF u.state[1] = "loaded" THEN "stopCmd" ELSE "sweepProbe",
                    pos |-> 1, adopt |-> FALSE]
              ELSE [at |-> IF u.state[Model[j]] = "loaded" THEN "check" ELSE "probe",
                    pos |-> 0, adopt |-> FALSE]
      BY <3>3 DEF BeginAdmission
    <3>9. \A i \in Items : t.adm[i] = IF i = j THEN t.adm[j] ELSE u.adm[i]
      BY <3>4
    <3>10. t.adm[j].adopt = FALSE
      BY <3>4, <3>8
    <3>11. ASSUME Model[j] = OneShot PROVE Begins(u, j, t)
      <4>1. t.adm[j].pos = 1
            /\ t.adm[j].at = IF u.state[1] = "loaded" THEN "stopCmd" ELSE "sweepProbe"
        BY <3>4, <3>8, <3>11
      <4>2. IF u.state[1] = "loaded"
              THEN t.adm[j].at = "stopCmd"
                   /\ t.state = [u.state EXCEPT ![1] = "unloading"]
              ELSE t.adm[j].at = "sweepProbe" /\ t.state = u.state
        BY <3>5, <3>7, <3>11, <4>1
      <4> QED
        BY <2>7, <3>2, <3>6, <3>9, <3>10, <3>11, <4>1, <4>2, Zenon DEF Begins
    <3>12. ASSUME Model[j] # OneShot PROVE Begins(u, j, t)
      <4>1. t.adm[j].at = IF u.state[Model[j]] = "loaded" THEN "check" ELSE "probe"
        BY <3>4, <3>8, <3>12
      <4>2. t.state = u.state
        BY <3>5, <3>7, <3>12
      <4> QED
        BY <2>7, <3>2, <3>6, <3>9, <3>10, <3>12, <4>1, <4>2, Zenon DEF Begins
    <3>13. Begins(u, j, t)
      BY <3>11, <3>12
    <3> QED
      BY <2>4, <2>5, <3>13 DEF t
  <2> QED
    BY <2>8, <2>9
<1> QED
  BY <1>1, <1>2

-----------------------------------------------------------------------------
(* The ends of an admission, just before their pump() *)

(* An admission that settles puts its item and the flag to rest.           *)
LEMMA SettleShape ==
  ASSUME NEW s, NEW i \in Items, s \in GpuState, Ordered(s), Flight(s) \subseteq {i}
  PROVE  \E u : /\ Settle(s, i) = Pump(u)
                /\ Rested(s, i, u)
                /\ u.active = s.active /\ u.ids = s.ids /\ u.oneShot = s.oneShot
                /\ u.lease = s.lease /\ u.idle = s.idle
<1> DEFINE u == [s EXCEPT !.adm[i] = NotAdmitting, !.admitting = FALSE]
<1>1. NotAdmitting \in Admission /\ NotAdmitting.at = "none"
  BY RuntimesAssumption DEF NotAdmitting, Admission, AdmissionSteps
<1>2. u \in GpuState
  BY <1>1 DEF GpuState
<1>3. /\ u.work = s.work /\ u.born = s.born /\ u.rows = s.rows
      /\ u.pending = s.pending /\ u.answer = s.answer /\ u.lease = s.lease
      /\ u.active = s.active /\ u.ids = s.ids /\ u.oneShot = s.oneShot
      /\ u.state = s.state /\ u.idle = s.idle /\ u.aborted = s.aborted
      /\ u.adm[i] = NotAdmitting
      /\ \A j \in Items : j # i => u.adm[j] = s.adm[j]
  BY DEF GpuState
<1>4. Settle(s, i) = Pump(u)
  BY DEF Settle
<1> HIDE DEF u
<1>5. Flight(u) = {}
  BY <1>1, <1>3 DEF Flight
<1>6. Ordered(u) /\ Queued(u) = Queued(s)
  BY <1>3 DEF Ordered, Queued
<1>7. Rested(s, i, u)
  BY <1>2, <1>3, <1>5, <1>6 DEF Rested
<1> QED
  BY <1>3, <1>4, <1>7

(* One that fails ends its item and gives its reservation back.            *)
LEMMA FailsShape ==
  ASSUME NEW s, Good(s), NEW i \in Flight(s),
         NEW outcome \in Final, NEW code \in Refusals
  PROVE  \E u : /\ AdmissionFails(s, i, outcome, code) = Pump(u)
                /\ Leaves(s, i, s.idle, u)
<1> DEFINE t == Cleanup(Reject(Finish(s, i, outcome), i, code), i)
<1>1. s \in GpuState /\ i \in Items /\ Ordered(s) /\ Flight(s) \subseteq {i}
  BY DEF Good, Flight, Locked
<1>2. t \in GpuState
  <2>1. Finish(s, i, outcome) \in GpuState
    BY <1>1, FinishEvolves DEF Evolves
  <2>2. Reject(Finish(s, i, outcome), i, code) \in GpuState
    BY <1>1, <2>1, RejectEvolves DEF Evolves
  <2> QED
    BY <1>1, <2>2, CleanupEvolves DEF Evolves
<1>3. /\ t.born = s.born /\ t.rows = s.rows /\ t.adm = s.adm
      /\ t.lease = s.lease /\ t.pending = s.pending \ {i}
      /\ t.active = s.active /\ t.ids = s.ids /\ t.oneShot = s.oneShot
      /\ t.state = s.state /\ t.idle = s.idle /\ t.aborted = s.aborted
      /\ \A j \in Items : /\ j # i => t.work[j] = s.work[j]
                          /\ t.answer[j] = "none" => s.answer[j] = "none"
  BY <1>1 DEF Cleanup, Reject, Finish, GpuState, Refusals
<1>4. AdmissionFails(s, i, outcome, code) = Settle(t, i)
  BY DEF AdmissionFails
<1> HIDE DEF t
<1>5. Ordered(t) /\ Flight(t) = Flight(s) /\ Queued(t) \subseteq Queued(s)
  BY <1>1, <1>3 DEF Ordered, Flight, Queued, GpuState
<1>6. PICK u : /\ Settle(t, i) = Pump(u)
               /\ Rested(t, i, u)
               /\ u.active = t.active /\ u.ids = t.ids /\ u.oneShot = t.oneShot
               /\ u.lease = t.lease /\ u.idle = t.idle
  BY <1>1, <1>2, <1>5, SettleShape
<1>7. Rested(s, i, u)
  BY <1>3, <1>5, <1>6 DEF Rested
<1> QED
  BY <1>3, <1>4, <1>6, <1>7 DEF Leaves

(* pending.resolve of an admission: its caller waits for it. *)
LEMMA GrantShape ==
  ASSUME NEW s \in GpuState, NEW i \in Items, Ordered(s),
         Flight(s) \subseteq {i}, s.answer[i] = "waiting"
  PROVE  \E u : /\ Grant(s, i) = Pump(u)
                /\ Rested(s, i, u)
                /\ u.active = s.active /\ u.ids = s.ids /\ u.oneShot = s.oneShot
                /\ u.lease = [s.lease EXCEPT ![i] = "held"] /\ u.idle = s.idle
<1> DEFINE t == [s EXCEPT !.answer[i] = IF @ = "waiting" THEN "lease" ELSE @,
                          !.lease[i] = IF s.answer[i] = "waiting"
                                         THEN "held" ELSE "lost"]
<1>1. t \in GpuState
  BY DEF GpuState
<1>2. /\ t.work = s.work /\ t.born = s.born /\ t.rows = s.rows
      /\ t.pending = s.pending /\ t.adm = s.adm
      /\ t.lease = [s.lease EXCEPT ![i] = "held"]
      /\ t.active = s.active /\ t.ids = s.ids /\ t.oneShot = s.oneShot
      /\ t.state = s.state /\ t.idle = s.idle /\ t.aborted = s.aborted
      /\ \A j \in Items : t.answer[j] = "none" => s.answer[j] = "none"
  BY DEF GpuState
<1>3. Grant(s, i) = Settle(t, i)
  BY DEF Grant
<1> HIDE DEF t
<1>4. Ordered(t) /\ Flight(t) = Flight(s) /\ Queued(t) = Queued(s)
  BY <1>2 DEF Ordered, Flight, Queued
<1>5. PICK u : /\ Settle(t, i) = Pump(u)
               /\ Rested(t, i, u)
               /\ u.active = t.active /\ u.ids = t.ids /\ u.oneShot = t.oneShot
               /\ u.lease = t.lease /\ u.idle = t.idle
  BY <1>1, <1>4, SettleShape
<1>6. Rested(s, i, u)
  BY <1>2, <1>4, <1>5 DEF Rested
<1> QED
  BY <1>2, <1>3, <1>5, <1>6

(* A runtime that is ready: one lease more on it, or an abort to answer.    *)
LEMMA ReadyShape ==
  ASSUME NEW s, Good(s), NEW i \in Flight(s), Model[i] # OneShot
  PROVE  \E u : /\ RuntimeReady(s, i) = Pump(u)
                /\ \/ Gives(s, i, u)
                   \/ /\ i \in s.aborted
                      /\ Leaves(s, i, IF /\ s.active[Model[i]] = 0
                                         /\ s.state[Model[i]] = "loaded"
                                        THEN s.idle \cup {Model[i]}
                                        ELSE s.idle \ {Model[i]}, u)
<1> DEFINE r == Model[i]
           n == s.active[r] + 1
           I == s.ids[r] \cup {i}
           t == [s EXCEPT !.active[r] = n, !.ids[r] = I]
           idle == IF s.active[r] = 0 /\ s.state[r] = "loaded"
                     THEN s.idle \cup {r} ELSE s.idle \ {r}
           w == ScheduleIdleUnload(s, r)
<1>1. /\ s \in GpuState /\ i \in Items /\ RowOK(s, i) /\ r \in Runtimes
      /\ Ordered(s) /\ Flight(s) \subseteq {i}
  BY RequestsAssumption DEF Good, Flight, Locked
<1>2. RuntimeReady(s, i) =
        IF i \in s.aborted THEN AdmissionFails(w, i, "cancelled", "e499")
                           ELSE Grant(t, i)
  BY <1>1 DEF RuntimeReady, GpuState
<1>3. CASE i \in s.aborted
  <2>1. w \in GpuState
    BY <1>1, ScheduleEvolves DEF Evolves
  <2>2. /\ w.work = s.work /\ w.born = s.born /\ w.rows = s.rows
        /\ w.pending = s.pending /\ w.answer = s.answer /\ w.lease = s.lease
        /\ w.active = s.active /\ w.ids = s.ids /\ w.oneShot = s.oneShot
        /\ w.admitting = s.admitting /\ w.refusing = s.refusing /\ w.adm = s.adm
        /\ w.state = s.state /\ w.aborted = s.aborted /\ w.idle = idle
    BY <1>1 DEF ScheduleIdleUnload, GpuState
  <2> HIDE DEF w, idle
  <2>3. Good(w) /\ Flight(w) = Flight(s) /\ Queued(w) = Queued(s)
    BY <2>1, <2>2, GoodElsewhere DEF Flight, Queued
  <2>4. PICK u : /\ AdmissionFails(w, i, "cancelled", "e499") = Pump(u)
                 /\ Leaves(w, i, w.idle, u)
    BY <2>3, FailsShape DEF Final, Refusals
  <2>5. Leaves(s, i, idle, u)
    BY <2>2, <2>3, <2>4 DEF Leaves, Rested
  <2> QED
    BY <1>2, <1>3, <2>4, <2>5 DEF idle
<1>4. CASE i \notin s.aborted
  <2>1. n \in Nat /\ I \in SUBSET Items
    BY <1>1 DEF GpuState
  <2>2. t \in GpuState
    <3> HIDE DEF n, I, r
    <3> QED
      BY <1>1, <2>1, SetSlotsEvolves DEF Evolves
  <2>3. /\ t.work = s.work /\ t.born = s.born /\ t.rows = s.rows
        /\ t.pending = s.pending /\ t.answer = s.answer /\ t.lease = s.lease
        /\ t.active = [s.active EXCEPT ![r] = @ + 1]
        /\ t.ids = [s.ids EXCEPT ![r] = @ \cup {i}]
        /\ t.oneShot = s.oneShot /\ t.adm = s.adm
        /\ t.state = s.state /\ t.aborted = s.aborted /\ t.idle = s.idle
    BY <1>1 DEF GpuState
  <2>4. t.answer[i] = "waiting" /\ i \in Flight(s)
    BY <1>1, <2>3 DEF RowOK
  <2> HIDE DEF t
  <2>5. Ordered(t) /\ Flight(t) = Flight(s) /\ Queued(t) = Queued(s)
    BY <1>1, <2>3 DEF Ordered, Flight, Queued
  <2>6. PICK u : /\ Grant(t, i) = Pump(u)
                 /\ Rested(t, i, u)
                 /\ u.active = t.active /\ u.ids = t.ids /\ u.oneShot = t.oneShot
                 /\ u.lease = [t.lease EXCEPT ![i] = "held"] /\ u.idle = t.idle
    BY <1>1, <2>2, <2>4, <2>5, GrantShape
  <2>7. Gives(s, i, u)
    BY <1>4, <2>3, <2>5, <2>6 DEF Gives, Rested
  <2> QED
    BY <1>2, <1>4, <2>6, <2>7
<1> QED
  BY <1>3, <1>4

(* A one-shot whose sweep is over. *)
LEMMA OneShotShape ==
  ASSUME NEW s, Good(s), NEW i \in Flight(s)
  PROVE  \E u : /\ OneShotReady(s, i) = Pump(u)
                /\ GivesAlone(s, i, u) \/ Leaves(s, i, s.idle, u)
<1> DEFINE t == [s EXCEPT !.oneShot = i]
<1>1. /\ s \in GpuState /\ i \in Items /\ RowOK(s, i)
      /\ Ordered(s) /\ Flight(s) \subseteq {i}
  BY DEF Good, Flight, Locked
<1>2. OneShotReady(s, i) =
        IF i \in s.aborted THEN AdmissionFails(s, i, "cancelled", "e499")
                           ELSE Grant(t, i)
  BY DEF OneShotReady
<1>3. CASE i \in s.aborted
  BY <1>2, <1>3, FailsShape DEF Final, Refusals
<1>4. CASE i \notin s.aborted
  <2>1. t \in GpuState
    BY <1>1 DEF GpuState
  <2>2. /\ t.work = s.work /\ t.born = s.born /\ t.rows = s.rows
        /\ t.pending = s.pending /\ t.answer = s.answer /\ t.lease = s.lease
        /\ t.active = s.active /\ t.ids = s.ids
        /\ t.oneShot = i /\ t.adm = s.adm
        /\ t.state = s.state /\ t.aborted = s.aborted /\ t.idle = s.idle
    BY <1>1 DEF GpuState
  <2>3. t.answer[i] = "waiting"
    BY <1>1, <2>2 DEF RowOK
  <2> HIDE DEF t
  <2>4. Ordered(t) /\ Flight(t) = Flight(s) /\ Queued(t) = Queued(s)
    BY <1>1, <2>2 DEF Ordered, Flight, Queued
  <2>5. PICK u : /\ Grant(t, i) = Pump(u)
                 /\ Rested(t, i, u)
                 /\ u.active = t.active /\ u.ids = t.ids /\ u.oneShot = t.oneShot
                 /\ u.lease = [t.lease EXCEPT ![i] = "held"] /\ u.idle = t.idle
    BY <1>1, <2>1, <2>3, <2>4, GrantShape
  <2>6. GivesAlone(s, i, u)
    BY <1>4, <2>2, <2>4, <2>5 DEF GivesAlone, Rested
  <2> QED
    BY <1>2, <1>4, <2>5, <2>6
<1> QED
  BY <1>3, <1>4

(* The sweep of i goes from runtime pos to runtime n. *)
Visits(s, i, pos, adopt, n, t) ==
  /\ n \in Runtimes /\ n > pos /\ n # Model[i] /\ s.active[n] = 0
  /\ \A q \in Runtimes : q > pos /\ q # Model[i] => n <= q
  /\ \A j \in Items : t.adm[j] = IF j = i THEN t.adm[i] ELSE s.adm[j]
  /\ t.adm[i] = [at |-> IF s.state[n] = "loaded" THEN "stopCmd" ELSE "sweepProbe",
                 pos |-> n, adopt |-> adopt]
  /\ IF s.state[n] = "loaded"
       THEN /\ t.state = [s.state EXCEPT ![n] = "unloading"]
            /\ t.idle = s.idle \ {n}
       ELSE t.state = s.state /\ t.idle = s.idle
  /\ t.active = s.active /\ t.ids = s.ids /\ t.oneShot = s.oneShot
  /\ t.lease = s.lease /\ t.aborted = s.aborted /\ t.answer = s.answer
  /\ Queued(t) = Queued(s) /\ t.admitting = s.admitting

(* The GPU being reserved, no sweep meets a runtime in use: it goes on to   *)
(* the next runtime, or has seen all of them.                               *)
LEMMA SweepShape ==
  ASSUME NEW s, Good(s), NEW i \in Flight(s), NEW pos \in 0..N, NEW adopt
  PROVE  \/ \E n : Visits(s, i, pos, adopt, n, SweepOn(s, i, pos, adopt))
         \/ /\ \A q \in Runtimes : q > pos => q = Model[i]
            /\ SweepOn(s, i, pos, adopt) = SweepDone(s, i, adopt)
<1> DEFINE rest == {r \in Runtimes : r > pos /\ r # Model[i]}
           next == CHOOSE r \in rest : \A q \in rest : r <= q
           stop == [at |-> "stopCmd", pos |-> next, adopt |-> adopt]
           look == [at |-> "sweepProbe", pos |-> next, adopt |-> adopt]
           t == SweepOn(s, i, pos, adopt)
<1>1. s \in GpuState /\ i \in Items /\ Reserved(s)
  BY DEF Good, Flight
<1>2. CASE rest = {}
  BY <1>2 DEF SweepOn
<1>3. CASE rest # {}
  <2>1. next \in rest /\ \A q \in rest : next <= q
    <3>1. \E r \in rest : \A q \in rest : r <= q
      BY <1>3, FirstRuntime
    <3> HIDE DEF rest
    <3> QED
      BY <3>1
  <2>2. s.active[next] = 0
    BY <1>1, <2>1 DEF Reserved, GpuState
  <2>3. t = IF s.state[next] = "loaded"
              THEN [BeginStop(s, next) EXCEPT !.adm[i] = stop]
              ELSE [s EXCEPT !.adm[i] = look]
    <3> HIDE DEF next
    <3> QED
      BY <1>3, <2>2 DEF SweepOn, next
  <2> HIDE DEF next
  <2>4. /\ t.work = s.work /\ t.pending = s.pending
        /\ t.active = s.active /\ t.ids = s.ids /\ t.oneShot = s.oneShot
        /\ t.lease = s.lease /\ t.aborted = s.aborted /\ t.answer = s.answer
        /\ t.admitting = s.admitting
        /\ t.state = IF s.state[next] = "loaded"
                       THEN [s.state EXCEPT ![next] = "unloading"] ELSE s.state
        /\ t.idle = IF s.state[next] = "loaded" THEN s.idle \ {next} ELSE s.idle
        /\ t.adm = [s.adm EXCEPT ![i] = IF s.state[next] = "loaded"
                                          THEN stop ELSE look]
    BY <1>1, <2>3 DEF BeginStop, GpuState
  <2> HIDE DEF t
  <2>5. Queued(t) = Queued(s)
    BY <2>4 DEF Queued
  <2>6. t.adm[i] = [at |-> IF s.state[next] = "loaded"
                             THEN "stopCmd" ELSE "sweepProbe",
                    pos |-> next, adopt |-> adopt]
        /\ \A j \in Items : t.adm[j] = IF j = i THEN t.adm[i] ELSE s.adm[j]
    BY <1>1, <2>4 DEF GpuState
  <2>7. Visits(s, i, pos, adopt, next, t)
    BY <2>1, <2>2, <2>4, <2>5, <2>6 DEF Visits
  <2> QED
    BY <2>7 DEF t
<1> QED
  BY <1>2, <1>3

-----------------------------------------------------------------------------
(* Where the sweeps are *)

Sweeps == {"sweepProbe", "stopCmd", "stopWait"}
Starts == {"startCmd", "startWait"}

(* A sweep visits the runtimes other than the admission's own, and only an  *)
(* admission to a runtime adopts one that was found healthy.                *)
Steered(s) ==
  \A i \in Flight(s) : s.adm[i].at \in Sweeps =>
    /\ s.adm[i].pos \in Runtimes /\ s.adm[i].pos # Model[i]
    /\ s.adm[i].adopt => Model[i] # OneShot

(* pump() keeps the steps of the admission in flight on their runtimes.    *)
LEMMA PumpSteered ==
  ASSUME NEW u \in GpuState, Ordered(u), overdue = {}, Steered(u)
  PROVE  Steered(Pump(u))
<1> DEFINE t == Pump(u)
<1>1. t.adm = u.adm \/ \E j \in Items : Begins(u, j, t)
  BY PumpShape
<1>2. 1 \in Runtimes /\ 1 # OneShot
  BY RuntimesAssumption DEF Runtimes, OneShot
<1> HIDE DEF t
<1>3. Steered(t)
  BY <1>1, <1>2 DEF Steered, Begins, Flight, Sweeps
<1> QED
  BY <1>3 DEF t

(* An admission that ends. *)
LEMMA RestedSteered ==
  ASSUME NEW s, NEW i, NEW u, Rested(s, i, u), overdue = {}
  PROVE  Steered(Pump(u))
<1>1. u \in GpuState /\ Ordered(u) /\ Steered(u)
  BY DEF Rested, Steered
<1> QED
  BY <1>1, PumpSteered

(* After an admission only what pump() starts is in flight.                *)
LEMMA EndsSteered ==
  ASSUME NEW s, Good(s), NEW i \in Flight(s), overdue = {}
  PROVE  /\ \A outcome \in Final, code \in Refusals :
              Steered(AdmissionFails(s, i, outcome, code))
         /\ \A code \in Refusals : Steered(LoadFails(s, i, code))
         /\ Steered(OneShotReady(s, i))
         /\ Model[i] # OneShot => Steered(RuntimeReady(s, i))
<1>1. ASSUME NEW w, Good(w), i \in Flight(w),
             NEW outcome \in Final, NEW code \in Refusals
      PROVE  Steered(AdmissionFails(w, i, outcome, code))
  BY <1>1, FailsShape, RestedSteered DEF Leaves
<1>2. ASSUME NEW code \in Refusals
      PROVE  Steered(LoadFails(s, i, code))
  <2>1. /\ Good([s EXCEPT !.state[Model[i]] = "failed"])
        /\ i \in Flight([s EXCEPT !.state[Model[i]] = "failed"])
    BY SetStateGood DEF RuntimeStates
  <2> QED
    BY <1>1, <2>1 DEF LoadFails, Final
<1>3. Steered(OneShotReady(s, i))
  <2>1. PICK u : /\ OneShotReady(s, i) = Pump(u)
                 /\ GivesAlone(s, i, u) \/ Leaves(s, i, s.idle, u)
    BY OneShotShape
  <2> QED
    BY <2>1, RestedSteered DEF Leaves, GivesAlone
<1>4. ASSUME Model[i] # OneShot
      PROVE  Steered(RuntimeReady(s, i))
  <2>1. PICK u : RuntimeReady(s, i) = Pump(u) /\ Rested(s, i, u)
    BY <1>4, ReadyShape DEF Leaves, Gives
  <2> QED
    BY <2>1, RestedSteered
<1> QED
  BY <1>1, <1>2, <1>3, <1>4

(* A new step of the admission in flight must be on a right runtime.       *)
LEMMA SetAdmissionSteered ==
  ASSUME NEW s \in GpuState, Steered(s), NEW i \in Items, NEW t,
         \A j \in Items : j # i => t.adm[j] = s.adm[j],
         t.adm[i].at \in Sweeps =>
           /\ t.adm[i].pos \in Runtimes /\ t.adm[i].pos # Model[i]
           /\ t.adm[i].adopt => Model[i] # OneShot
  PROVE  Steered(t)
BY DEF Steered, Flight

(* So it is when a sweep goes on.                                          *)
LEMMA SweepOnSteered ==
  ASSUME NEW s, Good(s), Steered(s), NEW i \in Flight(s), overdue = {},
         NEW pos \in 0..N, NEW adopt \in BOOLEAN, adopt => Model[i] # OneShot
  PROVE  Steered(SweepOn(s, i, pos, adopt))
<1> DEFINE t == SweepOn(s, i, pos, adopt)
<1>1. s \in GpuState /\ i \in Items
  BY DEF Good, Flight
<1>2. CASE \E n : Visits(s, i, pos, adopt, n, t)
  <2>1. Steered(t)
    BY <1>1, <1>2, SetAdmissionSteered DEF Visits
  <2> QED
    BY <2>1
<1>3. CASE t = SweepDone(s, i, adopt)
  <2> DEFINE w == [s EXCEPT !.state[Model[i]] = "loaded"]
             v == [s EXCEPT !.state[Model[i]] = "loading",
                            !.adm[i] = [at |-> "startCmd", pos |-> 0,
                                        adopt |-> FALSE]]
  <2>1. t = IF Model[i] = OneShot THEN OneShotReady(s, i)
            ELSE IF adopt THEN RuntimeReady(w, i)
            ELSE IF i \in s.aborted THEN AdmissionFails(s, i, "failed", "e499")
            ELSE v
    BY <1>3 DEF SweepDone
  <2>2. Good(w) /\ i \in Flight(w)
    BY SetStateGood DEF RuntimeStates
  <2>3. /\ v.adm[i].at = "startCmd"
        /\ \A j \in Items : j # i => v.adm[j] = s.adm[j]
    BY <1>1 DEF GpuState
  <2> HIDE DEF t, w, v
  <2>4. Steered(v)
    BY <1>1, <2>3, SetAdmissionSteered DEF Sweeps
  <2>5. /\ Steered(OneShotReady(s, i))
        /\ Steered(AdmissionFails(s, i, "failed", "e499"))
        /\ Model[i] # OneShot => Steered(RuntimeReady(w, i))
    BY <2>2, EndsSteered DEF Final, Refusals
  <2>6. Steered(t)
    BY <2>1, <2>4, <2>5
  <2> QED
    BY <2>6 DEF t
<1> QED
  BY <1>2, <1>3, SweepShape

-----------------------------------------------------------------------------
(* Releases and cancellations, just before their pump() *)

(* They give slots back, and a runtime that loses its last request has its  *)
(* idle timer armed.                                                        *)
Frees(s, i, u) ==
  /\ u.state = s.state /\ u.adm = s.adm
  /\ u.oneShot \in {s.oneShot, NoItem}
  /\ \A r \in Runtimes :
       /\ u.active[r] <= s.active[r] /\ u.ids[r] \subseteq s.ids[r]
       /\ s.state[r] = "loaded" /\ u.active[r] = 0
            /\ (s.active[r] > 0 \/ r \in s.idle) => r \in u.idle
  /\ u.aborted \subseteq s.aborted \cup {i}
  /\ Queued(u) \subseteq Queued(s)
  /\ \A j \in Items : /\ u.answer[j] = "none" => s.answer[j] = "none"
                      /\ u.lease[j] = "none" => s.lease[j] = "none"

(* A lease that is released frees its slot and touches nothing else.       *)
LEMMA ReleasedFrees ==
  ASSUME NEW s \in GpuState, NEW i \in Items, NEW outcome \in Final
  PROVE  /\ Frees(s, i, Released(s, i, outcome))
         /\ Released(s, i, outcome).aborted = s.aborted
<1> DEFINE l == [s EXCEPT !.lease[i] = "released"]
           f == FreeSlot(l, i)
           t == Cleanup(Finish(f, i, outcome), i)
           u == Released(s, i, outcome)
<1>1. /\ l \in GpuState
      /\ l.work = s.work /\ l.pending = s.pending /\ l.answer = s.answer
      /\ l.active = s.active /\ l.ids = s.ids /\ l.oneShot = s.oneShot
      /\ l.state = s.state /\ l.adm = s.adm /\ l.idle = s.idle
      /\ l.aborted = s.aborted
      /\ \A j \in Items : l.lease[j] = "none" => s.lease[j] = "none"
  BY DEF GpuState
<1> HIDE DEF l
<1>2. /\ f \in GpuState
      /\ f.work = s.work /\ f.pending = s.pending /\ f.answer = s.answer
      /\ f.state = s.state /\ f.adm = s.adm /\ f.idle = s.idle
      /\ f.aborted = s.aborted /\ f.lease = l.lease
      /\ f.oneShot \in {s.oneShot, NoItem}
  <2>1. f \in GpuState
    BY <1>1, FreeSlotEvolves DEF Evolves
  <2>2. /\ f.work = l.work /\ f.pending = l.pending /\ f.answer = l.answer
        /\ f.state = l.state /\ f.adm = l.adm /\ f.idle = l.idle
        /\ f.aborted = l.aborted /\ f.lease = l.lease
        /\ f.oneShot = IF Model[i] = OneShot /\ l.oneShot = i
                         THEN NoItem ELSE l.oneShot
    BY <1>1 DEF FreeSlot, GpuState
  <2> HIDE DEF f
  <2> QED
    BY <1>1, <2>1, <2>2
<1>3. \A r \in Runtimes :
        /\ f.active[r] <= s.active[r] /\ f.ids[r] \subseteq s.ids[r]
        /\ r # Model[i] => f.active[r] = s.active[r]
  <2>1. \A r \in Runtimes : s.active[r] \in Nat
    BY DEF GpuState
  <2>2. CASE Model[i] = OneShot
    <3>1. f.active = s.active /\ f.ids = s.ids
      BY <1>1, <2>2 DEF FreeSlot, GpuState
    <3> QED
      BY <2>1, <3>1
  <2>3. CASE Model[i] # OneShot
    <3> DEFINE m == IF s.active[Model[i]] > 0 THEN s.active[Model[i]] - 1 ELSE 0
    <3>1. Model[i] \in Runtimes
      BY <2>3, RequestsAssumption
    <3>2. m <= s.active[Model[i]]
      BY <2>1, <3>1
    <3>3. f.active = [s.active EXCEPT ![Model[i]] = m]
          /\ f.ids = [s.ids EXCEPT ![Model[i]] = @ \ {i}]
      BY <1>1, <2>3, <3>1 DEF FreeSlot, GpuState
    <3> HIDE DEF m, f
    <3> QED
      BY <2>1, <3>2, <3>3 DEF GpuState
  <2> QED
    BY <2>2, <2>3
<1> HIDE DEF f
<1>4. /\ t.state = f.state /\ t.adm = f.adm /\ t.oneShot = f.oneShot
      /\ t.active = f.active /\ t.ids = f.ids /\ t.idle = f.idle
      /\ t.aborted = f.aborted /\ t.answer = f.answer /\ t.lease = f.lease
      /\ t.pending \subseteq f.pending
      /\ \A j \in Items : t.work[j] = "queued" => f.work[j] = "queued"
  BY <1>2 DEF Cleanup, Finish, GpuState, Final
<1>5. t \in GpuState
  <2>1. Finish(f, i, outcome) \in GpuState
    BY <1>2, FinishEvolves DEF Evolves
  <2> QED
    BY <2>1, CleanupEvolves DEF Evolves
<1>6. u = IF Model[i] = OneShot THEN t ELSE ScheduleIdleUnload(t, Model[i])
  BY DEF Released, f, l
<1> HIDE DEF t
<1>7. /\ u.state = t.state /\ u.adm = t.adm /\ u.oneShot = t.oneShot
      /\ u.active = t.active /\ u.ids = t.ids
      /\ u.aborted = t.aborted /\ u.answer = t.answer /\ u.lease = t.lease
      /\ u.pending = t.pending /\ u.work = t.work
      /\ \A r \in Runtimes : r # Model[i] /\ r \in t.idle => r \in u.idle
      /\ \A r \in Runtimes : r = Model[i] /\ t.active[r] = 0 /\ t.state[r] = "loaded"
           => r \in u.idle
  <2>1. CASE Model[i] = OneShot
    <3>1. \A r \in Runtimes : r # OneShot
      BY DEF Runtimes, OneShot
    <3>2. u = t
      BY <1>6, <2>1
    <3> HIDE DEF u
    <3> QED
      BY <2>1, <3>1, <3>2
  <2>2. CASE Model[i] # OneShot
    <3> DEFINE idle == IF t.active[Model[i]] = 0 /\ t.state[Model[i]] = "loaded"
                         THEN t.idle \cup {Model[i]} ELSE t.idle \ {Model[i]}
    <3>1. u = [t EXCEPT !.idle = idle]
      BY <1>5, <1>6, <2>2 DEF ScheduleIdleUnload, GpuState
    <3> HIDE DEF u
    <3>2. /\ \A r : r # Model[i] /\ r \in t.idle => r \in idle
          /\ \A r : r = Model[i] /\ t.active[r] = 0 /\ t.state[r] = "loaded"
               => r \in idle
      OBVIOUS
    <3> HIDE DEF idle
    <3>3. /\ u.state = t.state /\ u.adm = t.adm /\ u.oneShot = t.oneShot
          /\ u.active = t.active /\ u.ids = t.ids
          /\ u.aborted = t.aborted /\ u.answer = t.answer /\ u.lease = t.lease
          /\ u.pending = t.pending /\ u.work = t.work /\ u.idle = idle
      BY <1>5, <3>1 DEF GpuState
    <3> QED
      BY <3>2, <3>3
  <2> QED
    BY <2>1, <2>2
<1> HIDE DEF u
<1>8. Queued(u) \subseteq Queued(s)
  BY <1>2, <1>4, <1>7 DEF Queued, GpuState
<1>9. \A r \in Runtimes :
        s.state[r] = "loaded" /\ u.active[r] = 0
          /\ (s.active[r] > 0 \/ r \in s.idle) => r \in u.idle
  BY <1>2, <1>3, <1>4, <1>7
<1>10. Frees(s, i, u)
  BY <1>1, <1>2, <1>3, <1>4, <1>7, <1>8, <1>9 DEF Frees
<1> QED
  BY <1>2, <1>4, <1>7, <1>10 DEF u

(* So does a cancellation that reaches the item or its lease.              *)
LEMMA CancelledFrees ==
  ASSUME NEW s \in GpuState, NEW i \in Items,
         NEW outcome \in Final, NEW now \in BOOLEAN
  PROVE  /\ Frees(s, i, Cancelled(s, i, outcome, now))
         /\ i \notin Queued(Cancelled(s, i, outcome, now))
<1> DEFINE code == CASE outcome = "timed_out" -> "e504"
                     [] outcome = "cancelled" -> "e499"
                     [] OTHER -> "e503"
           f == Finish(s, i, outcome)
           A == IF i \in s.pending THEN f.aborted \cup {i} ELSE f.aborted
           t == [f EXCEPT !.aborted = A]
           v == Cleanup(Reject(t, i, code), i)
           w == Released(t, i, "cancelled")
<1>1. f \in GpuState
  BY FinishEvolves DEF Evolves
<1>2. /\ f.state = s.state /\ f.adm = s.adm /\ f.oneShot = s.oneShot
      /\ f.active = s.active /\ f.ids = s.ids /\ f.idle = s.idle
      /\ f.aborted = s.aborted /\ f.answer = s.answer /\ f.lease = s.lease
      /\ f.pending = s.pending /\ f.work[i] # "queued"
      /\ \A j \in Items : f.work[j] = "queued" => s.work[j] = "queued"
  BY DEF Finish, GpuState, Final, Live
<1> HIDE DEF f
<1>3. t \in GpuState
  BY <1>1 DEF GpuState
<1>4. /\ t.state = f.state /\ t.adm = f.adm /\ t.oneShot = f.oneShot
      /\ t.active = f.active /\ t.ids = f.ids /\ t.idle = f.idle
      /\ t.answer = f.answer /\ t.lease = f.lease
      /\ t.pending = f.pending /\ t.work = f.work
      /\ t.aborted \subseteq f.aborted \cup {i}
  BY <1>1 DEF GpuState
<1>5. Cancelled(s, i, outcome, now) =
        CASE i \in s.pending /\ s.work[i] = "queued" -> v
          [] /\ now /\ s.lease[i] = "held" /\ Model[i] # OneShot
             /\ i \in s.pending \ s.aborted -> w
          [] OTHER -> t
  BY DEF Cancelled, f
<1>6. code \in Refusals
  BY DEF Refusals
<1> HIDE DEF t, code
<1>7. /\ v.state = t.state /\ v.adm = t.adm /\ v.oneShot = t.oneShot
      /\ v.active = t.active /\ v.ids = t.ids /\ v.idle = t.idle
      /\ v.aborted = t.aborted /\ v.lease = t.lease
      /\ v.work = t.work /\ v.pending \subseteq t.pending
      /\ \A j \in Items : v.answer[j] = "none" => t.answer[j] = "none"
  BY <1>3, <1>6 DEF Cleanup, Reject, GpuState, Refusals
<1>8. Frees(t, i, w)
  BY <1>3, ReleasedFrees DEF Final
<1> HIDE DEF v, w
<1>9. \A r \in Runtimes : s.active[r] \in Nat
  BY DEF GpuState
<1>10. /\ Queued(t) \subseteq Queued(s) /\ i \notin Queued(t)
       /\ Queued(v) \subseteq Queued(t) /\ Queued(w) \subseteq Queued(t)
  BY <1>2, <1>3, <1>4, <1>7, <1>8 DEF Queued, GpuState, Frees
<1>11. Frees(s, i, t) /\ Frees(s, i, v) /\ Frees(s, i, w)
  BY <1>2, <1>4, <1>7, <1>8, <1>9, <1>10 DEF Frees
<1> QED
  BY <1>5, <1>10, <1>11

(* A call of acquire that is queued. *)
Joins(s, i, u) ==
  /\ s.answer[i] = "none"
  /\ u.state = s.state /\ u.adm = s.adm /\ u.oneShot = s.oneShot
  /\ u.active = s.active /\ u.ids = s.ids /\ u.idle = s.idle
  /\ u.aborted = s.aborted /\ u.lease = s.lease
  /\ Queued(u) = Queued(s) \cup {i}
  /\ \A j \in Items : u.answer[j] = "none" => s.answer[j] = "none"

(* The calls of the coordinator's users and the queue timers. *)
LEMMA CallShape ==
  ASSUME XInv, NEW i \in Items,
         \/ Acquire(i) \/ AcquireRefused(i) \/ Release(i)
         \/ Cancel(i) \/ QueueTimeout(i)
  PROVE  /\ UNCHANGED <<overdue, svc, idleStop, forceStop, probe>>
         /\ \/ \E u : gpu' = Pump(u) /\ Good(u) /\ Joins(gpu, i, u)
            \/ \E u : /\ gpu' = Pump(u) /\ Good(u) /\ Frees(gpu, i, u)
                      /\ \/ "cancel" \in Events
                         \/ u.aborted = gpu.aborted
                         \/ i \in Queued(gpu) /\ i \notin Queued(u)
            \/ "cancel" \in Events /\ Frees(gpu, i, gpu')
<1>1. Good(gpu) /\ gpu \in GpuState /\ NoRowBeforeCall(gpu)
  BY DEF XInv, Good, IInv
<1>2. UNCHANGED <<overdue, svc, idleStop, forceStop, probe>>
  BY DEF Acquire, AcquireRefused, Release, Cancel, QueueTimeout
<1>3. CASE Acquire(i)
  <2> DEFINE u == [gpu EXCEPT !.work[i] = "queued", !.born[i] = gpu.rows + 1,
                              !.rows = @ + 1, !.pending = @ \cup {i},
                              !.answer[i] = "waiting"]
  <2>1. gpu' = Pump(u) /\ gpu.answer[i] = "none"
    BY <1>3 DEF Acquire
  <2>2. Good(u)
    <3>1. gpu.work[i] \notin Final
      BY <1>1, <2>1 DEF NoRowBeforeCall, Final
    <3> QED
      BY <1>1, <2>1, <3>1, EnqueueGood
  <2>3. /\ u.state = gpu.state /\ u.adm = gpu.adm /\ u.oneShot = gpu.oneShot
        /\ u.active = gpu.active /\ u.ids = gpu.ids /\ u.idle = gpu.idle
        /\ u.aborted = gpu.aborted /\ u.lease = gpu.lease
        /\ u.pending = gpu.pending \cup {i} /\ u.work[i] = "queued"
        /\ \A j \in Items : /\ u.answer[j] = "none" => gpu.answer[j] = "none"
                            /\ j # i => u.work[j] = gpu.work[j]
    BY <1>1 DEF GpuState
  <2> HIDE DEF u
  <2>4. Queued(u) = Queued(gpu) \cup {i}
    BY <1>1, <2>3 DEF Queued, GpuState
  <2>5. Joins(gpu, i, u)
    BY <2>1, <2>3, <2>4 DEF Joins
  <2> QED
    BY <1>2, <2>1, <2>2, <2>5
<1>4. CASE AcquireRefused(i)
  <2>1. PICK code \in {"e404", "e499"} : gpu' = [gpu EXCEPT !.answer[i] = code]
    BY <1>4 DEF AcquireRefused
  <2>2. /\ gpu'.state = gpu.state /\ gpu'.adm = gpu.adm
        /\ gpu'.oneShot = gpu.oneShot
        /\ gpu'.active = gpu.active /\ gpu'.ids = gpu.ids
        /\ gpu'.idle = gpu.idle /\ gpu'.aborted = gpu.aborted
        /\ gpu'.lease = gpu.lease /\ gpu'.pending = gpu.pending
        /\ gpu'.work = gpu.work
        /\ \A j \in Items : gpu'.answer[j] = "none" => gpu.answer[j] = "none"
    BY <1>1, <2>1 DEF GpuState
  <2>3. Queued(gpu') = Queued(gpu) /\ \A r \in Runtimes : gpu.active[r] \in Nat
    BY <1>1, <2>2 DEF Queued, GpuState
  <2>4. Frees(gpu, i, gpu')
    BY <2>2, <2>3 DEF Frees
  <2> QED
    BY <1>2, <1>4, <2>4 DEF AcquireRefused
<1>5. CASE Release(i)
  <2>1. PICK outcome \in {"succeeded", "failed", "cancelled"} :
           gpu' = Pump(Released(gpu, i, outcome))
    BY <1>5 DEF Release
  <2>2. i \in Holders(gpu) /\ outcome \in Final
    BY <1>5 DEF Release, Holders, Final
  <2>3. Good(Released(gpu, i, outcome))
    BY <1>1, <2>2, ReleasedGood
  <2>4. /\ Frees(gpu, i, Released(gpu, i, outcome))
        /\ Released(gpu, i, outcome).aborted = gpu.aborted
    BY <1>1, <2>2, ReleasedFrees
  <2> QED
    BY <1>2, <2>1, <2>3, <2>4
<1>6. CASE Cancel(i) \/ QueueTimeout(i)
  <2>1. PICK outcome \in {"cancelled", "timed_out"}, now \in BOOLEAN :
           gpu' = Pump(Cancelled(gpu, i, outcome, now))
    BY <1>6 DEF Cancel, QueueTimeout
  <2>2. outcome \in Final
    BY DEF Final
  <2>3. "cancel" \in Events \/ i \in Queued(gpu)
    BY <1>6 DEF Cancel, QueueTimeout
  <2>4. Good(Cancelled(gpu, i, outcome, now))
    BY <1>1, <2>2, CancelledGood
  <2>5. /\ Frees(gpu, i, Cancelled(gpu, i, outcome, now))
        /\ i \notin Queued(Cancelled(gpu, i, outcome, now))
    BY <1>1, <2>2, CancelledFrees
  <2> QED
    BY <1>2, <2>1, <2>3, <2>4, <2>5
<1> QED
  BY <1>3, <1>4, <1>5, <1>6

-----------------------------------------------------------------------------
(* Sweeps are steered in every state *)

(* The steps of the one admission in flight. *)
LEMMA AdmissionFacts ==
  ASSUME XInv, NEW i \in Items, AdmissionStep(i)
  PROVE  /\ i \in Flight(gpu) /\ gpu \in GpuState /\ Good(gpu) /\ overdue = {}
         /\ gpu.adm[i].pos \in 0..N /\ gpu.adm[i].adopt \in BOOLEAN /\ 0 \in 0..N
         /\ Model[i] = OneShot => gpu.adm[i].at \in Sweeps
         /\ ~RefusedSettles(i)
         /\ UNCHANGED <<overdue, idleStop, forceStop, probe>>
<1>1. gpu \in GpuState /\ gpu.adm[i] \in Admission /\ gpu.refusing = {}
      /\ OneShotsOnlySweep(gpu) /\ Good(gpu) /\ overdue = {}
  BY DEF XInv, IInv, Good, Locked, GpuState
<1>2. ~RefusedSettles(i)
  BY <1>1 DEF RefusedSettles
<1>3. i \in Flight(gpu)
  BY <1>2, Zenon DEF AdmissionStep, CheckHealth, ProbeHealth, SweepProbe,
              SweepStopCommand, SweepStopped, SweepStopFails, StartCommand,
              StartCommandFails, LoadHealthy, LoadAborted, LoadTimesOut, Flight
<1>4. UNCHANGED <<overdue, idleStop, forceStop, probe>>
  BY Zenon DEF AdmissionStep, CheckHealth, ProbeHealth, SweepProbe,
         SweepStopCommand, SweepStopped, SweepStopFails, StartCommand,
         StartCommandFails, LoadHealthy, LoadAborted, LoadTimesOut, RefusedSettles
<1>5. Model[i] = OneShot => gpu.adm[i].at \in Sweeps
  BY <1>1, <1>3 DEF OneShotsOnlySweep, Flight, Sweeps
<1>6. gpu.adm[i].pos \in 0..N /\ gpu.adm[i].adopt \in BOOLEAN /\ 0 \in 0..N
  BY <1>1, RuntimesAssumption DEF Admission
<1> QED
  BY <1>1, <1>2, <1>3, <1>4, <1>5, <1>6

(* What SweepProbe makes of the runtime it looks at. *)
LEMMA SweepProbeShape ==
  ASSUME XInv, NEW i \in Items, SweepProbe(i), Steered(gpu)
  PROVE  LET a == gpu.adm[i]
             value == IF gpu.state[a.pos] = "failed" THEN "failed" ELSE "unloaded"
             w == [gpu EXCEPT !.state[a.pos] = value]
             t == [BeginStop(gpu, a.pos) EXCEPT !.adm[i].at = "stopCmd"]
         IN /\ svc' = svc /\ Good(w) /\ i \in Flight(w)
            /\ \/ ~Up(a.pos) /\ gpu' = SweepOn(w, i, a.pos, a.adopt)
               \/ Up(a.pos) /\ gpu' = t
<1> DEFINE a == gpu.adm[i]
           value == IF gpu.state[a.pos] = "failed" THEN "failed" ELSE "unloaded"
           w == [gpu EXCEPT !.state[a.pos] = value]
<1>1. Good(gpu) /\ gpu \in GpuState /\ i \in Flight(gpu) /\ a.at = "sweepProbe"
  BY DEF XInv, Good, SweepProbe, Flight
<1>2. value \in RuntimeStates
  BY DEF RuntimeStates
<1>3. Good(w) /\ i \in Flight(w)
  <2> HIDE DEF value
  <2> QED
    BY <1>1, <1>2, SetStateGood
<1>4. a.pos \in Runtimes /\ gpu.active[a.pos] = 0
  BY <1>1 DEF Steered, Sweeps, Good, Reserved, GpuState
<1>5. w = [gpu EXCEPT !.state[a.pos] = IF @ = "failed" THEN @ ELSE "unloaded"]
  <2> DEFINE same == IF gpu.state[a.pos] = "failed" THEN gpu.state[a.pos]
                     ELSE "unloaded"
  <2>1. value = same
    OBVIOUS
  <2>2. [gpu EXCEPT !.state[a.pos] = same] =
          [gpu EXCEPT !.state[a.pos] = IF @ = "failed" THEN @ ELSE "unloaded"]
    OBVIOUS
  <2> HIDE DEF value, same
  <2>3. [gpu EXCEPT !.state[a.pos] = value] = [gpu EXCEPT !.state[a.pos] = same]
    BY <2>1
  <2> QED
    BY <2>2, <2>3
<1>6. svc' = svc
  BY DEF SweepProbe
<1>7. CASE ~Up(a.pos)
  <2>1. gpu' = SweepOn([gpu EXCEPT !.state[a.pos] =
                          IF @ = "failed" THEN @ ELSE "unloaded"],
                       i, a.pos, a.adopt)
    BY <1>7, Zenon DEF SweepProbe
  <2>2. gpu' = SweepOn(w, i, a.pos, a.adopt)
    <3> HIDE DEF w
    <3> QED
      BY <1>5, <2>1
  <2> QED
    BY <1>3, <1>6, <1>7, <2>2
<1>8. CASE Up(a.pos)
  <2>1. ~(gpu.active[a.pos] > 0)
    BY <1>4
  <2>2. gpu' = [BeginStop(gpu, a.pos) EXCEPT !.adm[i].at = "stopCmd"]
    BY <1>8, <2>1, Zenon DEF SweepProbe
  <2> QED
    BY <1>3, <1>6, <1>8, <2>2
<1> QED
  BY <1>7, <1>8

(* The steps of an admission are on their runtimes.                        *)
LEMMA AdmissionSteered ==
  ASSUME XInv, Steered(gpu), NEW i \in Items, AdmissionStep(i)
  PROVE  Steered(gpu')
<1> DEFINE a == gpu.adm[i]
<1>1. /\ i \in Flight(gpu) /\ gpu \in GpuState /\ Good(gpu) /\ overdue = {}
      /\ a.pos \in 0..N /\ a.adopt \in BOOLEAN /\ 0 \in 0..N
      /\ Model[i] = OneShot => a.at \in Sweeps
      /\ ~RefusedSettles(i)
  BY AdmissionFacts
<1>2. ASSUME NEW r, NEW value \in RuntimeStates, a.at \in Sweeps
      PROVE  Steered(SweepOn([gpu EXCEPT !.state[r] = value], i, a.pos, a.adopt))
  <2> DEFINE w == [gpu EXCEPT !.state[r] = value]
  <2>1. Good(w) /\ Flight(w) = Flight(gpu) /\ w.adm = gpu.adm
    BY <1>1, SetStateGood DEF GpuState
  <2> HIDE DEF w
  <2>2. Steered(w)
    BY <2>1 DEF Steered
  <2>3. a.adopt => Model[i] # OneShot
    BY <1>1, <1>2 DEF Steered
  <2> HIDE DEF a
  <2>4. Steered(SweepOn(w, i, a.pos, a.adopt))
    BY <1>1, <2>1, <2>2, <2>3, SweepOnSteered
  <2> QED
    BY <2>4 DEF w
<1>3. CASE CheckHealth(i)
  <2>1. a.at = "check" /\ Model[i] # OneShot
    BY <1>1, <1>3 DEF CheckHealth, Sweeps
  <2>2. Steered(RuntimeReady(gpu, i))
    BY <1>1, <2>1, EndsSteered
  <2> DEFINE t == [gpu EXCEPT !.adm[i].at = "probe"]
  <2>3. t.adm[i].at = "probe" /\ \A j \in Items : j # i => t.adm[j] = gpu.adm[j]
    BY <1>1 DEF GpuState
  <2> HIDE DEF t
  <2>4. Steered(t)
    BY <1>1, <2>3, SetAdmissionSteered DEF Sweeps
  <2> QED
    BY <1>3, <2>2, <2>4 DEF CheckHealth, t
<1>4. CASE ProbeHealth(i)
  <2>1. a.at = "probe" /\ Model[i] # OneShot /\ Up(Model[i]) \in BOOLEAN
    BY <1>1, <1>4 DEF ProbeHealth, Sweeps, Up
  <2> HIDE DEF a
  <2>2. Steered(SweepOn(gpu, i, 0, Up(Model[i])))
    BY <1>1, <2>1, SweepOnSteered
  <2> QED
    BY <1>4, <2>2 DEF ProbeHealth
<1>5. CASE SweepProbe(i)
  <2> DEFINE value == IF gpu.state[a.pos] = "failed" THEN "failed" ELSE "unloaded"
             w == [gpu EXCEPT !.state[a.pos] = value]
             t == [BeginStop(gpu, a.pos) EXCEPT !.adm[i].at = "stopCmd"]
  <2>1. gpu' = SweepOn(w, i, a.pos, a.adopt) \/ gpu' = t
    BY <1>5, SweepProbeShape
  <2>2. value \in RuntimeStates /\ a.at \in Sweeps
    BY <1>5 DEF RuntimeStates, Sweeps, SweepProbe
  <2>3. /\ t.adm[i].pos = a.pos /\ t.adm[i].adopt = a.adopt
        /\ \A j \in Items : j # i => t.adm[j] = gpu.adm[j]
    BY <1>1 DEF GpuState, Admission, BeginStop
  <2> HIDE DEF t, value
  <2>4. Steered(SweepOn(w, i, a.pos, a.adopt))
    BY <1>2, <2>2
  <2>5. a.pos \in Runtimes /\ a.pos # Model[i] /\ (a.adopt => Model[i] # OneShot)
    BY <1>1, <2>2 DEF Steered
  <2>6. Steered(t)
    BY <1>1, <2>3, <2>5, SetAdmissionSteered
  <2> QED
    BY <2>1, <2>4, <2>6
<1>6. CASE SweepStopCommand(i) \/ StartCommand(i)
  <2>1. PICK step \in {"stopWait", "startWait"} :
           /\ gpu' = [gpu EXCEPT !.adm[i].at = step]
           /\ step = "stopWait" => a.at \in Sweeps
    BY <1>6 DEF SweepStopCommand, StartCommand, Sweeps
  <2>2. /\ gpu'.adm[i].at = step /\ gpu'.adm[i].pos = a.pos
        /\ gpu'.adm[i].adopt = a.adopt
        /\ \A j \in Items : j # i => gpu'.adm[j] = gpu.adm[j]
    BY <1>1, <2>1 DEF GpuState, Admission
  <2>3. step \in Sweeps => a.at \in Sweeps
    BY <2>1 DEF Sweeps
  <2> QED
    BY <1>1, <2>2, <2>3, SetAdmissionSteered DEF Steered
<1>7. CASE SweepStopped(i) \/ SweepStopFails(i)
  <2>1. PICK value \in RuntimeStates :
           gpu' = SweepOn([gpu EXCEPT !.state[a.pos] = value], i, a.pos, a.adopt)
    BY <1>7 DEF SweepStopped, SweepStopFails, RuntimeStates
  <2>2. a.at \in Sweeps
    BY <1>7 DEF SweepStopped, SweepStopFails, Sweeps
  <2> QED
    BY <1>2, <2>1, <2>2
<1>8. CASE StartCommandFails(i) \/ LoadAborted(i) \/ LoadTimesOut(i)
  <2>1. PICK code \in Refusals : gpu' = LoadFails(gpu, i, code)
    BY <1>8 DEF StartCommandFails, LoadAborted, LoadTimesOut, Refusals
  <2> QED
    BY <1>1, <2>1, EndsSteered
<1>9. CASE LoadHealthy(i)
  <2> DEFINE w == [gpu EXCEPT !.state[Model[i]] = "loaded"]
  <2>1. Good(w) /\ i \in Flight(w)
    BY <1>1, SetStateGood DEF RuntimeStates
  <2>2. gpu' = RuntimeReady(w, i) /\ Model[i] # OneShot
    BY <1>1, <1>9 DEF LoadHealthy, Sweeps
  <2> HIDE DEF w
  <2> QED
    BY <1>1, <2>1, <2>2, EndsSteered
<1> QED
  BY <1>1, <1>3, <1>4, <1>5, <1>6, <1>7, <1>8, <1>9 DEF AdmissionStep

(* A runtime's stop, timer or probe leaves the admission alone, and pumps. *)
LEMMA RuntimesSteered ==
  ASSUME XInv, Steered(gpu),
         RefreshApply \/ \E r \in Runtimes : RuntimeStep(r) /\ ~ForceUnload(r)
  PROVE  Steered(gpu')
<1>1. gpu \in GpuState /\ overdue = {} /\ Good(gpu) /\ Ordered(gpu)
  BY DEF XInv, Good
<1>2. CASE RefreshApply
  <2>1. \E state : gpu' = [gpu EXCEPT !.state = state]
    BY <1>2 DEF RefreshApply
  <2>2. gpu'.adm = gpu.adm
    BY <1>1, <2>1 DEF GpuState
  <2> QED
    BY <2>2 DEF Steered, Flight
<1>3. ASSUME NEW r \in Runtimes, RuntimeStep(r), ~ForceUnload(r)
      PROVE  Steered(gpu')
  <2>1. CASE UNCHANGED gpu
    BY <2>1 DEF Steered, Flight
  <2>2. CASE IdleFires(r)
    <3> DEFINE s == [gpu EXCEPT !.idle = @ \ {r}]
               t == BeginStop(gpu, r)
    <3>1. s \in GpuState
      BY <1>1 DEF GpuState
    <3>2. /\ s.adm = gpu.adm /\ t.adm = gpu.adm
          /\ s.born = gpu.born /\ s.rows = gpu.rows /\ s.pending = gpu.pending
      BY <1>1 DEF GpuState, BeginStop
    <3>3. gpu' = Pump(s) \/ gpu' = t
      BY <2>2 DEF IdleFires
    <3> HIDE DEF s, t
    <3>4. Steered(s) /\ Steered(t) /\ Ordered(s)
      BY <1>1, <3>2 DEF Steered, Flight, Ordered
    <3> QED
      BY <1>1, <3>1, <3>3, <3>4, PumpSteered
  <2>3. CASE IdleStopped(r) \/ IdleStopFails(r)
             \/ ForceStopped(r) \/ ForceStopFails(r)
    <3>1. PICK value \in RuntimeStates :
             gpu' = Pump([gpu EXCEPT !.state[r] = value])
      BY <2>3 DEF IdleStopped, IdleStopFails, ForceStopped, ForceStopFails,
                  RuntimeStates
    <3> DEFINE s == [gpu EXCEPT !.state[r] = value]
    <3>2. Good(s) /\ s.adm = gpu.adm
      BY <1>1, SetStateGood DEF GpuState
    <3> HIDE DEF s
    <3>3. Steered(s) /\ Ordered(s) /\ s \in GpuState
      BY <3>2 DEF Steered, Flight, Good
    <3> QED
      BY <1>1, <3>1, <3>3, PumpSteered DEF s
  <2> QED
    BY <1>3, <2>1, <2>2, <2>3
    DEF RuntimeStep, StopStep, IdleStopCommand, ForceStopCommand,
        RefreshProbe, ServiceReady, ServiceDies, ServiceStartedOutside
<1> QED
  BY <1>2, <1>3

-----------------------------------------------------------------------------
(* Active work is not interrupted *)

(* A runtime with requests is up and on record as loaded; an admission past *)
(* its first check found no request anywhere, so what it stops serves       *)
(* nobody; and it stops its own runtime in no case.                         *)
Served(s, v) ==
  /\ \A r \in Runtimes : s.active[r] > 0 => v[r] = "up" /\ s.state[r] = "loaded"
  /\ \A i \in Flight(s) :
       /\ s.adm[i].at = "check" => s.state[Model[i]] = "loaded"
       /\ s.adm[i].at # "check" => \A r \in Runtimes : s.active[r] = 0
       /\ s.adm[i].at \in Sweeps /\ s.adm[i].adopt => v[Model[i]] = "up"

(* pump() keeps the work in progress on a runtime that stays loaded.       *)
LEMMA PumpServed ==
  ASSUME NEW u \in GpuState, Ordered(u), overdue = {}, NEW v,
         Good(Pump(u)), Served(u, v)
  PROVE  Served(Pump(u), v)
<1> DEFINE t == Pump(u)
<1>1. /\ t.active = u.active
      /\ \/ t.state = u.state /\ t.adm = u.adm
         \/ \E j \in Items : Begins(u, j, t)
  BY PumpShape
<1>2. Reserved(t) /\ \A i, j \in Flight(t) : i = j
  <2> HIDE DEF t
  <2>1. Good(t)
    BY DEF t
  <2> QED
    BY <2>1 DEF Good, Locked
<1>3. \A r \in Runtimes : u.active[r] \in Nat /\ r # OneShot
  <2>1. \A r \in Runtimes : r # OneShot
    BY DEF Runtimes, OneShot
  <2> QED
    BY <2>1 DEF GpuState
<1> HIDE DEF t
<1>4. CASE t.state = u.state /\ t.adm = u.adm
  <2>1. Flight(t) = Flight(u)
    BY <1>4 DEF Flight
  <2>2. Served(t, v)
    BY <1>1, <1>4, <2>1 DEF Served
  <2> QED
    BY <2>2 DEF t
<1>5. ASSUME NEW j \in Items, Begins(u, j, t)
      PROVE  Served(t, v)
  <2>1. t.adm[j].at # "none" /\ t.adm[j].adopt = FALSE
    BY <1>5 DEF Begins
  <2>2. Flight(t) = {j}
    BY <1>2, <2>1 DEF Flight
  <2>3. \A r \in Runtimes : t.active[r] > 0 => r = Model[j]
    BY <1>2, <2>2 DEF Reserved
  <2>4. CASE Model[j] = OneShot
    <3>1. \A r \in Runtimes : t.active[r] = 0
      BY <1>1, <1>3, <2>3, <2>4
    <3>2. t.adm[j].at # "check"
      BY <1>5, <2>4 DEF Begins
    <3> QED
      BY <2>1, <2>2, <3>1, <3>2 DEF Served
  <2>5. CASE Model[j] # OneShot
    <3>1. /\ t.state = u.state
          /\ t.adm[j].at = IF u.state[Model[j]] = "loaded" THEN "check" ELSE "probe"
      BY <1>5, <2>5 DEF Begins
    <3>2. t.adm[j].at # "check" => \A r \in Runtimes : t.active[r] = 0
      BY <1>1, <1>3, <2>3, <3>1 DEF Served
    <3> QED
      BY <1>1, <2>1, <2>2, <3>1, <3>2 DEF Served
  <2> QED
    BY <2>4, <2>5
<1> QED
  BY <1>1, <1>4, <1>5 DEF t

(* An admission that ends, with or without a lease. *)
LEMMA RestedServed ==
  ASSUME NEW s \in GpuState, NEW i, NEW u, NEW v, Rested(s, i, u), overdue = {},
         Good(Pump(u)),
         \A r \in Runtimes : u.active[r] > 0 => v[r] = "up" /\ s.state[r] = "loaded"
  PROVE  Served(Pump(u), v)
<1>1. u \in GpuState /\ Ordered(u) /\ Served(u, v)
  BY DEF Rested, Served
<1> QED
  BY <1>1, PumpServed

(* So does an admission that fails.                                        *)
LEMMA FailsServed ==
  ASSUME NEW s, Good(s), NEW i \in Flight(s), NEW v, overdue = {},
         \A r \in Runtimes : s.active[r] > 0 => v[r] = "up" /\ s.state[r] = "loaded",
         NEW outcome \in Final, NEW code \in Refusals
  PROVE  Served(AdmissionFails(s, i, outcome, code), v)
<1>1. PICK u : /\ AdmissionFails(s, i, outcome, code) = Pump(u)
               /\ Leaves(s, i, s.idle, u)
  BY FailsShape
<1>2. Good(Pump(u)) /\ s \in GpuState
  BY <1>1, AdmissionFailsGood DEF Good
<1> QED
  BY <1>1, <1>2, RestedServed DEF Leaves

(* The runtime a lease is given on is loaded, and its service answered. *)
LEMMA ReadyServed ==
  ASSUME NEW s, Good(s), NEW i \in Flight(s), NEW v, overdue = {},
         Model[i] # OneShot, v[Model[i]] = "up", s.state[Model[i]] = "loaded"
  PROVE  Served(RuntimeReady(s, i), v)
<1>1. PICK u : /\ RuntimeReady(s, i) = Pump(u)
               /\ Rested(s, i, u)
               /\ \A r \in Runtimes : r # Model[i] => u.active[r] = s.active[r]
  <2>1. PICK u : /\ RuntimeReady(s, i) = Pump(u)
                 /\ \/ Gives(s, i, u)
                    \/ \E idle : Leaves(s, i, idle, u)
    BY ReadyShape
  <2>2. \A r \in Runtimes : r # Model[i] => u.active[r] = s.active[r]
    BY <2>1 DEF Leaves, Gives, Good, GpuState
  <2> QED
    BY <2>1, <2>2 DEF Leaves, Gives
<1>2. Good(Pump(u)) /\ s \in GpuState
  BY <1>1, RuntimeReadyGood DEF Good
<1>3. \A r \in Runtimes : u.active[r] > 0 => r = Model[i]
  BY <1>1 DEF Good, Reserved
<1> QED
  BY <1>1, <1>2, <1>3, RestedServed

(* So does the admission of a one-shot command, which finds all unloaded.  *)
LEMMA OneShotServed ==
  ASSUME NEW s, Good(s), NEW i \in Flight(s), NEW v, overdue = {},
         Model[i] = OneShot
  PROVE  Served(OneShotReady(s, i), v)
<1>1. PICK u : /\ OneShotReady(s, i) = Pump(u)
               /\ Rested(s, i, u) /\ u.active = s.active
  BY OneShotShape DEF Leaves, GivesAlone
<1>2. Good(Pump(u)) /\ s \in GpuState
  BY <1>1, OneShotReadyGood DEF Good
<1>3. \A r \in Runtimes : ~(u.active[r] > 0)
  BY <1>1 DEF Good, Reserved, Runtimes, OneShot
<1> QED
  BY <1>1, <1>2, <1>3, RestedServed

(* A sweep while no runtime has a request. *)
LEMMA SweepOnServed ==
  ASSUME NEW s, Good(s), NEW i \in Flight(s), NEW v, overdue = {},
         NEW pos \in 0..N, NEW adopt \in BOOLEAN,
         adopt => Model[i] # OneShot /\ v[Model[i]] = "up",
         \A r \in Runtimes : s.active[r] = 0
  PROVE  Served(SweepOn(s, i, pos, adopt), v)
<1> DEFINE t == SweepOn(s, i, pos, adopt)
<1>1. s \in GpuState /\ i \in Items /\ \A j \in Flight(s) : j = i
  BY DEF Good, Flight, Locked
<1>2. ASSUME NEW n, Visits(s, i, pos, adopt, n, t)
      PROVE  Served(t, v)
  <2>1. /\ \A j \in Flight(t) : j = i
        /\ t.adm[i].at \in Sweeps /\ t.adm[i].at # "check"
        /\ t.adm[i].adopt = adopt
        /\ \A r \in Runtimes : t.active[r] = 0
    BY <1>1, <1>2 DEF Visits, Flight, Sweeps
  <2> HIDE DEF t
  <2> QED
    BY <2>1 DEF Served
<1>3. ASSUME t = SweepDone(s, i, adopt)
      PROVE  Served(t, v)
  <2> DEFINE w == [s EXCEPT !.state[Model[i]] = "loaded"]
             z == [s EXCEPT !.state[Model[i]] = "loading",
                            !.adm[i] = [at |-> "startCmd", pos |-> 0,
                                        adopt |-> FALSE]]
  <2>1. t = IF Model[i] = OneShot THEN OneShotReady(s, i)
            ELSE IF adopt THEN RuntimeReady(w, i)
            ELSE IF i \in s.aborted THEN AdmissionFails(s, i, "failed", "e499")
            ELSE z
    BY <1>3 DEF SweepDone
  <2>2. Good(w) /\ i \in Flight(w)
    BY SetStateGood DEF RuntimeStates
  <2>3. Model[i] # OneShot => w.state[Model[i]] = "loaded"
    BY <1>1, RequestsAssumption DEF GpuState
  <2>4. /\ z.active = s.active /\ z.adm[i].at = "startCmd"
        /\ \A j \in Items : j # i => z.adm[j] = s.adm[j]
    BY <1>1 DEF GpuState
  <2> HIDE DEF t, w, z
  <2>5. Served(z, v)
    BY <1>1, <2>4 DEF Served, Flight, Sweeps
  <2>6. Model[i] = OneShot => Served(OneShotReady(s, i), v)
    BY OneShotServed
  <2>7. Model[i] # OneShot /\ adopt => Served(RuntimeReady(w, i), v)
    BY <2>2, <2>3, ReadyServed
  <2>8. Served(AdmissionFails(s, i, "failed", "e499"), v)
    BY FailsServed DEF Final, Refusals
  <2> QED
    BY <2>1, <2>5, <2>6, <2>7, <2>8
<1> QED
  BY <1>2, <1>3, SweepShape

(* So do the calls of the scheduler, the proxy and the routes.             *)
LEMMA CallsServed ==
  ASSUME XInv, Served(gpu, svc), NEW i \in Items,
         \/ Acquire(i) \/ AcquireRefused(i) \/ Release(i)
         \/ Cancel(i) \/ QueueTimeout(i)
  PROVE  Served(gpu', svc')
<1>1. Good(gpu) /\ overdue = {} /\ svc' = svc /\ Good(gpu')
  BY CallShape, CallsGood DEF XInv
<1>2. ASSUME NEW u, Good(u), gpu' = Pump(u), Served(u, svc)
      PROVE  Served(gpu', svc')
  <2>1. u \in GpuState /\ Ordered(u) /\ Good(Pump(u))
    BY <1>1, <1>2 DEF Good
  <2> QED
    BY <1>1, <1>2, <2>1, PumpServed
<1>3. ASSUME NEW u \in GpuState, Frees(gpu, i, u)
      PROVE  Served(u, svc)
  <2>1. \A r \in Runtimes : /\ gpu.active[r] \in Nat /\ u.active[r] \in Nat
                            /\ u.active[r] <= gpu.active[r]
    BY <1>1, <1>3 DEF Good, GpuState, Frees
  <2>2. \A r \in Runtimes : /\ u.active[r] > 0 => gpu.active[r] > 0
                            /\ gpu.active[r] = 0 => u.active[r] = 0
    BY <2>1
  <2>3. u.state = gpu.state /\ u.adm = gpu.adm /\ Flight(u) = Flight(gpu)
    BY <1>3 DEF Frees, Flight
  <2> QED
    BY <2>2, <2>3 DEF Served
<1>4. ASSUME NEW u, Joins(gpu, i, u)
      PROVE  Served(u, svc)
  <2>1. u.state = gpu.state /\ u.adm = gpu.adm /\ Flight(u) = Flight(gpu)
        /\ u.active = gpu.active
    BY <1>4 DEF Joins, Flight
  <2> QED
    BY <2>1 DEF Served
<1>5. \A u : Good(u) => u \in GpuState
  BY DEF Good
<1> QED
  BY <1>1, <1>2, <1>3, <1>4, <1>5, CallShape

(* So do the steps of an admission.                                        *)
LEMMA AdmissionServed ==
  ASSUME XInv, Steered(gpu), Served(gpu, svc), NEW i \in Items, AdmissionStep(i)
  PROVE  Served(gpu', svc')
<1> DEFINE a == gpu.adm[i]
<1>1. /\ i \in Flight(gpu) /\ gpu \in GpuState /\ Good(gpu) /\ overdue = {}
      /\ a.pos \in 0..N /\ a.adopt \in BOOLEAN /\ 0 \in 0..N
      /\ Model[i] = OneShot => a.at \in Sweeps
      /\ ~RefusedSettles(i)
  BY AdmissionFacts
<1>2. /\ \A j \in Flight(gpu) : j = i
      /\ Model[i] # OneShot => Model[i] \in Runtimes
  BY <1>1, RequestsAssumption DEF Good, Locked
<1>3. ASSUME a.at # "check"
      PROVE  \A r \in Runtimes : gpu.active[r] = 0
  BY <1>1, <1>3 DEF Served
<1>4. ASSUME a.at \in Sweeps
      PROVE  /\ a.pos \in Runtimes /\ a.pos # Model[i]
             /\ a.adopt => Model[i] # OneShot /\ svc[Model[i]] = "up"
  BY <1>1, <1>4 DEF Steered, Served
<1>5. ASSUME NEW r, NEW value \in RuntimeStates, a.at \in Sweeps
      PROVE  Served(SweepOn([gpu EXCEPT !.state[r] = value], i, a.pos, a.adopt), svc)
  <2> DEFINE w == [gpu EXCEPT !.state[r] = value]
  <2>1. Good(w) /\ Flight(w) = Flight(gpu) /\ w.active = gpu.active
    BY <1>1, SetStateGood DEF GpuState
  <2>2. \A q \in Runtimes : w.active[q] = 0
    BY <1>3, <1>5, <2>1 DEF Sweeps
  <2>3. a.adopt => Model[i] # OneShot /\ svc[Model[i]] = "up"
    BY <1>4, <1>5
  <2> HIDE DEF w, a
  <2>4. Served(SweepOn(w, i, a.pos, a.adopt), svc)
    BY <1>1, <2>1, <2>2, <2>3, SweepOnServed
  <2> QED
    BY <2>4 DEF w
<1>6. ASSUME NEW t, t.active = gpu.active, a.at # "check",
             \A j \in Items : j # i => t.adm[j] = gpu.adm[j],
             t.adm[i].at # "check", t.adm[i].at \in Sweeps => a.at \in Sweeps,
             t.adm[i].adopt = a.adopt, NEW v, v[Model[i]] = svc[Model[i]]
                                              \/ t.adm[i].at \notin Sweeps
      PROVE  Served(t, v)
  <2>1. \A j \in Flight(t) : j = i
    BY <1>2, <1>6 DEF Flight
  <2>2. \A r \in Runtimes : t.active[r] = 0
    BY <1>3, <1>6
  <2>3. t.adm[i].at \in Sweeps /\ t.adm[i].adopt => v[Model[i]] = "up"
    BY <1>4, <1>6
  <2> QED
    BY <1>6, <2>1, <2>2, <2>3 DEF Served
<1>7. CASE CheckHealth(i)
  <2>1. /\ a.at = "check" /\ Model[i] # OneShot /\ svc' = svc
        /\ gpu.state[Model[i]] = "loaded"
    BY <1>1, <1>7 DEF CheckHealth, Sweeps, Served
  <2>2. CASE Up(Model[i])
    <3>1. Served(RuntimeReady(gpu, i), svc)
      BY <1>1, <2>1, <2>2, ReadyServed DEF Up
    <3> QED
      BY <1>7, <2>1, <2>2, <3>1 DEF CheckHealth
  <2>3. CASE ~Up(Model[i])
    <3>1. gpu' = [gpu EXCEPT !.adm[i].at = "probe"]
      BY <1>7, <2>3 DEF CheckHealth
    <3>2. /\ gpu'.active = gpu.active /\ gpu'.adm[i].at = "probe"
          /\ \A j \in Items : j # i => gpu'.adm[j] = gpu.adm[j]
      BY <1>1, <3>1 DEF GpuState
    <3>3. \A r \in Runtimes : ~(gpu.active[r] > 0)
      BY <1>1, <2>3 DEF Good, Reserved, Served, Up
    <3>4. \A r \in Runtimes : gpu'.active[r] = 0
      BY <1>1, <3>2, <3>3 DEF GpuState
    <3> QED
      BY <1>2, <3>2, <3>4 DEF Served, Flight, Sweeps
  <2> QED
    BY <2>2, <2>3
<1>8. CASE ProbeHealth(i)
  <2>1. a.at = "probe" /\ Model[i] # OneShot /\ svc' = svc
        /\ Up(Model[i]) \in BOOLEAN
    BY <1>1, <1>8 DEF ProbeHealth, Sweeps, Up
  <2>2. \A r \in Runtimes : gpu.active[r] = 0
    BY <1>3, <2>1
  <2>3. Up(Model[i]) => svc[Model[i]] = "up"
    BY DEF Up
  <2> HIDE DEF a
  <2>4. Served(SweepOn(gpu, i, 0, Up(Model[i])), svc)
    BY <1>1, <2>1, <2>2, <2>3, SweepOnServed
  <2> QED
    BY <1>8, <2>1, <2>4 DEF ProbeHealth
<1>9. CASE SweepProbe(i)
  <2> DEFINE value == IF gpu.state[a.pos] = "failed" THEN "failed" ELSE "unloaded"
             w == [gpu EXCEPT !.state[a.pos] = value]
             t == [BeginStop(gpu, a.pos) EXCEPT !.adm[i].at = "stopCmd"]
  <2>1. svc' = svc
        /\ (gpu' = SweepOn(w, i, a.pos, a.adopt) \/ gpu' = t)
    BY <1>9, SweepProbeShape
  <2>2. value \in RuntimeStates /\ a.at \in Sweeps /\ a.at # "check"
    BY <1>9 DEF RuntimeStates, Sweeps, SweepProbe
  <2>3. /\ t.active = gpu.active
        /\ t.adm[i].at = "stopCmd" /\ t.adm[i].adopt = a.adopt
        /\ \A j \in Items : j # i => t.adm[j] = gpu.adm[j]
    BY <1>1 DEF GpuState, Admission, BeginStop
  <2> HIDE DEF t, value
  <2>4. Served(SweepOn(w, i, a.pos, a.adopt), svc)
    BY <1>5, <2>2
  <2>5. Served(t, svc)
    BY <1>6, <2>2, <2>3
  <2> QED
    BY <2>1, <2>4, <2>5
<1>10. CASE SweepStopCommand(i)
  <2>1. /\ gpu' = [gpu EXCEPT !.adm[i].at = "stopWait"]
        /\ svc' = [svc EXCEPT ![a.pos] = "down"]
        /\ a.at \in Sweeps /\ a.at # "check"
    BY <1>10 DEF SweepStopCommand, Sweeps
  <2>2. /\ gpu'.active = gpu.active
        /\ gpu'.adm[i].at = "stopWait" /\ gpu'.adm[i].adopt = a.adopt
        /\ \A j \in Items : j # i => gpu'.adm[j] = gpu.adm[j]
    BY <1>1, <2>1 DEF GpuState, Admission
  <2>3. svc'[Model[i]] = svc[Model[i]]
    BY <1>4, <2>1
  <2> QED
    BY <1>6, <2>1, <2>2, <2>3
<1>11. CASE StartCommand(i)
  <2>1. /\ gpu' = [gpu EXCEPT !.adm[i].at = "startWait"] /\ a.at # "check"
    BY <1>11 DEF StartCommand
  <2>2. /\ gpu'.active = gpu.active
        /\ gpu'.adm[i].at = "startWait" /\ gpu'.adm[i].adopt = a.adopt
        /\ \A j \in Items : j # i => gpu'.adm[j] = gpu.adm[j]
    BY <1>1, <2>1 DEF GpuState, Admission
  <2> QED
    BY <1>6, <2>1, <2>2 DEF Sweeps
<1>12. CASE SweepStopped(i) \/ SweepStopFails(i)
  <2>1. PICK value \in RuntimeStates :
           gpu' = SweepOn([gpu EXCEPT !.state[a.pos] = value], i, a.pos, a.adopt)
    BY <1>12 DEF SweepStopped, SweepStopFails, RuntimeStates
  <2>2. a.at \in Sweeps /\ svc' = svc
    BY <1>12 DEF SweepStopped, SweepStopFails, Sweeps
  <2> QED
    BY <1>5, <2>1, <2>2
<1>13. CASE StartCommandFails(i) \/ LoadAborted(i) \/ LoadTimesOut(i)
  <2> DEFINE w == [gpu EXCEPT !.state[Model[i]] = "failed"]
  <2>1. PICK code \in Refusals : gpu' = LoadFails(gpu, i, code)
    BY <1>13 DEF StartCommandFails, LoadAborted, LoadTimesOut, Refusals
  <2>2. a.at # "check" /\ svc' = svc
    BY <1>13 DEF StartCommandFails, LoadAborted, LoadTimesOut
  <2>3. gpu' = AdmissionFails(w, i, "failed", code)
    BY <2>1 DEF LoadFails
  <2>4. Good(w) /\ i \in Flight(w) /\ w.active = gpu.active
    BY <1>1, SetStateGood DEF RuntimeStates, GpuState
  <2> HIDE DEF w
  <2>5. \A r \in Runtimes : ~(w.active[r] > 0)
    BY <1>3, <2>2, <2>4
  <2> QED
    BY <1>1, <2>2, <2>3, <2>4, <2>5, FailsServed DEF Final
<1>14. CASE LoadHealthy(i)
  <2> DEFINE w == [gpu EXCEPT !.state[Model[i]] = "loaded"]
  <2>1. Good(w) /\ i \in Flight(w)
    BY <1>1, SetStateGood DEF RuntimeStates
  <2>2. /\ gpu' = RuntimeReady(w, i) /\ Model[i] # OneShot /\ svc' = svc
        /\ svc[Model[i]] = "up"
    BY <1>1, <1>14 DEF LoadHealthy, Sweeps, Up
  <2>3. w.state[Model[i]] = "loaded"
    BY <1>1, <1>2, <2>2 DEF GpuState
  <2> HIDE DEF w
  <2>4. Served(RuntimeReady(w, i), svc)
    BY <1>1, <2>1, <2>2, <2>3, ReadyServed
  <2> QED
    BY <2>2, <2>4
<1> QED
  BY <1>1, <1>7, <1>8, <1>9, <1>10, <1>11, <1>12, <1>13, <1>14 DEF AdmissionStep

(* The calls of the coordinator's users leave the admission alone. *)
LEMMA CallsSteered ==
  ASSUME XInv, Steered(gpu), NEW i \in Items,
         \/ Acquire(i) \/ AcquireRefused(i) \/ Release(i)
         \/ Cancel(i) \/ QueueTimeout(i)
  PROVE  Steered(gpu')
<1>1. ASSUME NEW u, u.adm = gpu.adm
      PROVE  Steered(u)
  BY <1>1 DEF Steered, Flight
<1>2. ASSUME NEW u, Good(u), u.adm = gpu.adm
      PROVE  Steered(Pump(u))
  BY <1>1, <1>2, PumpSteered DEF Good, XInv
<1> QED
  BY <1>1, <1>2, CallShape DEF Frees, Joins

(* Without idle unloads, forced ones and health refreshes nothing but the   *)
(* admission touches a runtime.                                             *)
Undisturbed ==
  \A r \in Runtimes : idleStop[r] = "none" /\ forceStop[r] = "none"
                      /\ probe[r] = "none"

SInv == XInv /\ Steered(gpu) /\ Undisturbed /\ Served(gpu, svc)

(* So does every step, but for the five events the theorem excludes.       *)
LEMMA NextServed ==
  ASSUME {"late", "refresh", "force", "idle", "crash"} \cap Events = {},
         SInv, [Next]_vars
  PROVE  SInv'
<1>1. XInv /\ Steered(gpu) /\ Undisturbed /\ Served(gpu, svc) /\ XInv'
      /\ gpu \in GpuState /\ svc \in [Runtimes -> {"down", "starting", "up"}]
  BY NextXInv DEF SInv, XInv, IInv, TypeOK
<1>2. CASE UNCHANGED vars
  BY <1>1, <1>2 DEF vars, SInv, Steered, Undisturbed, Served, Flight
<1>3. ASSUME NEW i \in Items,
             \/ Acquire(i) \/ AcquireRefused(i) \/ Release(i)
             \/ Cancel(i) \/ QueueTimeout(i)
      PROVE  Steered(gpu') /\ Undisturbed' /\ Served(gpu', svc')
  <2>1. UNCHANGED <<idleStop, forceStop, probe>>
    BY <1>1, <1>3, CallShape
  <2>2. Served(gpu', svc')
    BY <1>1, <1>3, CallsServed
  <2>3. Steered(gpu')
    BY <1>1, <1>3, CallsSteered
  <2> QED
    BY <1>1, <2>1, <2>2, <2>3 DEF Undisturbed
<1>4. ASSUME NEW i \in Items, AdmissionStep(i)
      PROVE  Steered(gpu') /\ Undisturbed' /\ Served(gpu', svc')
  <2>1. UNCHANGED <<idleStop, forceStop, probe>>
    BY <1>1, <1>4, AdmissionFacts
  <2> QED
    BY <1>1, <1>4, <2>1, AdmissionSteered, AdmissionServed DEF Undisturbed
<1>5. ASSUME NEW r \in Runtimes, RuntimeStep(r)
      PROVE  Steered(gpu') /\ Undisturbed' /\ Served(gpu', svc')
  <2>1. ServiceReady(r) \/ ServiceStartedOutside(r)
    BY <1>1, <1>5, Zenon DEF RuntimeStep, IdleFires, ForceUnload, StopStep,
       IdleStopCommand, IdleStopped, IdleStopFails, ForceStopCommand,
       ForceStopped, ForceStopFails, RefreshProbe, ServiceDies, Undisturbed
  <2>2. UNCHANGED <<gpu, idleStop, forceStop, probe>>
        /\ svc' = [svc EXCEPT ![r] = "up"]
    BY <2>1 DEF ServiceReady, ServiceStartedOutside
  <2>3. \A q : svc[q] = "up" => svc'[q] = "up"
    BY <1>1, <2>2
  <2>4. Served(gpu', svc')
    BY <1>1, <2>2, <2>3 DEF Served
  <2> QED
    BY <1>1, <2>2, <2>4 DEF Undisturbed
<1>6. ~RefreshApply
  BY <1>1, RuntimesAssumption DEF RefreshApply, Undisturbed, Runtimes
<1>7. CASE Next
  <2>1. ASSUME NEW i \in Items, ItemStep(i)
        PROVE  Steered(gpu') /\ Undisturbed' /\ Served(gpu', svc')
    BY <1>3, <1>4, <2>1 DEF ItemStep, DeadlinePasses
  <2> QED
    BY <1>1, <1>5, <1>6, <1>7, <2>1 DEF Next, SInv
<1> QED
  BY <1>2, <1>7

(* Nothing is loaded or in progress at the start.                          *)
LEMMA InitServed == Init => SInv
<1> SUFFICES ASSUME Init PROVE SInv
  OBVIOUS
<1>1. XInv
  BY InitXInv
<1>2. Flight(gpu) = {} /\ (\A r \in Runtimes : gpu.active[r] = 0)
  BY DEF Init, Flight, NotAdmitting
<1>3. Undisturbed
  BY DEF Init, Undisturbed
<1> QED
  BY <1>1, <1>2, <1>3 DEF SInv, Steered, Served

(* "Active work is not interrupted except by explicit cancellation or admin *)
(* force unload": sweeps of other admissions, however their stop commands   *)
(* and loads fail, and clients that abort never take the runtime of a lease *)
(* away.  An idle timer does: its stop command outlives the check that      *)
(* found nobody, and a new lease may come in between.  So does a health     *)
(* refresh that was probed before a load ended.                             *)
THEOREM ActiveWorkStays ==
  ASSUME {"late", "refresh", "force", "idle", "crash"} \cap Events = {}
  PROVE  Spec => []ActiveWorkUninterrupted
<1>1. Init => SInv
  BY InitServed
<1>2. SInv /\ [Next]_vars => SInv'
  BY NextServed
<1>3. SInv => ActiveWorkUninterrupted
  <2> SUFFICES ASSUME SInv, NEW i \in Held, Model[i] # OneShot
               PROVE  svc[Model[i]] = "up" /\ gpu.state[Model[i]] = "loaded"
    BY DEF ActiveWorkUninterrupted
  <2>1. ActiveAccounting /\ gpu \in GpuState /\ Served(gpu, svc)
    BY CountersRight DEF SInv, XInv, Good
  <2>2. i \in Items /\ Model[i] \in Runtimes
    BY RequestsAssumption DEF Held
  <2>3. /\ i \in gpu.ids[Model[i]]
        /\ gpu.active[Model[i]] = Cardinality(gpu.ids[Model[i]])
    BY <2>1, <2>2 DEF ActiveAccounting, HeldOn
  <2>4. IsFiniteSet(gpu.ids[Model[i]])
    BY <2>1, <2>2, ItemsAssumption, FS_Subset DEF GpuState
  <2>5. gpu.active[Model[i]] # 0
    BY <2>3, <2>4, FS_EmptySet
  <2>6. gpu.active[Model[i]] > 0
    BY <2>1, <2>2, <2>5 DEF GpuState
  <2> QED
    BY <2>1, <2>2, <2>6 DEF Served
<1> QED
  BY <1>1, <1>2, <1>3, PTL DEF Spec

-----------------------------------------------------------------------------
(* Idle runtimes are timed *)

(* A queue that is not empty has a head. *)
LEMMA QueueHead ==
  ASSUME NEW s \in GpuState, overdue = {}, Queued(s) # {}
  PROVE  \E i \in Queued(s) : \A j \in Queued(s) : ~Ahead(s, j, i)
<1> DEFINE size(i) == Cardinality(FreshAhead(s, i))
           sizes == {size(i) : i \in Queued(s)}
<1>1. Fresh(s) = Queued(s) /\ Queued(s) \subseteq Items
  BY FreshFinite DEF Fresh
<1>2. sizes \subseteq Nat /\ sizes # {}
  BY FreshFinite
<1>3. PICK n \in sizes : \A m \in sizes : ~(<<m, n>> \in OpToRel(<, Nat))
  <2> HIDE DEF sizes
  <2> QED
    BY <1>2, NatLessThanWellFounded, WFMin
<1>4. PICK i \in Queued(s) : n = size(i)
  OBVIOUS
<1>5. ASSUME NEW j \in Queued(s), Ahead(s, j, i)
      PROVE  FALSE
  <2>1. FreshAhead(s, j) \subseteq FreshAhead(s, i) /\ size(j) <= size(i)
    BY <1>1, <1>5, AheadShrinks
  <2>2. j \in FreshAhead(s, i)
    BY <1>1, <1>5 DEF FreshAhead
  <2>3. j \notin FreshAhead(s, j)
    <3>1. Priority[j] \in Nat /\ s.born[j] \in Nat
      BY <1>1, RequestsAssumption DEF GpuState
    <3> QED
      BY <3>1 DEF FreshAhead, Ahead
  <2>4. size(j) # size(i)
    BY <2>1, <2>2, <2>3, FS_Subset, FreshFinite
  <2>5. size(j) \in Nat /\ size(i) \in Nat /\ size(j) \in sizes
    BY FreshFinite
  <2> HIDE DEF size, sizes
  <2>6. size(j) < size(i)
    BY <2>1, <2>4, <2>5
  <2> QED
    BY <1>3, <1>4, <2>5, <2>6 DEF OpToRel
<1> QED
  BY <1>5

(* The runtimes on record as loaded. *)
Loaded(s) == {r \in Runtimes : s.state[r] = "loaded"}

(* One runtime is resident, it is the one in use, and none beside a one-shot. *)
Single(s) ==
  /\ \A q, r \in Loaded(s) : q = r
  /\ s.oneShot # NoItem => Loaded(s) = {}
  /\ \A q \in Loaded(s), r \in Runtimes : s.active[r] > 0 => q = r

(* What the admission of i has still to do about resident runtimes. *)
Clearing(s, v, i) ==
  /\ s.adm[i].at = "check" => Loaded(s) \subseteq {Model[i]}
  /\ s.adm[i].at \in Sweeps =>
       /\ \A q \in Loaded(s) : q = Model[i] \/ q >= s.adm[i].pos
       /\ s.adm[i].adopt => v[Model[i]] # "starting"
       /\ ~s.adm[i].adopt /\ Model[i] \in Loaded(s) => v[Model[i]] = "down"
  /\ s.adm[i].at \in Starts => Loaded(s) = {}

(* Between admissions an idle resident runtime has its timer. *)
IdleTimed(s, v) ==
  \A r \in Loaded(s) : v[r] = "up" /\ s.active[r] = 0 => r \in s.idle

Resident(s, v) ==
  /\ Single(s)
  /\ \A r \in Loaded(s) : v[r] # "starting"
  /\ \A i \in Flight(s) : Clearing(s, v, i)
  /\ Flight(s) = {} => IdleTimed(s, v)

(* pump() starts an admission, or leaves the runtimes alone. *)
LEMMA PumpResident ==
  ASSUME NEW u \in GpuState, Ordered(u), overdue = {}, NEW v,
         Good(Pump(u)), Resident(u, v)
  PROVE  Resident(Pump(u), v)
<1> DEFINE t == Pump(u)
<1>1. /\ t.active = u.active /\ t.oneShot = u.oneShot
      /\ \/ t.state = u.state /\ t.idle = u.idle /\ t.adm = u.adm
         \/ \E j \in Items : Begins(u, j, t)
  BY PumpShape
<1>2. \A i, j \in Flight(t) : i = j
  <2> HIDE DEF t
  <2>1. Good(t)
    BY DEF t
  <2> QED
    BY <2>1 DEF Good, Locked
<1>3. 1 \in Runtimes /\ \A r \in Runtimes : r # OneShot /\ r >= 1 /\ r \in Nat
  BY RuntimesAssumption DEF Runtimes, OneShot
<1> HIDE DEF t
<1>4. CASE t.state = u.state /\ t.idle = u.idle /\ t.adm = u.adm
  <2>1. Flight(t) = Flight(u) /\ Loaded(t) = Loaded(u)
    BY <1>4 DEF Flight, Loaded
  <2>2. Resident(t, v)
    BY <1>1, <1>4, <2>1 DEF Resident, Single, Clearing, IdleTimed
  <2> QED
    BY <2>2 DEF t
<1>5. ASSUME NEW j \in Items, Begins(u, j, t)
      PROVE  Resident(t, v)
  <2>1. t.adm[j].at # "none" /\ t.adm[j].adopt = FALSE /\ t.oneShot = NoItem
    BY <1>1, <1>5 DEF Begins
  <2>2. Flight(t) = {j}
    BY <1>2, <2>1 DEF Flight
  <2>3. Loaded(t) \subseteq Loaded(u)
    BY <1>5, <1>3 DEF Begins, Loaded, GpuState
  <2>4. Single(t)
    BY <1>1, <2>1, <2>3 DEF Single, Resident
  <2>5. \A r \in Loaded(t) : v[r] # "starting"
    BY <2>3 DEF Resident
  <2>6. CASE Model[j] = OneShot
    <3>1. /\ t.adm[j].pos = 1 /\ t.adm[j].at \in Sweeps
          /\ Model[j] \notin Loaded(t)
      BY <1>3, <1>5, <2>6 DEF Begins, Sweeps, Loaded
    <3>2. \A q \in Loaded(t) : q >= 1
      BY <1>3 DEF Loaded
    <3>3. Clearing(t, v, j)
      BY <2>1, <3>1, <3>2 DEF Clearing, Sweeps, Starts
    <3> QED
      BY <2>2, <2>4, <2>5, <3>3 DEF Resident
  <2>7. CASE Model[j] # OneShot
    <3>1. /\ t.state = u.state
          /\ t.adm[j].at = IF u.state[Model[j]] = "loaded"
                             THEN "check" ELSE "probe"
      BY <1>5, <2>7 DEF Begins
    <3>2. Model[j] \in Runtimes
      BY <2>7, RequestsAssumption
    <3>3. t.adm[j].at = "check" => Loaded(t) \subseteq {Model[j]}
      BY <2>4, <3>1, <3>2 DEF Single, Loaded
    <3>4. Clearing(t, v, j)
      BY <3>1, <3>3 DEF Clearing, Sweeps, Starts
    <3> QED
      BY <2>2, <2>4, <2>5, <3>4 DEF Resident
  <2> QED
    BY <2>6, <2>7
<1> QED
  BY <1>1, <1>4, <1>5 DEF t

(* An admission that ends, with or without a lease. *)
LEMMA RestedResident ==
  ASSUME NEW s \in GpuState, NEW i, NEW u, NEW v, Rested(s, i, u), overdue = {},
         Good(Pump(u)), Single(u), \A r \in Loaded(u) : v[r] # "starting",
         IdleTimed(u, v)
  PROVE  Resident(Pump(u), v)
<1>1. u \in GpuState /\ Ordered(u) /\ Resident(u, v)
  BY DEF Rested, Resident
<1> QED
  BY <1>1, PumpResident

(* One that fails leaves no idle runtime that is up. *)
LEMMA FailsResident ==
  ASSUME NEW s, Good(s), NEW i \in Flight(s), NEW v, overdue = {},
         Single(s), \A r \in Loaded(s) : v[r] \notin {"starting", "up"},
         NEW outcome \in Final, NEW code \in Refusals
  PROVE  Resident(AdmissionFails(s, i, outcome, code), v)
<1>1. PICK u : /\ AdmissionFails(s, i, outcome, code) = Pump(u)
               /\ Leaves(s, i, s.idle, u)
  BY FailsShape
<1>2. Good(Pump(u)) /\ s \in GpuState
  BY <1>1, AdmissionFailsGood DEF Good
<1>3. /\ Rested(s, i, u) /\ u.state = s.state /\ u.active = s.active
      /\ u.oneShot = s.oneShot
  BY <1>1 DEF Leaves, Rested
<1>4. Loaded(u) = Loaded(s)
  BY <1>3 DEF Loaded
<1>5. Single(u) /\ IdleTimed(u, v) /\ \A r \in Loaded(u) : v[r] # "starting"
  BY <1>3, <1>4 DEF Single, IdleTimed
<1> QED
  BY <1>1, <1>2, <1>3, <1>5, RestedResident

(* A runtime that is ready is the resident one: it has a request, or the   *)
(* aborted admission arms its timer. *)
LEMMA ReadyResident ==
  ASSUME NEW s, Good(s), NEW i \in Flight(s), NEW v, overdue = {},
         Model[i] # OneShot, Loaded(s) \subseteq {Model[i]},
         v[Model[i]] # "starting"
  PROVE  Resident(RuntimeReady(s, i), v)
<1> DEFINE m == Model[i]
<1>1. /\ s \in GpuState /\ i \in Items /\ m \in Runtimes /\ s.oneShot = NoItem
      /\ \A r \in Runtimes : s.active[r] \in Nat
      /\ \A r \in Runtimes : s.active[r] > 0 => r = m
  BY RequestsAssumption DEF Good, Flight, Reserved, GpuState
<1>2. PICK u : /\ RuntimeReady(s, i) = Pump(u)
               /\ \/ Gives(s, i, u)
                  \/ Leaves(s, i, IF s.active[m] = 0 /\ s.state[m] = "loaded"
                                    THEN s.idle \cup {m} ELSE s.idle \ {m}, u)
  BY ReadyShape
<1>3. Good(Pump(u)) /\ Rested(s, i, u) /\ u.oneShot = NoItem
      /\ u.state = s.state
  BY <1>1, <1>2, RuntimeReadyGood DEF Leaves, Gives, Rested
<1>4. Loaded(u) = Loaded(s)
  BY <1>3 DEF Loaded
<1>5. \A r \in Runtimes : u.active[r] > 0 => r = m
  BY <1>1, <1>2 DEF Gives, Leaves, GpuState
<1>6. Single(u)
  BY <1>3, <1>4, <1>5 DEF Single
<1>7. IdleTimed(u, v)
  <2> SUFFICES ASSUME m \in Loaded(u), u.active[m] = 0 PROVE m \in u.idle
    BY <1>4 DEF IdleTimed
  <2>1. ~Gives(s, i, u)
    BY <1>1 DEF Gives, GpuState
  <2>2. u.active = s.active /\ s.state[m] = "loaded"
    BY <1>2, <1>3, <2>1 DEF Leaves, Loaded
  <2> QED
    BY <1>2, <2>1, <2>2 DEF Leaves
<1> QED
  BY <1>1, <1>2, <1>3, <1>4, <1>6, <1>7, RestedResident

(* A one-shot finds no runtime resident. *)
LEMMA OneShotResident ==
  ASSUME NEW s, Good(s), NEW i \in Flight(s), NEW v, overdue = {},
         Model[i] = OneShot, Loaded(s) = {}
  PROVE  Resident(OneShotReady(s, i), v)
<1>1. PICK u : OneShotReady(s, i) = Pump(u) /\ Rested(s, i, u)
  BY OneShotShape DEF Leaves, GivesAlone
<1>2. Good(Pump(u)) /\ s \in GpuState
  BY <1>1, OneShotReadyGood DEF Good
<1>3. Loaded(u) = {}
  BY <1>1 DEF Rested, Loaded
<1>4. Single(u) /\ IdleTimed(u, v)
  BY <1>3 DEF Single, IdleTimed
<1> QED
  BY <1>1, <1>2, <1>3, <1>4, RestedResident

(* A sweep that has dealt with the runtimes up to pos. *)
LEMMA SweepOnResident ==
  ASSUME NEW s, Good(s), NEW i \in Flight(s), NEW v, overdue = {},
         NEW pos \in 0..N, NEW adopt \in BOOLEAN,
         Single(s), \A r \in Loaded(s) : v[r] # "starting",
         \A q \in Loaded(s) : q = Model[i] \/ q > pos,
         adopt => Model[i] # OneShot /\ v[Model[i]] # "starting",
         ~adopt /\ Model[i] \in Loaded(s) => v[Model[i]] = "down"
  PROVE  Resident(SweepOn(s, i, pos, adopt), v)
<1> DEFINE t == SweepOn(s, i, pos, adopt)
<1>1. /\ s \in GpuState /\ i \in Items /\ \A j \in Flight(s) : j = i
      /\ s.oneShot = NoItem
      /\ \A r \in Runtimes : s.active[r] > 0 => r = Model[i]
  BY DEF Good, Flight, Locked, Reserved
<1>2. \A r \in Runtimes : r # OneShot /\ r \in Nat
  BY DEF Runtimes, OneShot
<1>3. ASSUME NEW n, Visits(s, i, pos, adopt, n, t)
      PROVE  Resident(t, v)
  <2>1. /\ n \in Runtimes /\ n # Model[i]
        /\ \A q \in Runtimes : q > pos /\ q # Model[i] => n <= q
        /\ t.active = s.active /\ t.oneShot = s.oneShot
        /\ t.adm[i].at \in {"stopCmd", "sweepProbe"}
        /\ t.adm[i].pos = n /\ t.adm[i].adopt = adopt
        /\ \A j \in Items : j # i => t.adm[j] = s.adm[j]
    BY <1>3 DEF Visits
  <2>2. Loaded(t) \subseteq Loaded(s)
    BY <1>1, <1>3 DEF Visits, Loaded, GpuState
  <2>3. Flight(t) = {i}
    BY <1>1, <2>1 DEF Flight
  <2>4. \A q \in Loaded(t) : q = Model[i] \/ q >= n
    <3> SUFFICES ASSUME NEW q \in Loaded(t), q # Model[i] PROVE q >= n
      OBVIOUS
    <3>1. q \in Runtimes /\ q > pos
      BY <2>2 DEF Loaded
    <3>2. n <= q /\ n \in Nat /\ q \in Nat
      BY <1>2, <2>1, <3>1
    <3> QED
      BY <3>2
  <2>5. Single(t) /\ \A r \in Loaded(t) : v[r] # "starting"
    BY <1>1, <2>1, <2>2 DEF Single
  <2> HIDE DEF t
  <2>6. Clearing(t, v, i)
    BY <2>1, <2>2, <2>4 DEF Clearing, Sweeps, Starts
  <2> QED
    BY <2>3, <2>5, <2>6 DEF Resident
<1>4. ASSUME \A q \in Runtimes : q > pos => q = Model[i],
             t = SweepDone(s, i, adopt)
      PROVE  Resident(t, v)
  <2> DEFINE w == [s EXCEPT !.state[Model[i]] = "loaded"]
             z == [s EXCEPT !.state[Model[i]] = "loading",
                            !.adm[i] = [at |-> "startCmd", pos |-> 0,
                                        adopt |-> FALSE]]
  <2>1. t = IF Model[i] = OneShot THEN OneShotReady(s, i)
            ELSE IF adopt THEN RuntimeReady(w, i)
            ELSE IF i \in s.aborted THEN AdmissionFails(s, i, "failed", "e499")
            ELSE z
    BY <1>4 DEF SweepDone
  <2>2. Loaded(s) \subseteq {Model[i]}
    BY <1>4 DEF Loaded
  <2>3. Good(w) /\ i \in Flight(w)
    BY SetStateGood DEF RuntimeStates
  <2>4. Loaded(w) \subseteq {Model[i]}
    BY <1>1, <2>2 DEF Loaded, GpuState
  <2>5. /\ z.active = s.active /\ z.oneShot = s.oneShot
        /\ z.adm[i].at = "startCmd"
        /\ \A j \in Items : j # i => z.adm[j] = s.adm[j]
        /\ Loaded(z) \subseteq Loaded(s) \ {Model[i]}
    BY <1>1 DEF GpuState, Loaded
  <2> HIDE DEF t, w, z
  <2>6. Resident(z, v)
    <3>1. Loaded(z) = {} /\ Flight(z) = {i}
      BY <1>1, <2>2, <2>5 DEF Flight
    <3>2. Clearing(z, v, i) /\ Single(z)
      BY <2>5, <3>1 DEF Clearing, Single, Sweeps
    <3> QED
      BY <3>1, <3>2 DEF Resident
  <2>7. ASSUME Model[i] = OneShot
        PROVE  Resident(OneShotReady(s, i), v)
    <3>1. Loaded(s) = {}
      BY <1>2, <2>2, <2>7 DEF Loaded
    <3> QED
      BY <2>7, <3>1, OneShotResident
  <2>8. Model[i] # OneShot /\ adopt => Resident(RuntimeReady(w, i), v)
    BY <2>3, <2>4, ReadyResident
  <2>9. ~adopt => Resident(AdmissionFails(s, i, "failed", "e499"), v)
    <3>1. ~adopt => \A r \in Loaded(s) : v[r] \notin {"starting", "up"}
      BY <2>2
    <3> QED
      BY <3>1, FailsResident DEF Final, Refusals
  <2> QED
    BY <2>1, <2>6, <2>7, <2>8, <2>9
<1> QED
  BY <1>3, <1>4, SweepShape

(* A runtime the record no longer calls loaded, a request less, a service   *)
(* that went down. *)
LEMMA EasedResident ==
  ASSUME NEW s, NEW t, NEW v, NEW w, Steered(s), Resident(s, v),
         t.adm = s.adm, t.oneShot \in {s.oneShot, NoItem},
         Loaded(t) \subseteq Loaded(s),
         \A r \in Runtimes : t.active[r] > 0 => s.active[r] > 0,
         \A r \in Runtimes : w[r] \in {v[r], "down"},
         Flight(s) = {} => IdleTimed(t, w)
  PROVE  Resident(t, w)
<1>1. Flight(t) = Flight(s) /\ Flight(s) \subseteq Items
  BY DEF Flight
<1>2. Single(t)
  BY DEF Single, Resident
<1>3. \A r \in Loaded(t) : w[r] # "starting"
  BY DEF Resident, Loaded
<1>4. ASSUME NEW i \in Flight(s)
      PROVE  Clearing(t, w, i)
  <2>1. Clearing(s, v, i)
    BY DEF Resident
  <2>2. s.adm[i].at \in Sweeps /\ s.adm[i].adopt => Model[i] # OneShot
    BY DEF Steered
  <2>3. Model[i] # OneShot => w[Model[i]] \in {v[Model[i]], "down"}
    BY <1>1, RequestsAssumption
  <2>4. \A r \in Loaded(t) : r \in Runtimes
    BY DEF Loaded
  <2> QED
    BY <2>1, <2>2, <2>3, <2>4 DEF Clearing
<1> QED
  BY <1>1, <1>2, <1>3, <1>4 DEF Resident

(* So do the calls of the scheduler, the proxy and the routes. *)
LEMMA CallsResident ==
  ASSUME XInv, Steered(gpu), Resident(gpu, svc), NEW i \in Items,
         \/ Acquire(i) \/ AcquireRefused(i) \/ Release(i)
         \/ Cancel(i) \/ QueueTimeout(i)
  PROVE  Resident(gpu', svc')
<1>1. Good(gpu) /\ overdue = {} /\ svc' = svc /\ Good(gpu')
  BY CallShape, CallsGood DEF XInv
<1>2. ASSUME NEW u, Good(u), gpu' = Pump(u), Resident(u, svc)
      PROVE  Resident(gpu', svc')
  <2>1. u \in GpuState /\ Ordered(u) /\ Good(Pump(u))
    BY <1>1, <1>2 DEF Good
  <2> QED
    BY <1>1, <1>2, <2>1, PumpResident
<1>3. ASSUME NEW u \in GpuState, Frees(gpu, i, u)
      PROVE  Resident(u, svc)
  <2>1. \A r \in Runtimes : /\ gpu.active[r] \in Nat /\ u.active[r] \in Nat
                            /\ u.active[r] <= gpu.active[r]
    BY <1>1, <1>3 DEF Good, GpuState, Frees
  <2>2. \A r \in Runtimes : u.active[r] > 0 => gpu.active[r] > 0
    BY <2>1
  <2>3. /\ u.state = gpu.state /\ u.adm = gpu.adm
        /\ u.oneShot \in {gpu.oneShot, NoItem} /\ Loaded(u) = Loaded(gpu)
    BY <1>3 DEF Frees, Loaded
  <2>4. Flight(gpu) = {} => IdleTimed(u, svc)
    <3> SUFFICES ASSUME Flight(gpu) = {}, NEW r \in Loaded(u),
                        svc[r] = "up", u.active[r] = 0
                 PROVE  r \in u.idle
      BY DEF IdleTimed
    <3>1. r \in Runtimes /\ gpu.state[r] = "loaded"
      BY <2>3 DEF Loaded
    <3>2. gpu.active[r] > 0 \/ r \in gpu.idle
      BY <2>1, <2>3, <3>1 DEF Resident, IdleTimed
    <3> QED
      BY <1>3, <3>1, <3>2 DEF Frees
  <2> QED
    BY <2>2, <2>3, <2>4, EasedResident
<1>4. ASSUME NEW u, Joins(gpu, i, u)
      PROVE  Resident(u, svc)
  <2>1. /\ u.state = gpu.state /\ u.adm = gpu.adm /\ Flight(u) = Flight(gpu)
        /\ u.active = gpu.active /\ u.oneShot = gpu.oneShot
        /\ u.idle = gpu.idle /\ Loaded(u) = Loaded(gpu)
    BY <1>4 DEF Joins, Flight, Loaded
  <2> QED
    BY <2>1 DEF Resident, Single, Clearing, IdleTimed
<1>5. \A u : Good(u) => u \in GpuState
  BY DEF Good
<1> QED
  BY <1>1, <1>2, <1>3, <1>4, <1>5, CallShape

(* So do the steps of an admission. *)
LEMMA AdmissionResident ==
  ASSUME XInv, Steered(gpu), Resident(gpu, svc), NEW i \in Items,
         AdmissionStep(i)
  PROVE  Resident(gpu', svc')
<1> DEFINE a == gpu.adm[i]
           m == Model[i]
<1>1. /\ i \in Flight(gpu) /\ gpu \in GpuState /\ Good(gpu) /\ overdue = {}
      /\ a.pos \in 0..N /\ a.adopt \in BOOLEAN /\ 0 \in 0..N
      /\ m = OneShot => a.at \in Sweeps
      /\ ~RefusedSettles(i)
  BY AdmissionFacts
<1>2. /\ \A j \in Flight(gpu) : j = i
      /\ m # OneShot => m \in Runtimes
      /\ Single(gpu) /\ Clearing(gpu, svc, i)
      /\ \A r \in Loaded(gpu) : svc[r] # "starting"
      /\ svc \in [Runtimes -> {"down", "starting", "up"}]
  BY <1>1, RequestsAssumption DEF Good, Locked, Resident, XInv, IInv, TypeOK
<1>3. ASSUME a.at \in Sweeps
      PROVE  /\ a.pos \in Runtimes /\ a.pos # m
             /\ a.adopt => m # OneShot
             /\ \A q \in Loaded(gpu) : q = m \/ q >= a.pos
             /\ a.adopt => svc[m] # "starting"
             /\ ~a.adopt /\ m \in Loaded(gpu) => svc[m] = "down"
  BY <1>1, <1>2, <1>3 DEF Steered, Clearing
<1>4. ASSUME NEW value \in RuntimeStates, value # "loaded", a.at \in Sweeps
      PROVE  Resident(SweepOn([gpu EXCEPT !.state[a.pos] = value],
                              i, a.pos, a.adopt), svc)
  <2> DEFINE w == [gpu EXCEPT !.state[a.pos] = value]
  <2>1. /\ Good(w) /\ Flight(w) = Flight(gpu) /\ w.active = gpu.active
        /\ w.oneShot = gpu.oneShot
    BY <1>1, SetStateGood DEF GpuState
  <2>2. Loaded(w) \subseteq Loaded(gpu) \ {a.pos}
    BY <1>1, <1>4 DEF Loaded, GpuState
  <2> HIDE DEF w
  <2>3. Single(w) /\ \A r \in Loaded(w) : svc[r] # "starting"
    BY <1>2, <2>1, <2>2 DEF Single
  <2>4. \A q \in Loaded(w) : q = m \/ q > a.pos
    <3>1. \A q \in Loaded(w) : q \in Nat /\ q # a.pos /\ (q = m \/ q >= a.pos)
      BY <1>3, <1>4, <2>2 DEF Loaded, Runtimes
    <3>2. a.pos \in Nat
      BY <1>1
    <3> QED
      BY <3>1, <3>2
  <2>5. /\ a.adopt => m # OneShot /\ svc[m] # "starting"
        /\ ~a.adopt /\ m \in Loaded(w) => svc[m] = "down"
    BY <1>3, <1>4, <2>2
  <2> HIDE DEF a
  <2>6. Resident(SweepOn(w, i, a.pos, a.adopt), svc)
    BY <1>1, <2>1, <2>3, <2>4, <2>5, SweepOnResident
  <2> QED
    BY <2>6 DEF w
<1>5. ASSUME NEW t, t.active = gpu.active, t.oneShot = gpu.oneShot,
             Loaded(t) \subseteq Loaded(gpu),
             \A j \in Items : j # i => t.adm[j] = gpu.adm[j],
             t.adm[i].at # "none", NEW v, Clearing(t, v, i),
             \A r \in Loaded(t) : v[r] # "starting"
      PROVE  Resident(t, v)
  <2>1. Flight(t) = {i}
    BY <1>1, <1>2, <1>5 DEF Flight
  <2>2. Single(t)
    BY <1>2, <1>5 DEF Single
  <2> QED
    BY <1>5, <2>1, <2>2 DEF Resident
<1>6. CASE CheckHealth(i)
  <2>1. /\ a.at = "check" /\ m # OneShot /\ svc' = svc
        /\ Loaded(gpu) \subseteq {m}
    BY <1>1, <1>2, <1>6 DEF CheckHealth, Sweeps, Clearing
  <2>2. CASE Up(m)
    <3>1. Resident(RuntimeReady(gpu, i), svc)
      BY <1>1, <2>1, <2>2, ReadyResident DEF Up
    <3> QED
      BY <1>6, <2>1, <2>2, <3>1 DEF CheckHealth
  <2>3. CASE ~Up(m)
    <3>1. gpu' = [gpu EXCEPT !.adm[i].at = "probe"]
      BY <1>6, <2>3 DEF CheckHealth
    <3>2. /\ gpu'.active = gpu.active /\ gpu'.adm[i].at = "probe"
          /\ gpu'.oneShot = gpu.oneShot /\ Loaded(gpu') = Loaded(gpu)
          /\ \A j \in Items : j # i => gpu'.adm[j] = gpu.adm[j]
      BY <1>1, <3>1 DEF GpuState, Loaded
    <3>3. Clearing(gpu', svc, i)
      BY <3>2 DEF Clearing, Sweeps, Starts
    <3> QED
      BY <1>2, <1>5, <2>1, <3>2, <3>3
  <2> QED
    BY <2>2, <2>3
<1>7. CASE ProbeHealth(i)
  <2>1. a.at = "probe" /\ m # OneShot /\ svc' = svc /\ Up(m) \in BOOLEAN
    BY <1>1, <1>7 DEF ProbeHealth, Sweeps, Up
  <2>2. /\ Up(m) => svc[m] # "starting"
        /\ ~Up(m) /\ m \in Loaded(gpu) => svc[m] = "down"
    BY <1>2, <2>1 DEF Up
  <2>3. \A q \in Loaded(gpu) : q = m \/ q > 0
    BY DEF Loaded, Runtimes
  <2> HIDE DEF a
  <2>4. Resident(SweepOn(gpu, i, 0, Up(m)), svc)
    BY <1>1, <1>2, <2>1, <2>2, <2>3, SweepOnResident
  <2> QED
    BY <1>7, <2>1, <2>4 DEF ProbeHealth
<1>8. CASE SweepProbe(i)
  <2> DEFINE value == IF gpu.state[a.pos] = "failed" THEN "failed"
                      ELSE "unloaded"
             w == [gpu EXCEPT !.state[a.pos] = value]
             t == [BeginStop(gpu, a.pos) EXCEPT !.adm[i].at = "stopCmd"]
  <2>1. svc' = svc
        /\ (gpu' = SweepOn(w, i, a.pos, a.adopt) \/ gpu' = t)
    BY <1>8, SweepProbeShape
  <2>2. value \in RuntimeStates /\ a.at \in Sweeps /\ value # "loaded"
    BY <1>8 DEF RuntimeStates, Sweeps, SweepProbe
  <2>3. /\ t.active = gpu.active /\ t.oneShot = gpu.oneShot
        /\ t.adm[i].at = "stopCmd" /\ t.adm[i].adopt = a.adopt
        /\ t.adm[i].pos = a.pos
        /\ \A j \in Items : j # i => t.adm[j] = gpu.adm[j]
    BY <1>1 DEF GpuState, Admission, BeginStop
  <2>4. Loaded(t) \subseteq Loaded(gpu)
    BY <1>1 DEF BeginStop, GpuState, Loaded
  <2> HIDE DEF t, value
  <2>5. Resident(SweepOn(w, i, a.pos, a.adopt), svc)
    BY <1>4, <2>2
  <2>6. Clearing(t, svc, i)
    BY <1>3, <2>2, <2>3, <2>4 DEF Clearing, Sweeps, Starts
  <2>7. Resident(t, svc)
    BY <1>2, <1>5, <2>3, <2>4, <2>6
  <2> QED
    BY <2>1, <2>5, <2>7
<1>9. CASE SweepStopCommand(i)
  <2>1. /\ gpu' = [gpu EXCEPT !.adm[i].at = "stopWait"]
        /\ svc' = [svc EXCEPT ![a.pos] = "down"]
        /\ a.at \in Sweeps
    BY <1>9 DEF SweepStopCommand, Sweeps
  <2>2. /\ gpu'.active = gpu.active /\ gpu'.oneShot = gpu.oneShot
        /\ gpu'.adm[i].at = "stopWait" /\ gpu'.adm[i].adopt = a.adopt
        /\ gpu'.adm[i].pos = a.pos /\ Loaded(gpu') = Loaded(gpu)
        /\ \A j \in Items : j # i => gpu'.adm[j] = gpu.adm[j]
    BY <1>1, <2>1 DEF GpuState, Admission, Loaded
  <2>3. svc'[m] = svc[m] /\ \A r \in Loaded(gpu) : svc'[r] # "starting"
    BY <1>2, <1>3, <2>1 DEF Loaded
  <2>4. Clearing(gpu', svc', i)
    BY <1>3, <2>1, <2>2, <2>3 DEF Clearing, Sweeps, Starts
  <2> QED
    BY <1>5, <2>2, <2>3, <2>4
<1>10. CASE StartCommand(i)
  <2>1. /\ gpu' = [gpu EXCEPT !.adm[i].at = "startWait"]
        /\ Loaded(gpu) = {}
    BY <1>2, <1>10 DEF StartCommand, Clearing, Starts
  <2>2. /\ gpu'.active = gpu.active /\ gpu'.oneShot = gpu.oneShot
        /\ gpu'.adm[i].at = "startWait" /\ Loaded(gpu') = {}
        /\ \A j \in Items : j # i => gpu'.adm[j] = gpu.adm[j]
    BY <1>1, <2>1 DEF GpuState, Admission, Loaded
  <2>3. Clearing(gpu', svc', i)
    BY <2>2 DEF Clearing, Sweeps
  <2> QED
    BY <1>5, <2>2, <2>3
<1>11. CASE SweepStopped(i) \/ SweepStopFails(i)
  <2>1. PICK value \in {"unloaded", "failed"} :
           gpu' = SweepOn([gpu EXCEPT !.state[a.pos] = value],
                          i, a.pos, a.adopt)
    BY <1>11 DEF SweepStopped, SweepStopFails
  <2>2. /\ a.at \in Sweeps /\ svc' = svc
        /\ value \in RuntimeStates /\ value # "loaded"
    BY <1>11, <2>1 DEF SweepStopped, SweepStopFails, Sweeps, RuntimeStates
  <2> QED
    BY <1>4, <2>1, <2>2
<1>12. CASE StartCommandFails(i) \/ LoadAborted(i) \/ LoadTimesOut(i)
  <2> DEFINE w == [gpu EXCEPT !.state[m] = "failed"]
  <2>1. PICK code \in Refusals : gpu' = LoadFails(gpu, i, code)
    BY <1>12 DEF StartCommandFails, LoadAborted, LoadTimesOut, Refusals
  <2>2. a.at \in Starts /\ svc' = svc
    BY <1>12 DEF StartCommandFails, LoadAborted, LoadTimesOut, Starts
  <2>3. gpu' = AdmissionFails(w, i, "failed", code)
    BY <2>1 DEF LoadFails
  <2>4. Good(w) /\ i \in Flight(w)
    BY <1>1, SetStateGood DEF RuntimeStates
  <2>5. Loaded(w) \subseteq Loaded(gpu)
    BY <1>1 DEF Loaded, GpuState
  <2> HIDE DEF w
  <2>6. Loaded(w) = {}
    BY <1>2, <2>2, <2>5 DEF Clearing
  <2>7. Single(w)
    BY <2>6 DEF Single
  <2> QED
    BY <1>1, <2>2, <2>3, <2>4, <2>6, <2>7, FailsResident DEF Final
<1>13. CASE LoadHealthy(i)
  <2> DEFINE w == [gpu EXCEPT !.state[m] = "loaded"]
  <2>1. Good(w) /\ i \in Flight(w)
    BY <1>1, SetStateGood DEF RuntimeStates
  <2>2. /\ gpu' = RuntimeReady(w, i) /\ m # OneShot /\ svc' = svc
        /\ svc[m] = "up" /\ Loaded(gpu) = {}
    BY <1>1, <1>2, <1>13 DEF LoadHealthy, Sweeps, Up, Clearing, Starts
  <2>3. Loaded(w) \subseteq {m}
    BY <1>1, <2>2 DEF GpuState, Loaded
  <2> HIDE DEF w
  <2>4. Resident(RuntimeReady(w, i), svc)
    BY <1>1, <2>1, <2>2, <2>3, ReadyResident
  <2> QED
    BY <2>2, <2>4
<1> QED
  BY <1>1, <1>6, <1>7, <1>8, <1>9, <1>10, <1>11, <1>12, <1>13
     DEF AdmissionStep

(* Nobody waits for, or has, a runtime that rests between admissions: the  *)
(* queue's head would have been started when the runtime came to rest. *)
LEMMA IdleIsUnused ==
  ASSUME "force" \notin Events, XInv, Owned(gpu), Woken(gpu), Single(gpu),
         Flight(gpu) = {}, NEW r \in Loaded(gpu), gpu.active[r] = 0
  PROVE  \A i \in Items : gpu.work[i] \notin Live
<1>1. /\ gpu \in GpuState /\ overdue = {} /\ gpu.admitting = FALSE
      /\ Counts(gpu, Holders(gpu))
  BY DEF XInv, Good, Locked, Accounted, GpuState
<1>2. gpu.oneShot = NoItem
  BY DEF Single
<1>3. \A q \in Runtimes : ~(gpu.active[q] > 0)
  BY DEF Single
<1>4. ASSUME NEW i \in Items, gpu.lease[i] = "held"
      PROVE  FALSE
  <2>1. i \in Holders(gpu)
    BY <1>4 DEF Holders
  <2>2. Model[i] # OneShot
    BY <1>1, <1>2, <2>1, ItemsAssumption DEF Counts
  <2>3. Model[i] \in Runtimes
    BY <2>2, RequestsAssumption
  <2>4. /\ i \in gpu.ids[Model[i]] /\ IsFiniteSet(gpu.ids[Model[i]])
        /\ gpu.active[Model[i]] = Cardinality(gpu.ids[Model[i]])
    BY <1>1, <2>1, <2>3, ItemsAssumption, FS_Subset DEF Counts, GpuState
  <2>5. gpu.active[Model[i]] # 0 /\ gpu.active[Model[i]] \in Nat
    BY <1>1, <2>3, <2>4, FS_EmptySet DEF GpuState
  <2> QED
    BY <1>3, <2>3, <2>5
<1>5. Queued(gpu) = {}
  <2> SUFFICES ASSUME Queued(gpu) # {} PROVE FALSE
    OBVIOUS
  <2>1. PICK j \in Queued(gpu) : \A k \in Queued(gpu) : ~Ahead(gpu, k, j)
    BY <1>1, QueueHead
  <2>2. ~Admissible(gpu, j)
    BY <1>1, <1>2, <2>1 DEF Woken
  <2> QED
    BY <1>3, <2>2 DEF Admissible, Busy
<1>6. \A i \in Items : gpu.work[i] # "queued"
  BY <1>5 DEF Owned, Attended, Queued
<1>7. \A i \in Items : gpu.work[i] # "running"
  BY <1>4 DEF Owned, Attended
<1> QED
  BY <1>6, <1>7 DEF Live

(* So do the timers, the stops and the services. *)
LEMMA RuntimesResident ==
  ASSUME {"refresh", "external", "force"} \cap Events = {},
         XInv, Owned(gpu), Woken(gpu), Steered(gpu), Resident(gpu, svc),
         NEW r \in Runtimes, RuntimeStep(r)
  PROVE  Resident(gpu', svc')
<1>1. /\ gpu \in GpuState /\ overdue = {} /\ Good(gpu) /\ Ordered(gpu)
      /\ svc \in [Runtimes -> {"down", "starting", "up"}] /\ Single(gpu)
  BY DEF XInv, IInv, TypeOK, Good, Resident
<1>2. gpu.oneShot \in {gpu.oneShot, NoItem}
      /\ \A q \in Runtimes : svc[q] \in {svc[q], "down"}
  OBVIOUS
<1>3. ASSUME NEW u, Good(u), Resident(u, svc), gpu' = Pump(u), svc' = svc
      PROVE  Resident(gpu', svc')
  <2>1. Good(Pump(u)) /\ Ordered(u) /\ u \in GpuState
    BY <1>1, <1>3, PumpGood DEF Good
  <2> QED
    BY <1>1, <1>3, <2>1, PumpResident
<1>4. CASE IdleFires(r)
  <2> DEFINE s == [gpu EXCEPT !.idle = @ \ {r}]
             t == BeginStop(gpu, r)
  <2>1. svc' = svc
    BY <1>4 DEF IdleFires
  <2>2. \/ gpu' = t
        \/ /\ gpu' = Pump(s)
           /\ gpu.active[r] > 0 \/ \E i \in Items : gpu.work[i] \in Live
    BY <1>4 DEF IdleFires
  <2>3. /\ s \in GpuState
        /\ s.work = gpu.work /\ s.born = gpu.born /\ s.rows = gpu.rows
        /\ s.pending = gpu.pending /\ s.answer = gpu.answer
        /\ s.lease = gpu.lease /\ s.active = gpu.active /\ s.ids = gpu.ids
        /\ s.oneShot = gpu.oneShot /\ s.admitting = gpu.admitting
        /\ s.refusing = gpu.refusing /\ s.adm = gpu.adm
        /\ s.state = gpu.state /\ s.idle = gpu.idle \ {r}
    BY <1>1 DEF GpuState
  <2>4. /\ t.adm = gpu.adm /\ t.oneShot = gpu.oneShot /\ t.active = gpu.active
        /\ t.idle = gpu.idle \ {r} /\ Loaded(t) \subseteq Loaded(gpu) \ {r}
    BY <1>1 DEF BeginStop, GpuState, Loaded
  <2> HIDE DEF s, t
  <2>5. Flight(gpu) = {} => IdleTimed(t, svc)
    BY <2>4 DEF Resident, IdleTimed
  <2>6. Resident(t, svc)
    BY <1>2, <2>4, <2>5, EasedResident
  <2>7. ASSUME gpu.active[r] > 0 \/ \E i \in Items : gpu.work[i] \in Live
        PROVE  Good(s) /\ Resident(s, svc)
    <3>1. Good(s) /\ Loaded(s) = Loaded(gpu)
      BY <1>1, <2>3, GoodElsewhere DEF Loaded
    <3>2. ASSUME Flight(gpu) = {}, r \in Loaded(gpu), gpu.active[r] = 0
          PROVE  FALSE
      BY <1>1, <2>7, <3>2, IdleIsUnused
    <3>3. Flight(gpu) = {} => IdleTimed(s, svc)
      BY <2>3, <3>1, <3>2 DEF Resident, IdleTimed
    <3>4. Resident(s, svc)
      BY <1>2, <2>3, <3>1, <3>3, EasedResident
    <3> QED
      BY <3>1, <3>4
  <2> QED
    BY <1>3, <2>1, <2>2, <2>6, <2>7
<1>5. CASE IdleStopped(r) \/ IdleStopFails(r)
           \/ ForceStopped(r) \/ ForceStopFails(r)
  <2>1. PICK value \in {"unloaded", "failed"} :
           gpu' = Pump([gpu EXCEPT !.state[r] = value])
    BY <1>5 DEF IdleStopped, IdleStopFails, ForceStopped, ForceStopFails
  <2>2. svc' = svc
    BY <1>5 DEF IdleStopped, IdleStopFails, ForceStopped, ForceStopFails
  <2> DEFINE s == [gpu EXCEPT !.state[r] = value]
  <2>3. Good(s)
    <3>1. value \in RuntimeStates
      BY <2>1 DEF RuntimeStates
    <3> QED
      BY <1>1, <3>1, SetStateGood
  <2>4. /\ s.adm = gpu.adm /\ s.oneShot = gpu.oneShot /\ s.active = gpu.active
        /\ s.idle = gpu.idle /\ Loaded(s) \subseteq Loaded(gpu)
    BY <1>1, <2>1 DEF GpuState, Loaded
  <2> HIDE DEF s
  <2>5. Flight(gpu) = {} => IdleTimed(s, svc)
    BY <2>4 DEF Resident, IdleTimed
  <2>6. Resident(s, svc)
    BY <1>2, <2>4, <2>5, EasedResident
  <2> QED
    BY <1>3, <2>1, <2>2, <2>3, <2>6 DEF s
<1>6. CASE IdleStopCommand(r) \/ ForceStopCommand(r) \/ ServiceDies(r)
  <2>1. gpu' = gpu /\ svc' = [svc EXCEPT ![r] = "down"]
    BY <1>6 DEF IdleStopCommand, ForceStopCommand, ServiceDies
  <2>2. \A q \in Runtimes : svc'[q] \in {svc[q], "down"}
    BY <1>1, <2>1
  <2>3. Flight(gpu) = {} => IdleTimed(gpu, svc')
    <3>1. \A q \in Loaded(gpu) : svc'[q] = "up" => svc[q] = "up"
      BY <2>2 DEF Loaded
    <3> QED
      BY <3>1 DEF Resident, IdleTimed
  <2>4. Resident(gpu, svc')
    BY <1>2, <2>2, <2>3, EasedResident
  <2> QED
    BY <2>1, <2>4
<1>7. CASE ServiceReady(r)
  <2>1. gpu' = gpu /\ svc' = [svc EXCEPT ![r] = "up"] /\ svc[r] = "starting"
    BY <1>7 DEF ServiceReady
  <2>2. r \notin Loaded(gpu)
    BY <2>1 DEF Resident
  <2>3. \A q : q # r => svc'[q] = svc[q]
    BY <1>1, <2>1
  <2>4. svc'[r] = "up"
    BY <1>1, <2>1
  <2>5. \A i \in Flight(gpu) : Clearing(gpu, svc', i)
    BY <2>2, <2>3, <2>4 DEF Resident, Clearing
  <2>6. \A q \in Loaded(gpu) : svc'[q] = svc[q]
    BY <2>2, <2>3
  <2>7. Resident(gpu, svc')
    BY <2>5, <2>6 DEF Resident, IdleTimed
  <2> QED
    BY <2>1, <2>7
<1>8. ~RefreshProbe(r) /\ ~ServiceStartedOutside(r) /\ ~ForceUnload(r)
  BY Zenon DEF RefreshProbe, ServiceStartedOutside, ForceUnload
<1> QED
  BY <1>4, <1>5, <1>6, <1>7, <1>8 DEF RuntimeStep, StopStep

(* No health refresh has begun.                                             *)
Unprobed == \A r \in Runtimes : probe[r] = "none"

RInv ==
  /\ XInv /\ Owned(gpu) /\ Woken(gpu) /\ Steered(gpu) /\ Unprobed
  /\ Resident(gpu, svc)

(* Every step keeps it, but for the four events the theorem excludes. *)
LEMMA NextResident ==
  ASSUME {"late", "refresh", "external", "force"} \cap Events = {},
         RInv, [Next]_vars
  PROVE  RInv'
<1>1. /\ XInv /\ Owned(gpu) /\ Woken(gpu) /\ Steered(gpu) /\ Unprobed
      /\ Resident(gpu, svc) /\ IInv /\ overdue = {}
  BY DEF RInv, XInv
<1>2. XInv' /\ Owned(gpu') /\ Woken(gpu')
  BY <1>1, NextXInv, NextOwned, NextWoken
<1>3. CASE UNCHANGED vars
  BY <1>1, <1>2, <1>3
     DEF vars, RInv, Steered, Unprobed, Resident, Flight, Single, Loaded,
         Clearing, IdleTimed
<1>4. ASSUME NEW i \in Items,
             \/ Acquire(i) \/ AcquireRefused(i) \/ Release(i)
             \/ Cancel(i) \/ QueueTimeout(i)
      PROVE  Steered(gpu') /\ Unprobed' /\ Resident(gpu', svc')
  <2>1. probe' = probe
    BY <1>1, <1>4, CallShape
  <2> QED
    BY <1>1, <1>4, <2>1, CallsSteered, CallsResident DEF Unprobed
<1>5. ASSUME NEW i \in Items, AdmissionStep(i)
      PROVE  Steered(gpu') /\ Unprobed' /\ Resident(gpu', svc')
  <2>1. probe' = probe
    BY <1>1, <1>5, AdmissionFacts
  <2> QED
    BY <1>1, <1>5, <2>1, AdmissionSteered, AdmissionResident DEF Unprobed
<1>6. ASSUME NEW r \in Runtimes, RuntimeStep(r)
      PROVE  Steered(gpu') /\ Unprobed' /\ Resident(gpu', svc')
  <2>1. ~ForceUnload(r) /\ ~RefreshProbe(r)
    BY Zenon DEF ForceUnload, RefreshProbe
  <2>2. probe' = probe
    BY <1>6, <2>1, Zenon DEF RuntimeStep, IdleFires, StopStep, IdleStopCommand,
       IdleStopped, IdleStopFails, ForceStopCommand, ForceStopped,
       ForceStopFails, ServiceReady, ServiceDies, ServiceStartedOutside
  <2> QED
    BY <1>1, <1>6, <2>1, <2>2, RuntimesSteered, RuntimesResident DEF Unprobed
<1>7. ~RefreshApply
  BY <1>1, RuntimesAssumption DEF RefreshApply, Unprobed, Runtimes
<1>8. CASE Next
  <2>1. ASSUME NEW i \in Items, ItemStep(i)
        PROVE  Steered(gpu') /\ Unprobed' /\ Resident(gpu', svc')
    BY <1>4, <1>5, <2>1 DEF ItemStep, DeadlinePasses
  <2> QED
    BY <1>2, <1>6, <1>7, <1>8, <2>1 DEF Next, RInv
<1> QED
  BY <1>3, <1>8

(* At the start nothing is loaded. *)
LEMMA InitResident == Init => RInv
<1> SUFFICES ASSUME Init PROVE RInv
  OBVIOUS
<1>1. XInv /\ Owned(gpu) /\ Woken(gpu)
  BY InitXInv, InitOwned, InitQueue
<1>2. Flight(gpu) = {} /\ Loaded(gpu) = {}
  BY DEF Init, Flight, NotAdmitting, Loaded
<1>3. Unprobed
  BY DEF Init, Unprobed
<1> QED
  BY <1>1, <1>2, <1>3 DEF RInv, Steered, Resident, Single, IdleTimed

(* A resident runtime nobody uses has its idle timer armed, through aborted *)
(* admissions, failed loads and stops, and services that die: whoever takes *)
(* the last request away arms it, and a timer that finds work to do leaves  *)
(* a runtime in use, or in the hands of an admission.                       *)
THEOREM IdleRuntimesAreTimed ==
  ASSUME {"late", "refresh", "external", "force"} \cap Events = {}
  PROVE  Spec => []IdleIsTimed
<1>1. RInv => IdleIsTimed
  BY DEF RInv, XInv, Good, Locked, Resident, IdleTimed, Loaded, IdleIsTimed, Up
<1>2. RInv /\ [Next]_vars => RInv'
  BY NextResident
<1> QED
  BY <1>1, <1>2, InitResident, PTL DEF Spec

-----------------------------------------------------------------------------
(* Who is cancelled, or was admitted *)

(* An item that was aborted, or that a runtime counts, is neither queued    *)
(* nor in flight, and has called acquire, so it is not queued again.  This  *)
(* is why, where no client cancels, no admission is ever found aborted.     *)
Over(s) ==
  \A i \in Items :
    (i \in s.aborted \/ \E r \in Runtimes : i \in s.ids[r]) =>
      s.answer[i] # "none" /\ i \notin Queued(s) /\ i \notin Flight(s)

(* pump() starts an item of the queue. *)
LEMMA PumpOver ==
  ASSUME NEW u \in GpuState, Ordered(u), overdue = {}, Over(u)
  PROVE  Over(Pump(u))
<1> DEFINE t == Pump(u)
<1>1. /\ t.aborted = u.aborted /\ t.ids = u.ids /\ t.answer = u.answer
      /\ \/ t.adm = u.adm /\ Queued(t) = Queued(u)
         \/ \E j \in Items : Begins(u, j, t)
  BY PumpShape
<1> HIDE DEF t
<1>2. Queued(t) \subseteq Queued(u)
  BY <1>1 DEF Begins
<1>3. \A i \in Flight(t) : i \in Flight(u) \/ i \in Queued(u)
  BY <1>1 DEF Begins, Flight
<1>4. Over(t)
  BY <1>1, <1>2, <1>3 DEF Over
<1> QED
  BY <1>4 DEF t

(* An admission that ends in a pump(), with or without a lease. *)
LEMMA EndsOver ==
  ASSUME NEW s, Good(s), Over(s), NEW i \in Flight(s), overdue = {}, NEW u,
         \/ Gives(s, i, u) \/ GivesAlone(s, i, u)
         \/ \E idle : Leaves(s, i, idle, u)
  PROVE  Over(Pump(u))
<1>1. /\ s \in GpuState /\ i \in Items /\ s.answer[i] = "waiting"
      /\ s.work[i] # "queued"
  BY DEF Good, RowOK, Flight
<1>2. Rested(s, i, u)
  BY DEF Gives, GivesAlone, Leaves
<1>3. \A r \in Runtimes : u.ids[r] \subseteq s.ids[r] \cup {i}
  BY <1>1 DEF Gives, GivesAlone, Leaves, GpuState
<1>4. i \notin Queued(u)
  BY <1>1, <1>2 DEF Rested, Queued
<1>5. Over(u)
  BY <1>1, <1>2, <1>3, <1>4 DEF Over, Rested
<1> QED
  BY <1>2, <1>5, PumpOver DEF Rested

(* Steps within an admission move nobody else. *)
LEMMA GoesOnOver ==
  ASSUME NEW s, Over(s), NEW i \in Flight(s), NEW t,
         t.aborted = s.aborted, t.ids = s.ids, t.answer = s.answer,
         Queued(t) = Queued(s),
         \A j \in Items : j # i => t.adm[j] = s.adm[j]
  PROVE  Over(t)
<1>1. Flight(t) \subseteq Flight(s)
  BY DEF Flight
<1> QED
  BY <1>1 DEF Over

LEMMA SweepOnOver ==
  ASSUME NEW s, Good(s), Over(s), NEW i \in Flight(s), overdue = {},
         NEW pos \in 0..N, NEW adopt \in BOOLEAN
  PROVE  Over(SweepOn(s, i, pos, adopt))
<1> DEFINE t == SweepOn(s, i, pos, adopt)
<1>1. s \in GpuState /\ i \in Items
  BY DEF Good, Flight
<1>2. ASSUME NEW n, Visits(s, i, pos, adopt, n, t)
      PROVE  Over(t)
  <2> HIDE DEF t
  <2> QED
    BY <1>2, GoesOnOver DEF Visits
<1>3. ASSUME t = SweepDone(s, i, adopt)
      PROVE  Over(t)
  <2> DEFINE w == [s EXCEPT !.state[Model[i]] = "loaded"]
             z == [s EXCEPT !.state[Model[i]] = "loading",
                            !.adm[i] = [at |-> "startCmd", pos |-> 0,
                                        adopt |-> FALSE]]
  <2>1. t = IF Model[i] = OneShot THEN OneShotReady(s, i)
            ELSE IF adopt THEN RuntimeReady(w, i)
            ELSE IF i \in s.aborted THEN AdmissionFails(s, i, "failed", "e499")
            ELSE z
    BY <1>3 DEF SweepDone
  <2>2. Good(w) /\ i \in Flight(w)
    BY SetStateGood DEF RuntimeStates
  <2>3. /\ w.aborted = s.aborted /\ w.ids = s.ids /\ w.answer = s.answer
        /\ w.work = s.work /\ w.pending = s.pending /\ w.adm = s.adm
        /\ z.aborted = s.aborted /\ z.ids = s.ids /\ z.answer = s.answer
        /\ z.work = s.work /\ z.pending = s.pending
        /\ \A j \in Items : j # i => z.adm[j] = s.adm[j]
    BY <1>1 DEF GpuState
  <2> HIDE DEF t, w, z
  <2>4. Over(w) /\ Over(z)
    BY <2>3, GoesOnOver DEF Queued
  <2>5. i \notin s.aborted
    BY <1>1 DEF Over
  <2>6. Over(OneShotReady(s, i))
    BY OneShotShape, EndsOver
  <2>7. Model[i] # OneShot => Over(RuntimeReady(w, i))
    BY <2>2, <2>4, ReadyShape, EndsOver
  <2> QED
    BY <2>1, <2>4, <2>5, <2>6, <2>7
<1> QED
  BY <1>2, <1>3, SweepShape

(* An item that is queued for the first time, a lease that is released, a   *)
(* queued item whose time is up. *)
LEMMA CallsOver ==
  ASSUME XInv, Over(gpu), "cancel" \notin Events, NEW i \in Items,
         \/ Acquire(i) \/ AcquireRefused(i) \/ Release(i)
         \/ Cancel(i) \/ QueueTimeout(i)
  PROVE  Over(gpu')
<1>1. Good(gpu) /\ overdue = {} /\ gpu \in GpuState
  BY DEF XInv, Good
<1>2. ASSUME NEW u, Good(u), gpu' = Pump(u), Over(u)
      PROVE  Over(gpu')
  BY <1>1, <1>2, PumpOver DEF Good
<1>3. ASSUME NEW u, Joins(gpu, i, u)
      PROVE  Over(u)
  <2>1. Flight(u) = Flight(gpu)
    BY <1>3 DEF Joins, Flight
  <2> QED
    BY <1>3, <2>1 DEF Joins, Over
<1>4. ASSUME NEW u, Frees(gpu, i, u),
             u.aborted = gpu.aborted \/ (i \in Queued(gpu) /\ i \notin Queued(u))
      PROVE  Over(u)
  <2>1. Flight(u) = Flight(gpu)
    BY <1>4 DEF Frees, Flight
  <2>2. i \in Queued(gpu) => gpu.answer[i] # "none" /\ i \notin Flight(gpu)
    BY <1>1 DEF Good, RowOK, Queued
  <2> QED
    BY <1>4, <2>1, <2>2 DEF Frees, Over
<1> QED
  BY <1>2, <1>3, <1>4, CallShape

(* So do the steps of an admission. *)
LEMMA AdmissionOver ==
  ASSUME XInv, Steered(gpu), Over(gpu), NEW i \in Items, AdmissionStep(i)
  PROVE  Over(gpu')
<1> DEFINE a == gpu.adm[i]
           m == Model[i]
<1>1. /\ i \in Flight(gpu) /\ gpu \in GpuState /\ Good(gpu) /\ overdue = {}
      /\ a.pos \in 0..N /\ a.adopt \in BOOLEAN /\ 0 \in 0..N
      /\ m = OneShot => a.at \in Sweeps
      /\ ~RefusedSettles(i)
  BY AdmissionFacts
<1>2. ASSUME NEW r, NEW value \in RuntimeStates
      PROVE  LET w == [gpu EXCEPT !.state[r] = value]
             IN Good(w) /\ i \in Flight(w) /\ Over(w)
  <2> DEFINE w == [gpu EXCEPT !.state[r] = value]
  <2>1. Good(w) /\ i \in Flight(w)
    BY <1>1, SetStateGood
  <2>2. /\ w.aborted = gpu.aborted /\ w.ids = gpu.ids /\ w.adm = gpu.adm
        /\ w.work = gpu.work /\ w.pending = gpu.pending
        /\ w.answer = gpu.answer
    BY <1>1 DEF GpuState
  <2> HIDE DEF w
  <2>3. Over(w)
    BY <1>1, <2>2, GoesOnOver DEF Queued
  <2> QED
    BY <2>1, <2>3 DEF w
<1>3. ASSUME NEW w, Good(w), Over(w), i \in Flight(w)
      PROVE  /\ m # OneShot => Over(RuntimeReady(w, i))
             /\ \A pos \in 0..N, adopt \in BOOLEAN :
                  Over(SweepOn(w, i, pos, adopt))
             /\ \A outcome \in Final, code \in Refusals :
                  Over(AdmissionFails(w, i, outcome, code))
  <2>1. m # OneShot => Over(RuntimeReady(w, i))
    BY <1>1, <1>3, ReadyShape, EndsOver
  <2>2. \A pos \in 0..N, adopt \in BOOLEAN : Over(SweepOn(w, i, pos, adopt))
    BY <1>1, <1>3, SweepOnOver
  <2>3. \A outcome \in Final, code \in Refusals :
          Over(AdmissionFails(w, i, outcome, code))
    BY <1>1, <1>3, FailsShape, EndsOver
  <2> QED
    BY <2>1, <2>2, <2>3
<1>4. ASSUME NEW t, t.aborted = gpu.aborted, t.ids = gpu.ids,
             t.answer = gpu.answer, t.work = gpu.work,
             t.pending = gpu.pending,
             \A j \in Items : j # i => t.adm[j] = gpu.adm[j]
      PROVE  Over(t)
  BY <1>1, <1>4, GoesOnOver DEF Queued
<1>5. CASE CheckHealth(i)
  <2>1. a.at = "check" /\ m # OneShot
    BY <1>1, <1>5 DEF CheckHealth, Sweeps
  <2>2. \/ gpu' = RuntimeReady(gpu, i)
        \/ gpu' = [gpu EXCEPT !.adm[i].at = "probe"]
    BY <1>5 DEF CheckHealth
  <2>3. CASE gpu' = [gpu EXCEPT !.adm[i].at = "probe"]
    BY <1>1, <1>4, <2>3 DEF GpuState
  <2> QED
    BY <1>1, <1>3, <2>1, <2>2, <2>3
<1>6. CASE ProbeHealth(i)
  BY <1>1, <1>3, <1>6 DEF ProbeHealth, Up
<1>7. CASE SweepProbe(i)
  <2> DEFINE value == IF gpu.state[a.pos] = "failed" THEN "failed"
                      ELSE "unloaded"
             w == [gpu EXCEPT !.state[a.pos] = value]
             t == [BeginStop(gpu, a.pos) EXCEPT !.adm[i].at = "stopCmd"]
  <2>1. gpu' = SweepOn(w, i, a.pos, a.adopt) \/ gpu' = t
    BY <1>7, SweepProbeShape
  <2>2. Over(t)
    BY <1>1, <1>4 DEF BeginStop, GpuState
  <2>3. value \in RuntimeStates
    BY DEF RuntimeStates
  <2> HIDE DEF t, value
  <2>4. Over(SweepOn(w, i, a.pos, a.adopt))
    BY <1>1, <1>2, <1>3, <2>3
  <2> QED
    BY <2>1, <2>2, <2>4
<1>8. CASE SweepStopCommand(i) \/ StartCommand(i)
  <2>1. \E at : gpu' = [gpu EXCEPT !.adm[i].at = at]
    BY <1>8 DEF SweepStopCommand, StartCommand
  <2> QED
    BY <1>1, <1>4, <2>1 DEF GpuState
<1>9. CASE SweepStopped(i) \/ SweepStopFails(i)
  <2>1. PICK value \in RuntimeStates :
           gpu' = SweepOn([gpu EXCEPT !.state[a.pos] = value],
                          i, a.pos, a.adopt)
    BY <1>9 DEF SweepStopped, SweepStopFails, RuntimeStates
  <2> QED
    BY <1>1, <1>2, <1>3, <2>1
<1>10. CASE StartCommandFails(i) \/ LoadAborted(i) \/ LoadTimesOut(i)
  <2>1. PICK code \in Refusals : gpu' = LoadFails(gpu, i, code)
    BY <1>10 DEF StartCommandFails, LoadAborted, LoadTimesOut, Refusals
  <2>2. gpu' = AdmissionFails([gpu EXCEPT !.state[m] = "failed"],
                              i, "failed", code)
    BY <2>1 DEF LoadFails
  <2> QED
    BY <1>2, <1>3, <2>2 DEF RuntimeStates, Final
<1>11. CASE LoadHealthy(i)
  <2>1. m # OneShot
    BY <1>1, <1>11 DEF LoadHealthy, Sweeps
  <2> QED
    BY <1>2, <1>3, <1>11, <2>1 DEF LoadHealthy, RuntimeStates
<1> QED
  BY <1>1, <1>5, <1>6, <1>7, <1>8, <1>9, <1>10, <1>11 DEF AdmissionStep

(* What forceUnloadRuntime leaves before its pump(), and after it: those it *)
(* aborts are items the runtime counts.                                     *)
LEMMA ForceShape ==
  ASSUME gpu \in GpuState, Ordered(gpu), NEW r \in Runtimes, ForceUnload(r)
  PROVE  /\ UNCHANGED <<overdue, svc, idleStop, probe>>
         /\ \E t \in GpuState :
              /\ Ordered(t) /\ t.state = gpu.state /\ t.adm = gpu.adm
              /\ t.oneShot = gpu.oneShot /\ t.answer = gpu.answer
              /\ t.aborted \subseteq gpu.aborted \cup gpu.ids[r]
              /\ \A q \in Runtimes : t.ids[q] \subseteq gpu.ids[q]
              /\ Queued(t) \subseteq Queued(gpu)
              /\ LET p == Pump(t) IN
                 /\ gpu'.state = [p.state EXCEPT ![r] = "unloading"]
                 /\ gpu'.adm = p.adm /\ gpu'.oneShot = p.oneShot
                 /\ gpu'.answer = p.answer /\ gpu'.aborted = p.aborted
                 /\ Queued(gpu') = Queued(p)
                 /\ \A q \in Runtimes : gpu'.ids[q] \subseteq p.ids[q]
<1>1. PICK now \in SUBSET gpu.ids[r] :
       LET hit == gpu.ids[r]
           over == {i \in now : gpu.lease[i] = "held" /\ i \notin gpu.aborted}
           t == [gpu EXCEPT
                  !.work = [i \in Items |-> IF i \in hit /\ @[i] \in Live
                                              THEN "failed" ELSE @[i]],
                  !.aborted = @ \cup (hit \cap gpu.pending),
                  !.lease = [i \in Items |-> IF i \in over
                                               THEN "released" ELSE @[i]],
                  !.pending = @ \ over,
                  !.active[r] = IF @ > Cardinality(over)
                                  THEN @ - Cardinality(over) ELSE 0,
                  !.ids[r] = @ \ over]
       IN gpu' = BeginStop([Pump(t) EXCEPT !.active[r] = 0, !.ids[r] = {}], r)
  BY Zenon DEF ForceUnload
<1> DEFINE hit == gpu.ids[r]
           over == {i \in now : gpu.lease[i] = "held" /\ i \notin gpu.aborted}
           n == IF gpu.active[r] > Cardinality(over)
                  THEN gpu.active[r] - Cardinality(over) ELSE 0
           work == [i \in Items |-> IF i \in hit /\ gpu.work[i] \in Live
                                      THEN "failed" ELSE gpu.work[i]]
           lease == [i \in Items |-> IF i \in over
                                       THEN "released" ELSE gpu.lease[i]]
           active == [gpu.active EXCEPT ![r] = n]
           ids == [gpu.ids EXCEPT ![r] = @ \ over]
           aborted == gpu.aborted \cup (hit \cap gpu.pending)
           pending == gpu.pending \ over
           s == [gpu EXCEPT !.work = work, !.aborted = aborted, !.lease = lease]
           t == [s EXCEPT !.pending = pending, !.active = active, !.ids = ids]
<1>2. gpu' = BeginStop([Pump(t) EXCEPT !.active[r] = 0, !.ids[r] = {}], r)
  BY <1>1
<1>3. over \in SUBSET gpu.ids[r] /\ gpu.ids[r] \subseteq Items
  BY DEF GpuState
<1>4. n \in Nat
  <2>1. Cardinality(over) \in Nat /\ gpu.active[r] \in Nat
    BY <1>3, ItemsAssumption, FS_Subset, FS_CardinalityType DEF GpuState
  <2> HIDE DEF over
  <2> QED
    BY <2>1
<1> HIDE DEF over, n
<1>5. /\ work \in [Items -> {"absent"} \cup Live \cup Final]
      /\ lease \in [Items -> {"none", "held", "released", "lost"}]
      /\ active \in [Runtimes -> Nat]
      /\ ids \in [Runtimes -> SUBSET Items]
      /\ aborted \in SUBSET Items
      /\ pending \in SUBSET Items
  BY <1>4 DEF GpuState, Final
<1>6. /\ aborted \subseteq gpu.aborted \cup gpu.ids[r]
      /\ pending \subseteq gpu.pending
      /\ \A q \in Runtimes : ids[q] \subseteq gpu.ids[q]
      /\ \A i \in Items : work[i] = "queued" => gpu.work[i] = "queued"
  BY DEF GpuState
<1> HIDE DEF work, lease, active, ids, aborted, pending, hit
<1>7. /\ s \in GpuState /\ s.work = work /\ s.aborted = aborted
      /\ s.answer = gpu.answer /\ s.adm = gpu.adm /\ s.born = gpu.born
      /\ s.rows = gpu.rows /\ s.state = gpu.state /\ s.oneShot = gpu.oneShot
  BY <1>5 DEF GpuState
<1> HIDE DEF s
<1>8. /\ t \in GpuState /\ t.work = work /\ t.aborted = aborted
      /\ t.answer = gpu.answer /\ t.adm = gpu.adm /\ t.born = gpu.born
      /\ t.rows = gpu.rows /\ t.state = gpu.state /\ t.oneShot = gpu.oneShot
      /\ t.pending = pending /\ t.ids = ids
  BY <1>5, <1>7 DEF GpuState
<1> HIDE DEF t
<1>9. Ordered(t) /\ Queued(t) \subseteq Queued(gpu)
  BY <1>6, <1>8 DEF Ordered, Queued, GpuState
<1>10. UNCHANGED <<overdue, svc, idleStop, probe>>
  BY Zenon DEF ForceUnload
<1> DEFINE p == Pump(t)
<1>11. p \in GpuState
  BY <1>8, PumpEvolves DEF Evolves
<1> HIDE DEF p
<1>12. /\ gpu'.state = [p.state EXCEPT ![r] = "unloading"]
       /\ gpu'.adm = p.adm /\ gpu'.oneShot = p.oneShot
       /\ gpu'.answer = p.answer /\ gpu'.aborted = p.aborted
       /\ gpu'.work = p.work /\ gpu'.pending = p.pending
       /\ \A q \in Runtimes : gpu'.ids[q] \subseteq p.ids[q]
  BY <1>2, <1>11 DEF BeginStop, GpuState, p
<1>13. Queued(gpu') = Queued(p)
  BY <1>12 DEF Queued
<1> QED
  BY <1>6, <1>8, <1>9, <1>10, <1>12, <1>13 DEF p

(* A runtime's timer or stop moves nobody but through pump(). *)
LEMMA RuntimesOver ==
  ASSUME XInv, Over(gpu), NEW r \in Runtimes, RuntimeStep(r)
  PROVE  Over(gpu')
<1>1. gpu \in GpuState /\ overdue = {} /\ Good(gpu) /\ Ordered(gpu)
  BY DEF XInv, Good
<1>2. ASSUME NEW t \in GpuState, t.adm = gpu.adm, t.answer = gpu.answer,
             t.aborted \subseteq gpu.aborted \cup gpu.ids[r],
             \A q \in Runtimes : t.ids[q] \subseteq gpu.ids[q],
             Queued(t) \subseteq Queued(gpu)
      PROVE  Over(t)
  <2>1. Flight(t) = Flight(gpu)
    BY <1>2 DEF Flight
  <2> QED
    BY <1>2, <2>1 DEF Over
<1>3. CASE UNCHANGED gpu
  BY <1>3 DEF Over, Queued, Flight
<1>4. CASE ForceUnload(r)
  <2>1. PICK t \in GpuState :
          /\ Ordered(t) /\ t.adm = gpu.adm /\ t.answer = gpu.answer
          /\ t.aborted \subseteq gpu.aborted \cup gpu.ids[r]
          /\ \A q \in Runtimes : t.ids[q] \subseteq gpu.ids[q]
          /\ Queued(t) \subseteq Queued(gpu)
          /\ gpu'.adm = Pump(t).adm /\ gpu'.answer = Pump(t).answer
          /\ gpu'.aborted = Pump(t).aborted /\ Queued(gpu') = Queued(Pump(t))
          /\ \A q \in Runtimes : gpu'.ids[q] \subseteq Pump(t).ids[q]
    BY <1>1, <1>4, ForceShape
  <2>2. Over(Pump(t))
    BY <1>1, <1>2, <2>1, PumpOver
  <2>3. Flight(gpu') = Flight(Pump(t))
    BY <2>1 DEF Flight
  <2> QED
    BY <2>1, <2>2, <2>3 DEF Over
<1>5. CASE IdleFires(r)
  <2> DEFINE s == [gpu EXCEPT !.idle = @ \ {r}]
             t == BeginStop(gpu, r)
  <2>1. gpu' = Pump(s) \/ gpu' = t
    BY <1>5 DEF IdleFires
  <2>2. /\ s \in GpuState /\ t \in GpuState
        /\ s.work = gpu.work /\ s.pending = gpu.pending /\ s.ids = gpu.ids
        /\ s.aborted = gpu.aborted /\ s.adm = gpu.adm
        /\ s.answer = gpu.answer /\ s.born = gpu.born /\ s.rows = gpu.rows
        /\ t.work = gpu.work /\ t.pending = gpu.pending /\ t.ids = gpu.ids
        /\ t.aborted = gpu.aborted /\ t.adm = gpu.adm
        /\ t.answer = gpu.answer
    BY <1>1 DEF BeginStop, GpuState, RuntimeStates
  <2> HIDE DEF s, t
  <2>3. Over(s) /\ Over(t) /\ Ordered(s)
    BY <1>1, <1>2, <2>2 DEF Queued, Ordered
  <2> QED
    BY <1>1, <2>1, <2>2, <2>3, PumpOver
<1>6. CASE IdleStopped(r) \/ IdleStopFails(r)
           \/ ForceStopped(r) \/ ForceStopFails(r)
  <2>1. PICK value \in RuntimeStates :
           gpu' = Pump([gpu EXCEPT !.state[r] = value])
    BY <1>6 DEF IdleStopped, IdleStopFails, ForceStopped, ForceStopFails,
                RuntimeStates
  <2> DEFINE s == [gpu EXCEPT !.state[r] = value]
  <2>2. Good(s)
    BY <1>1, SetStateGood
  <2>3. /\ s.work = gpu.work /\ s.pending = gpu.pending /\ s.ids = gpu.ids
        /\ s.aborted = gpu.aborted /\ s.adm = gpu.adm
        /\ s.answer = gpu.answer
    BY <1>1 DEF GpuState
  <2> HIDE DEF s
  <2>4. Over(s)
    BY <1>2, <2>2, <2>3 DEF Queued, Good
  <2> QED
    BY <1>1, <2>1, <2>2, <2>4, PumpOver DEF Good, s
<1> QED
  BY <1>3, <1>4, <1>5, <1>6
  DEF RuntimeStep, StopStep, IdleStopCommand, ForceStopCommand,
      RefreshProbe, ServiceReady, ServiceDies, ServiceStartedOutside

(* A forced unload leaves the sweep in flight where it is, and pumps. *)
LEMMA ForceSteered ==
  ASSUME XInv, Steered(gpu), NEW r \in Runtimes, ForceUnload(r)
  PROVE  Steered(gpu')
<1>1. gpu \in GpuState /\ overdue = {} /\ Ordered(gpu)
  BY DEF XInv, Good
<1>2. PICK t \in GpuState :
        Ordered(t) /\ t.adm = gpu.adm /\ gpu'.adm = Pump(t).adm
  BY <1>1, ForceShape
<1>3. Steered(t)
  BY <1>2 DEF Steered, Flight
<1>4. Steered(Pump(t))
  BY <1>1, <1>2, <1>3, PumpSteered
<1> QED
  BY <1>2, <1>4 DEF Steered, Flight

-----------------------------------------------------------------------------
(* Services stand alone *)

(* The services that run, but for those the record knows as astray. *)
Present(s, v) ==
  {r \in Runtimes : v[r] # "down" /\ s.state[r] \notin {"failed", "unloading"}}

(* What the admission of i has made of the service of q: a sweep leaves     *)
(* none behind but the admission's own, and the start is after the sweep.   *)
Passed(s, i, q) ==
  /\ s.adm[i].at \in Sweeps => q = Model[i] \/ q >= s.adm[i].pos
  /\ s.adm[i].at \in Starts => q = Model[i]

Sole(s, v) ==
  /\ \A q, r \in Present(s, v) : q = r
  /\ s.oneShot # NoItem => Present(s, v) = {}

(* Whoever starts a service waits for it. *)
Awaited(s, v) ==
  \A r \in Runtimes : v[r] = "starting" =>
    \E i \in Flight(s) : Model[i] = r /\ s.adm[i].at = "startWait"

Alone(s, v) ==
  /\ Sole(s, v) /\ Awaited(s, v)
  /\ \A i \in Flight(s), q \in Present(s, v) : Passed(s, i, q)

(* pump() starts an admission, or leaves the runtimes alone. *)
LEMMA PumpAlone ==
  ASSUME NEW u \in GpuState, Ordered(u), overdue = {}, NEW v,
         \A i \in Flight(u) : i \notin Queued(u),
         \A i, j \in Flight(Pump(u)) : i = j, Alone(u, v)
  PROVE  Alone(Pump(u), v)
<1> DEFINE t == Pump(u)
<1>1. /\ t.oneShot = u.oneShot
      /\ \/ t.state = u.state /\ t.adm = u.adm
         \/ \E j \in Items : Begins(u, j, t)
  BY PumpShape
<1>2. \A i, j \in Flight(t) : i = j
  OBVIOUS
<1>3. 1 \in Runtimes /\ \A r \in Runtimes : r # OneShot /\ r >= 1
  BY RuntimesAssumption DEF Runtimes, OneShot
<1> HIDE DEF t
<1>4. ASSUME t.state = u.state, t.adm = u.adm
      PROVE  Alone(t, v)
  <2>1. Flight(t) = Flight(u) /\ Present(t, v) = Present(u, v)
    BY <1>4 DEF Flight, Present
  <2> QED
    BY <1>1, <1>4, <2>1 DEF Alone, Sole, Awaited, Passed
<1>5. ASSUME NEW j \in Items, Begins(u, j, t)
      PROVE  Alone(t, v)
  <2>1. /\ t.adm[j].at \in {"check", "probe", "stopCmd", "sweepProbe"}
        /\ t.adm[j].at \in Sweeps => t.adm[j].pos = 1
        /\ j \in Queued(u)
    BY <1>5 DEF Begins, Sweeps
  <2>2. Flight(t) = {j}
    BY <1>2, <2>1 DEF Flight
  <2>3. Present(t, v) \subseteq Present(u, v)
    BY <1>3, <1>5 DEF Begins, Present, GpuState
  <2>4. Sole(t, v)
    BY <1>1, <2>3 DEF Alone, Sole
  <2>5. \A q \in Present(t, v) : Passed(t, j, q)
    BY <1>3, <2>1 DEF Passed, Present, Starts
  <2>6. ASSUME NEW i \in Flight(u)
        PROVE  i \in Flight(t) /\ t.adm[i] = u.adm[i]
    BY <1>5, <2>1, <2>6 DEF Begins, Flight
  <2>7. Awaited(t, v)
    BY <2>6 DEF Alone, Awaited
  <2> QED
    BY <2>2, <2>4, <2>5, <2>7 DEF Alone
<1> QED
  BY <1>1, <1>4, <1>5 DEF t

(* An admission that ends with its runtime, or with none, present. *)
LEMMA RestedAlone ==
  ASSUME NEW s \in GpuState, NEW i, NEW u, NEW v, Rested(s, i, u),
         overdue = {}, Good(Pump(u)), Sole(u, v),
         \A r \in Runtimes : v[r] # "starting"
  PROVE  Alone(Pump(u), v)
<1>1. u \in GpuState /\ Ordered(u) /\ Flight(u) = {} /\ Alone(u, v)
  BY DEF Rested, Alone, Awaited
<1>2. \A j, k \in Flight(Pump(u)) : j = k
  BY DEF Good, Locked
<1> QED
  BY <1>1, <1>2, PumpAlone

(* A runtime that is ready is the one that is present. *)
LEMMA ReadyAlone ==
  ASSUME NEW s, Good(s), NEW i \in Flight(s), NEW v, overdue = {},
         Model[i] # OneShot, \A q, r \in Present(s, v) : q = r,
         \A r \in Runtimes : v[r] # "starting"
  PROVE  Alone(RuntimeReady(s, i), v)
<1>1. s \in GpuState /\ s.oneShot = NoItem
  BY DEF Good, Reserved
<1>2. PICK u : /\ RuntimeReady(s, i) = Pump(u)
               /\ Rested(s, i, u) /\ u.oneShot = s.oneShot
  BY ReadyShape DEF Gives, Leaves
<1>3. Good(Pump(u))
  BY <1>2, RuntimeReadyGood
<1>4. Sole(u, v)
  BY <1>1, <1>2 DEF Rested, Sole, Present
<1> QED
  BY <1>1, <1>2, <1>3, <1>4, RestedAlone

(* A one-shot finds no service present. *)
LEMMA OneShotAlone ==
  ASSUME NEW s, Good(s), NEW i \in Flight(s), NEW v, overdue = {},
         Model[i] = OneShot, Present(s, v) = {},
         \A r \in Runtimes : v[r] # "starting"
  PROVE  Alone(OneShotReady(s, i), v)
<1>1. PICK u : OneShotReady(s, i) = Pump(u) /\ Rested(s, i, u)
  BY OneShotShape DEF Leaves, GivesAlone
<1>2. Good(Pump(u)) /\ s \in GpuState
  BY <1>1, OneShotReadyGood DEF Good
<1>3. Sole(u, v)
  BY <1>1 DEF Rested, Sole, Present
<1> QED
  BY <1>1, <1>2, <1>3, RestedAlone

(* A sweep that has dealt with the runtimes up to pos, for an item that is  *)
(* not cancelled. *)
LEMMA SweepOnAlone ==
  ASSUME NEW s, Good(s), NEW i \in Flight(s), NEW v, overdue = {},
         i \notin s.aborted, NEW pos \in 0..N, NEW adopt \in BOOLEAN,
         \A q, r \in Present(s, v) : q = r,
         \A q \in Present(s, v) : q = Model[i] \/ q > pos,
         \A r \in Runtimes : v[r] # "starting",
         adopt => Model[i] # OneShot
  PROVE  Alone(SweepOn(s, i, pos, adopt), v)
<1> DEFINE t == SweepOn(s, i, pos, adopt)
<1>1. /\ s \in GpuState /\ i \in Items /\ \A j \in Flight(s) : j = i
      /\ s.oneShot = NoItem
  BY DEF Good, Flight, Locked, Reserved
<1>2. \A r \in Runtimes : r # OneShot /\ r \in Nat
  BY DEF Runtimes, OneShot
<1>3. ASSUME NEW n, Visits(s, i, pos, adopt, n, t)
      PROVE  Alone(t, v)
  <2>1. /\ n \in Runtimes
        /\ \A q \in Runtimes : q > pos /\ q # Model[i] => n <= q
        /\ t.oneShot = s.oneShot
        /\ t.adm[i].at \in {"stopCmd", "sweepProbe"}
        /\ t.adm[i].pos = n
        /\ \A j \in Items : j # i => t.adm[j] = s.adm[j]
    BY <1>3 DEF Visits
  <2>2. Present(t, v) \subseteq Present(s, v)
    BY <1>1, <1>3 DEF Visits, Present, GpuState
  <2>3. Flight(t) = {i}
    BY <1>1, <2>1 DEF Flight
  <2>4. \A q \in Present(t, v) : q = Model[i] \/ q >= n
    <3> SUFFICES ASSUME NEW q \in Present(t, v), q # Model[i] PROVE q >= n
      OBVIOUS
    <3>1. q \in Runtimes /\ q > pos
      BY <2>2 DEF Present
    <3>2. n <= q /\ n \in Nat /\ q \in Nat
      BY <1>2, <2>1, <3>1
    <3> QED
      BY <3>2
  <2>5. Sole(t, v) /\ Awaited(t, v)
    BY <1>1, <2>1, <2>2 DEF Sole, Awaited
  <2> HIDE DEF t
  <2>6. \A q \in Present(t, v) : Passed(t, i, q)
    BY <2>1, <2>4 DEF Passed, Starts
  <2> QED
    BY <2>3, <2>5, <2>6 DEF Alone
<1>4. ASSUME \A q \in Runtimes : q > pos => q = Model[i],
             t = SweepDone(s, i, adopt)
      PROVE  Alone(t, v)
  <2> DEFINE w == [s EXCEPT !.state[Model[i]] = "loaded"]
             z == [s EXCEPT !.state[Model[i]] = "loading",
                            !.adm[i] = [at |-> "startCmd", pos |-> 0,
                                        adopt |-> FALSE]]
  <2>1. t = IF Model[i] = OneShot THEN OneShotReady(s, i)
            ELSE IF adopt THEN RuntimeReady(w, i)
            ELSE IF i \in s.aborted THEN AdmissionFails(s, i, "failed", "e499")
            ELSE z
    BY <1>4 DEF SweepDone
  <2>2. \A q \in Present(s, v) : q = Model[i]
    BY <1>4 DEF Present
  <2>3. Good(w) /\ i \in Flight(w)
    BY SetStateGood DEF RuntimeStates
  <2>4. \A q \in Present(w, v) : q = Model[i]
    BY <1>1, <2>2 DEF Present, GpuState
  <2>5. /\ z.oneShot = s.oneShot /\ z.adm[i].at = "startCmd"
        /\ \A j \in Items : j # i => z.adm[j] = s.adm[j]
        /\ \A q \in Present(z, v) : q = Model[i]
    BY <1>1, <2>2 DEF GpuState, Present
  <2> HIDE DEF t, w, z
  <2>6. Alone(z, v)
    <3>1. Flight(z) = {i}
      BY <1>1, <2>5 DEF Flight
    <3>2. Sole(z, v) /\ Awaited(z, v)
      BY <1>1, <2>5 DEF Sole, Awaited
    <3>3. \A q \in Present(z, v) : Passed(z, i, q)
      BY <2>5 DEF Passed, Sweeps
    <3> QED
      BY <3>1, <3>2, <3>3 DEF Alone
  <2>7. ASSUME Model[i] = OneShot
        PROVE  Alone(OneShotReady(s, i), v)
    <3>1. Present(s, v) = {}
      BY <1>2, <2>2, <2>7 DEF Present
    <3> QED
      BY <2>7, <3>1, OneShotAlone
  <2>8. Model[i] # OneShot => Alone(RuntimeReady(w, i), v)
    BY <2>3, <2>4, ReadyAlone
  <2> QED
    BY <2>1, <2>6, <2>7, <2>8
<1> QED
  BY <1>3, <1>4, SweepShape

(* A slot given back, a service that goes down or comes up, a stop that     *)
(* ends: only the service an admission waits for can become present.        *)
LEMMA EasedAlone ==
  ASSUME NEW s, Good(s), NEW t, NEW v, NEW w, Alone(s, v),
         t.adm = s.adm, t.oneShot \in {s.oneShot, NoItem},
         \A r \in Present(t, w) : r \in Present(s, v) \/ v[r] = "starting",
         \A r \in Runtimes : w[r] = "starting" => v[r] = "starting"
  PROVE  Alone(t, w)
<1>1. /\ Flight(t) = Flight(s) /\ Flight(s) \subseteq Items
      /\ \A i, j \in Flight(s) : i = j
  BY DEF Good, Locked, Flight
<1>2. ASSUME NEW r \in Runtimes, v[r] = "starting"
      PROVE  /\ s.oneShot = NoItem /\ Flight(s) # {}
             /\ \A i \in Flight(s) : Model[i] = r /\ s.adm[i].at = "startWait"
             /\ \A q \in Present(s, v) : q = r
  <2>1. PICK i \in Flight(s) : Model[i] = r /\ s.adm[i].at = "startWait"
    BY <1>2 DEF Alone, Awaited
  <2>2. \A q \in Present(s, v) : Passed(s, i, q)
    BY DEF Alone
  <2> QED
    BY <1>1, <2>1, <2>2 DEF Good, Reserved, Passed, Starts
<1>3. \A r \in Present(t, w) : r \in Runtimes
  BY DEF Present
<1>4. CASE \E r \in Runtimes : v[r] = "starting"
  <2>1. PICK r \in Runtimes : v[r] = "starting"
    BY <1>4
  <2>2. \A q \in Present(t, w) : q = r
    <3>1. PICK i \in Flight(s) : Model[i] = r
      BY <1>2, <2>1
    <3>2. \A q \in Runtimes : v[q] = "starting" => q = r
      BY <1>2, <3>1
    <3> QED
      BY <1>2, <1>3, <2>1, <3>2
  <2>3. Sole(t, w)
    BY <1>2, <2>1, <2>2 DEF Sole
  <2>4. Awaited(t, w)
    BY <1>1 DEF Alone, Awaited
  <2>5. \A i \in Flight(s), q \in Present(t, w) : Passed(t, i, q)
    BY <1>2, <2>1, <2>2 DEF Passed
  <2> QED
    BY <1>1, <2>3, <2>4, <2>5 DEF Alone
<1>5. CASE \A r \in Runtimes : v[r] # "starting"
  <2>1. Present(t, w) \subseteq Present(s, v)
    BY <1>3, <1>5
  <2>2. Sole(t, w)
    BY <2>1 DEF Alone, Sole
  <2>3. Awaited(t, w)
    BY <1>5 DEF Awaited
  <2>4. \A i \in Flight(s), q \in Present(t, w) : Passed(t, i, q)
    BY <2>1 DEF Alone, Passed
  <2> QED
    BY <1>1, <2>2, <2>3, <2>4 DEF Alone
<1> QED
  BY <1>4, <1>5

(* So do the calls of the coordinator's users. *)
LEMMA CallsAlone ==
  ASSUME "cancel" \notin Events, XInv, Alone(gpu, svc), NEW i \in Items,
         \/ Acquire(i) \/ AcquireRefused(i) \/ Release(i)
         \/ Cancel(i) \/ QueueTimeout(i)
  PROVE  Alone(gpu', svc')
<1>1. Good(gpu) /\ overdue = {} /\ svc' = svc /\ Good(gpu')
  BY CallShape, CallsGood DEF XInv
<1>2. ASSUME NEW u, Good(u), gpu' = Pump(u), Alone(u, svc)
      PROVE  Alone(gpu', svc')
  <2>1. /\ u \in GpuState /\ Ordered(u)
        /\ \A j \in Flight(u) : j \notin Queued(u)
    BY <1>2 DEF Good, RowOK, Queued, Flight
  <2>2. \A j, k \in Flight(Pump(u)) : j = k
    BY <1>1, <1>2 DEF Good, Locked
  <2> QED
    BY <1>1, <1>2, <2>1, <2>2, PumpAlone
<1>3. ASSUME NEW u, Frees(gpu, i, u) \/ Joins(gpu, i, u)
      PROVE  Alone(u, svc)
  <2>1. /\ u.adm = gpu.adm /\ u.oneShot \in {gpu.oneShot, NoItem}
        /\ Present(u, svc) = Present(gpu, svc)
    BY <1>3 DEF Frees, Joins, Present
  <2> QED
    BY <1>1, <2>1, EasedAlone
<1> QED
  BY <1>2, <1>3, CallShape

(* So do the steps of an admission, while no load fails. *)
LEMMA AdmissionAlone ==
  ASSUME "loadfail" \notin Events, XInv, Steered(gpu), Over(gpu),
         Alone(gpu, svc), NEW i \in Items, AdmissionStep(i)
  PROVE  Alone(gpu', svc')
<1> DEFINE a == gpu.adm[i]
           m == Model[i]
<1>1. /\ i \in Flight(gpu) /\ gpu \in GpuState /\ Good(gpu) /\ overdue = {}
      /\ a.pos \in 0..N /\ a.adopt \in BOOLEAN /\ 0 \in 0..N
      /\ m = OneShot => a.at \in Sweeps
      /\ ~RefusedSettles(i)
  BY AdmissionFacts
<1>2. /\ \A j \in Flight(gpu) : j = i
      /\ m # OneShot => m \in Runtimes
      /\ gpu.oneShot = NoItem
      /\ i \notin gpu.aborted
      /\ \A q, r \in Present(gpu, svc) : q = r
      /\ \A q \in Present(gpu, svc) : Passed(gpu, i, q)
      /\ svc \in [Runtimes -> {"down", "starting", "up"}]
  BY <1>1, RequestsAssumption
     DEF Good, Locked, Reserved, Over, Alone, Sole, XInv, IInv, TypeOK
<1>3. /\ a.at # "startWait" => \A r \in Runtimes : svc[r] # "starting"
      /\ \A r \in Runtimes : svc[r] = "starting" => r = m
  BY <1>2 DEF Alone, Awaited
<1>4. a.at \in Sweeps =>
        /\ a.pos \in Runtimes /\ a.pos # m
        /\ a.adopt => m # OneShot
        /\ \A q \in Present(gpu, svc) : q = m \/ q >= a.pos
        /\ \A r \in Runtimes : svc[r] # "starting"
  BY <1>1, <1>2, <1>3 DEF Steered, Passed, Sweeps
<1>5. ASSUME NEW value \in RuntimeStates, a.at \in Sweeps,
             value # "failed" => svc[a.pos] = "down"
      PROVE  Alone(SweepOn([gpu EXCEPT !.state[a.pos] = value],
                           i, a.pos, a.adopt), svc)
  <2> DEFINE w == [gpu EXCEPT !.state[a.pos] = value]
  <2>1. Good(w) /\ Flight(w) = Flight(gpu) /\ w.aborted = gpu.aborted
    BY <1>1, SetStateGood DEF GpuState
  <2>2. Present(w, svc) \subseteq Present(gpu, svc) \ {a.pos}
    BY <1>1, <1>4, <1>5 DEF Present, GpuState
  <2> HIDE DEF w
  <2>3. \A q \in Present(w, svc) : q = m \/ q > a.pos
    <3>1. \A q \in Present(w, svc) : q \in Nat /\ q # a.pos
                                     /\ (q = m \/ q >= a.pos)
      BY <1>4, <1>5, <2>2 DEF Present, Runtimes
    <3>2. a.pos \in Nat
      BY <1>1
    <3> QED
      BY <3>1, <3>2
  <2>4. \A q, r \in Present(w, svc) : q = r
    BY <1>2, <2>2
  <2> HIDE DEF a
  <2>5. Alone(SweepOn(w, i, a.pos, a.adopt), svc)
    BY <1>1, <1>2, <1>4, <1>5, <2>1, <2>3, <2>4, SweepOnAlone
  <2> QED
    BY <2>5 DEF w
<1>6. ASSUME NEW t, t.oneShot = gpu.oneShot,
             \A j \in Items : j # i => t.adm[j] = gpu.adm[j],
             t.adm[i].at # "none", NEW v,
             \A q, r \in Present(t, v) : q = r,
             \A q \in Present(t, v) : Passed(t, i, q),
             \A r \in Runtimes : v[r] = "starting" =>
               m = r /\ t.adm[i].at = "startWait"
      PROVE  Alone(t, v)
  <2>1. Flight(t) = {i}
    BY <1>1, <1>2, <1>6 DEF Flight
  <2> QED
    BY <1>2, <1>6, <2>1 DEF Alone, Sole, Awaited
<1>7. CASE CheckHealth(i)
  <2>1. a.at = "check" /\ m # OneShot /\ svc' = svc
    BY <1>1, <1>7 DEF CheckHealth, Sweeps
  <2>2. CASE Up(m)
    <3>1. Alone(RuntimeReady(gpu, i), svc)
      BY <1>1, <1>2, <1>3, <2>1, ReadyAlone
    <3> QED
      BY <1>7, <2>1, <2>2, <3>1 DEF CheckHealth
  <2>3. CASE ~Up(m)
    <3>1. gpu' = [gpu EXCEPT !.adm[i].at = "probe"]
      BY <1>7, <2>3 DEF CheckHealth
    <3>2. /\ gpu'.adm[i].at = "probe" /\ gpu'.oneShot = gpu.oneShot
          /\ Present(gpu', svc) = Present(gpu, svc)
          /\ \A j \in Items : j # i => gpu'.adm[j] = gpu.adm[j]
      BY <1>1, <3>1 DEF GpuState, Present
    <3>3. \A q \in Present(gpu', svc) : Passed(gpu', i, q)
      BY <3>2 DEF Passed, Sweeps, Starts
    <3> QED
      BY <1>2, <1>3, <1>6, <2>1, <3>2, <3>3
  <2> QED
    BY <2>2, <2>3
<1>8. CASE ProbeHealth(i)
  <2>1. a.at = "probe" /\ m # OneShot /\ svc' = svc /\ Up(m) \in BOOLEAN
    BY <1>1, <1>8 DEF ProbeHealth, Sweeps, Up
  <2>2. \A q \in Present(gpu, svc) : q = m \/ q > 0
    BY DEF Present, Runtimes
  <2>3. \A r \in Runtimes : svc[r] # "starting"
    BY <1>3, <2>1
  <2> HIDE DEF a
  <2>4. Alone(SweepOn(gpu, i, 0, Up(m)), svc)
    BY <1>1, <1>2, <2>1, <2>2, <2>3, SweepOnAlone
  <2> QED
    BY <1>8, <2>1, <2>4 DEF ProbeHealth
<1>9. CASE SweepProbe(i)
  <2> DEFINE value == IF gpu.state[a.pos] = "failed" THEN "failed"
                      ELSE "unloaded"
             w == [gpu EXCEPT !.state[a.pos] = value]
             t == [BeginStop(gpu, a.pos) EXCEPT !.adm[i].at = "stopCmd"]
  <2>1. /\ svc' = svc
        /\ \/ ~Up(a.pos) /\ gpu' = SweepOn(w, i, a.pos, a.adopt)
           \/ gpu' = t
    BY <1>9, SweepProbeShape
  <2>2. value \in RuntimeStates /\ a.at \in Sweeps
    BY <1>9 DEF RuntimeStates, Sweeps, SweepProbe
  <2>3. ~Up(a.pos) => svc[a.pos] = "down"
    BY <1>2, <1>4, <2>2 DEF Up
  <2>4. /\ t.oneShot = gpu.oneShot
        /\ t.adm[i].at = "stopCmd" /\ t.adm[i].pos = a.pos
        /\ \A j \in Items : j # i => t.adm[j] = gpu.adm[j]
        /\ Present(t, svc) \subseteq Present(gpu, svc)
    BY <1>1 DEF GpuState, Admission, BeginStop, Present
  <2> HIDE DEF t, value
  <2>5. ~Up(a.pos) => Alone(SweepOn(w, i, a.pos, a.adopt), svc)
    BY <1>5, <2>2, <2>3
  <2>6. \A q \in Present(t, svc) : Passed(t, i, q)
    BY <1>4, <2>2, <2>4 DEF Passed, Starts
  <2>7. Alone(t, svc)
    BY <1>2, <1>4, <1>6, <2>2, <2>4, <2>6
  <2> QED
    BY <2>1, <2>5, <2>7
<1>10. CASE SweepStopCommand(i)
  <2>1. /\ gpu' = [gpu EXCEPT !.adm[i].at = "stopWait"]
        /\ svc' = [svc EXCEPT ![a.pos] = "down"]
        /\ a.at \in Sweeps
    BY <1>10 DEF SweepStopCommand, Sweeps
  <2>2. /\ gpu'.oneShot = gpu.oneShot /\ gpu'.state = gpu.state
        /\ gpu'.adm[i].at = "stopWait" /\ gpu'.adm[i].pos = a.pos
        /\ \A j \in Items : j # i => gpu'.adm[j] = gpu.adm[j]
    BY <1>1, <2>1 DEF GpuState, Admission
  <2>3. \A r \in Runtimes : svc'[r] \in {svc[r], "down"}
    BY <1>2, <2>1
  <2>4. Present(gpu', svc') \subseteq Present(gpu, svc)
    BY <2>2, <2>3 DEF Present
  <2>5. \A q \in Present(gpu', svc') : Passed(gpu', i, q)
    BY <1>4, <2>1, <2>2, <2>4 DEF Passed, Starts
  <2>6. \A r \in Runtimes : svc'[r] # "starting"
    BY <1>4, <2>1, <2>3
  <2> QED
    BY <1>2, <1>6, <2>2, <2>4, <2>5, <2>6
<1>11. CASE StartCommand(i)
  <2>1. /\ gpu' = [gpu EXCEPT !.adm[i].at = "startWait"]
        /\ svc' = [svc EXCEPT ![m] = IF @ = "down" THEN "starting" ELSE @]
        /\ a.at = "startCmd"
    BY <1>11 DEF StartCommand
  <2>2. /\ gpu'.oneShot = gpu.oneShot /\ gpu'.state = gpu.state
        /\ gpu'.adm[i].at = "startWait"
        /\ \A j \in Items : j # i => gpu'.adm[j] = gpu.adm[j]
    BY <1>1, <2>1 DEF GpuState
  <2>3. \A r \in Runtimes : r # m => svc'[r] = svc[r] /\ svc[r] # "starting"
    BY <1>2, <1>3, <2>1
  <2>4. \A q \in Present(gpu', svc') : q = m
    <3>1. \A q \in Present(gpu, svc) : q = m
      BY <1>2, <2>1 DEF Passed, Starts
    <3> QED
      BY <2>2, <2>3, <3>1 DEF Present
  <2>5. \A q \in Present(gpu', svc') : Passed(gpu', i, q)
    BY <2>2, <2>4 DEF Passed, Sweeps
  <2>6. \A q, r \in Present(gpu', svc') : q = r
    BY <2>4
  <2> QED
    BY <1>6, <2>2, <2>3, <2>5, <2>6
<1>12. CASE SweepStopped(i) \/ SweepStopFails(i)
  <2>1. PICK value \in {"unloaded", "failed"} :
           /\ gpu' = SweepOn([gpu EXCEPT !.state[a.pos] = value],
                             i, a.pos, a.adopt)
           /\ value = "failed" \/ ~Up(a.pos)
    BY <1>12 DEF SweepStopped, SweepStopFails
  <2>2. /\ a.at \in Sweeps /\ svc' = svc /\ value \in RuntimeStates
    BY <1>12, <2>1 DEF SweepStopped, SweepStopFails, Sweeps, RuntimeStates
  <2>3. ~Up(a.pos) => svc[a.pos] = "down"
    BY <1>2, <1>4, <2>2 DEF Up
  <2> QED
    BY <1>5, <2>1, <2>2, <2>3
<1>13. ~StartCommandFails(i) /\ ~LoadAborted(i) /\ ~LoadTimesOut(i)
  BY <1>2 DEF StartCommandFails, LoadAborted, LoadTimesOut
<1>14. CASE LoadHealthy(i)
  <2> DEFINE w == [gpu EXCEPT !.state[m] = "loaded"]
  <2>1. Good(w) /\ i \in Flight(w)
    BY <1>1, SetStateGood DEF RuntimeStates
  <2>2. /\ gpu' = RuntimeReady(w, i) /\ m # OneShot /\ svc' = svc
        /\ svc[m] = "up" /\ a.at = "startWait"
    BY <1>1, <1>14 DEF LoadHealthy, Sweeps, Up
  <2>3. \A q \in Present(gpu, svc) : q = m
    BY <1>2, <2>2 DEF Passed, Starts
  <2>4. \A q \in Present(w, svc) : q = m
    BY <1>1, <2>3 DEF GpuState, Present
  <2>5. \A r \in Runtimes : svc[r] # "starting"
    BY <1>3, <2>2
  <2> HIDE DEF w
  <2>6. Alone(RuntimeReady(w, i), svc)
    BY <1>1, <2>1, <2>2, <2>4, <2>5, ReadyAlone
  <2> QED
    BY <2>2, <2>6
<1> QED
  BY <1>1, <1>7, <1>8, <1>9, <1>10, <1>11, <1>12, <1>13, <1>14
     DEF AdmissionStep

(* So do the timers, the stops and the services. *)
LEMMA RuntimesAlone ==
  ASSUME {"refresh", "external"} \cap Events = {}, XInv, Good(gpu'),
         Alone(gpu, svc), NEW r \in Runtimes, RuntimeStep(r)
  PROVE  Alone(gpu', svc')
<1>1. /\ gpu \in GpuState /\ overdue = {} /\ Good(gpu) /\ Ordered(gpu)
      /\ svc \in [Runtimes -> {"down", "starting", "up"}]
      /\ \A i \in Flight(gpu) : i \notin Queued(gpu)
  BY DEF XInv, IInv, TypeOK, Good, RowOK, Flight, Queued
<1>2. ASSUME NEW t \in GpuState, Ordered(t), t.adm = gpu.adm,
             Queued(t) \subseteq Queued(gpu), Alone(t, svc),
             gpu'.adm = Pump(t).adm
      PROVE  Alone(Pump(t), svc)
  <2>1. Flight(t) = Flight(gpu) /\ Flight(Pump(t)) = Flight(gpu')
    BY <1>2 DEF Flight
  <2>2. \A i, j \in Flight(Pump(t)) : i = j
    BY <2>1 DEF Good, Locked
  <2> QED
    BY <1>1, <1>2, <2>1, <2>2, PumpAlone
<1>3. ASSUME NEW t, t.adm = gpu.adm, t.oneShot = gpu.oneShot,
             \A q \in Present(t, svc) :
               q \in Present(gpu, svc) \/ svc[q] = "starting"
      PROVE  Alone(t, svc)
  BY <1>1, <1>3, EasedAlone
<1>4. CASE IdleFires(r)
  <2> DEFINE s == [gpu EXCEPT !.idle = @ \ {r}]
             t == BeginStop(gpu, r)
  <2>1. svc' = svc /\ (gpu' = Pump(s) \/ gpu' = t)
    BY <1>4 DEF IdleFires
  <2>2. /\ s \in GpuState /\ s.work = gpu.work /\ s.born = gpu.born
        /\ s.rows = gpu.rows /\ s.pending = gpu.pending
        /\ s.oneShot = gpu.oneShot /\ s.adm = gpu.adm
        /\ s.state = gpu.state
    BY <1>1 DEF GpuState
  <2>3. /\ t.adm = gpu.adm /\ t.oneShot = gpu.oneShot
        /\ Present(t, svc) \subseteq Present(gpu, svc)
    BY <1>1 DEF BeginStop, GpuState, Present
  <2> HIDE DEF s, t
  <2>4. Ordered(s) /\ Queued(s) = Queued(gpu)
    BY <1>1, <2>2 DEF Ordered, Queued
  <2>5. Alone(s, svc) /\ Alone(t, svc)
    BY <1>3, <2>2, <2>3 DEF Present
  <2> QED
    BY <1>2, <2>1, <2>2, <2>4, <2>5
<1>5. CASE ForceUnload(r)
  <2>1. PICK t \in GpuState :
          /\ Ordered(t) /\ t.state = gpu.state /\ t.adm = gpu.adm
          /\ t.oneShot = gpu.oneShot /\ Queued(t) \subseteq Queued(gpu)
          /\ gpu'.state = [Pump(t).state EXCEPT ![r] = "unloading"]
          /\ gpu'.adm = Pump(t).adm /\ gpu'.oneShot = Pump(t).oneShot
    BY <1>1, <1>5, ForceShape
  <2> DEFINE p == Pump(t)
  <2>2. Alone(t, svc)
    BY <1>3, <2>1 DEF Present
  <2>3. Alone(p, svc)
    BY <1>2, <2>1, <2>2
  <2>4. p \in GpuState /\ svc' = svc
    BY <1>1, <1>5, ForceShape, PumpEvolves DEF Evolves
  <2> HIDE DEF p
  <2>5. /\ Present(gpu', svc) \subseteq Present(p, svc)
        /\ gpu'.adm = p.adm /\ gpu'.oneShot = p.oneShot
    BY <2>1, <2>4 DEF p, Present, GpuState
  <2>6. Flight(gpu') = Flight(p)
    BY <2>5 DEF Flight
  <2> QED
    BY <2>3, <2>4, <2>5, <2>6 DEF Alone, Sole, Awaited, Passed
<1>6. CASE IdleStopped(r) \/ IdleStopFails(r)
           \/ ForceStopped(r) \/ ForceStopFails(r)
  <2>1. PICK value \in {"unloaded", "failed"} :
           /\ gpu' = Pump([gpu EXCEPT !.state[r] = value])
           /\ value = "failed" \/ ~Up(r)
    BY <1>6 DEF IdleStopped, IdleStopFails, ForceStopped, ForceStopFails
  <2>2. svc' = svc
    BY <1>6 DEF IdleStopped, IdleStopFails, ForceStopped, ForceStopFails
  <2> DEFINE s == [gpu EXCEPT !.state[r] = value]
  <2>3. Good(s)
    <3>1. value \in RuntimeStates
      BY <2>1 DEF RuntimeStates
    <3> QED
      BY <1>1, <3>1, SetStateGood
  <2>4. /\ s.work = gpu.work /\ s.pending = gpu.pending /\ s.adm = gpu.adm
        /\ s.oneShot = gpu.oneShot
        /\ \A q \in Runtimes : s.state[q] = IF q = r THEN value
                                                     ELSE gpu.state[q]
    BY <1>1 DEF GpuState
  <2> HIDE DEF s
  <2>5. \A q \in Present(s, svc) :
          q \in Present(gpu, svc) \/ svc[q] = "starting"
    BY <1>1, <2>1, <2>4 DEF Present, Up
  <2>6. Alone(s, svc) /\ Queued(s) = Queued(gpu)
    BY <1>3, <2>4, <2>5 DEF Queued
  <2> QED
    BY <1>2, <2>1, <2>2, <2>3, <2>4, <2>6 DEF s, Good
<1>7. CASE \/ IdleStopCommand(r) \/ ForceStopCommand(r)
           \/ ServiceReady(r) \/ ServiceDies(r)
  <2>1. /\ gpu' = gpu
        /\ \/ svc' = [svc EXCEPT ![r] = "down"]
           \/ svc' = [svc EXCEPT ![r] = "up"] /\ svc[r] = "starting"
    BY <1>7 DEF IdleStopCommand, ForceStopCommand, ServiceReady, ServiceDies
  <2>2. \A q \in Runtimes : /\ svc'[q] = "starting" => svc[q] = "starting"
                            /\ svc'[q] # "down" => svc[q] # "down"
    BY <1>1, <2>1
  <2>3. Present(gpu, svc') \subseteq Present(gpu, svc)
    BY <2>2 DEF Present
  <2>4. Alone(gpu, svc')
    BY <1>1, <2>2, <2>3, EasedAlone
  <2> QED
    BY <2>1, <2>4
<1>8. ~RefreshProbe(r) /\ ~ServiceStartedOutside(r)
  BY Zenon DEF RefreshProbe, ServiceStartedOutside
<1> QED
  BY <1>4, <1>5, <1>6, <1>7, <1>8 DEF RuntimeStep, StopStep

AInv ==
  /\ XInv /\ Steered(gpu) /\ Unprobed /\ Over(gpu)
  /\ Alone(gpu, svc)

(* Every step keeps it, but for the five events the theorem excludes. *)
LEMMA NextAlone ==
  ASSUME {"loadfail", "cancel", "late", "external", "refresh"} \cap Events = {},
         AInv, [Next]_vars
  PROVE  AInv'
<1>1. /\ XInv /\ Steered(gpu) /\ Unprobed /\ Over(gpu) /\ Alone(gpu, svc)
  BY DEF AInv
<1>2. XInv' /\ Good(gpu')
  BY <1>1, NextXInv DEF XInv
<1>3. CASE UNCHANGED vars
  BY <1>1, <1>2, <1>3
     DEF vars, AInv, Steered, Unprobed, Over, Alone, Sole, Awaited, Passed,
         Present, Flight, Queued
<1>4. ASSUME NEW i \in Items,
             \/ Acquire(i) \/ AcquireRefused(i) \/ Release(i)
             \/ Cancel(i) \/ QueueTimeout(i)
      PROVE  Steered(gpu') /\ Unprobed' /\ Over(gpu') /\ Alone(gpu', svc')
  <2>1. probe' = probe
    BY <1>1, <1>4, CallShape
  <2> QED
    BY <1>1, <1>4, <2>1, CallsSteered, CallsOver, CallsAlone DEF Unprobed
<1>5. ASSUME NEW i \in Items, AdmissionStep(i)
      PROVE  Steered(gpu') /\ Unprobed' /\ Over(gpu') /\ Alone(gpu', svc')
  <2>1. probe' = probe
    BY <1>1, <1>5, AdmissionFacts
  <2> QED
    BY <1>1, <1>5, <2>1, AdmissionSteered, AdmissionOver, AdmissionAlone
       DEF Unprobed
<1>6. ASSUME NEW r \in Runtimes, RuntimeStep(r)
      PROVE  Steered(gpu') /\ Unprobed' /\ Over(gpu') /\ Alone(gpu', svc')
  <2>1. ~RefreshProbe(r)
    BY Zenon DEF RefreshProbe
  <2>2. probe' = probe
    BY <1>6, <2>1, Zenon DEF RuntimeStep, IdleFires, ForceUnload, StopStep,
       IdleStopCommand, IdleStopped, IdleStopFails, ForceStopCommand,
       ForceStopped, ForceStopFails, ServiceReady, ServiceDies,
       ServiceStartedOutside
  <2>3. Steered(gpu')
    BY <1>1, <1>6, RuntimesSteered, ForceSteered
  <2> QED
    BY <1>1, <1>2, <1>6, <2>2, <2>3, RuntimesOver, RuntimesAlone DEF Unprobed
<1>7. ~RefreshApply
  BY <1>1, RuntimesAssumption DEF RefreshApply, Unprobed, Runtimes
<1>8. CASE Next
  <2>1. ASSUME NEW i \in Items, ItemStep(i)
        PROVE  Steered(gpu') /\ Unprobed' /\ Over(gpu') /\ Alone(gpu', svc')
    BY <1>4, <1>5, <2>1 DEF ItemStep, DeadlinePasses
  <2> QED
    BY <1>2, <1>6, <1>7, <1>8, <2>1 DEF Next, AInv
<1> QED
  BY <1>3, <1>8

(* At the start no service runs. *)
LEMMA InitAlone == Init => AInv
<1> SUFFICES ASSUME Init PROVE AInv
  OBVIOUS
<1>1. XInv
  BY InitXInv
<1>2. /\ Flight(gpu) = {} /\ gpu.aborted = {} /\ Present(gpu, svc) = {}
      /\ \A r \in Runtimes : gpu.ids[r] = {} /\ svc[r] = "down"
  BY DEF Init, Flight, NotAdmitting, Present
<1>3. Unprobed
  BY DEF Init, Unprobed
<1> QED
  BY <1>1, <1>2, <1>3 DEF AInv, Steered, Over, Alone, Sole, Awaited

(* No two services run side by side, and none beside a one-shot, but those  *)
(* the record knows as failed to stop or on their way out: an admission     *)
(* starts its service when its sweep has been past every other, and no idle *)
(* timer, forced unload, failed stop or dying service makes it forget one.  *)
THEOREM ServicesStandAlone ==
  ASSUME {"loadfail", "cancel", "late", "external", "refresh"} \cap Events = {}
  PROVE  Spec => []ServicesAlone
<1>1. AInv => ServicesAlone
  BY DEF AInv, Alone, Sole, Present, ServicesAlone
<1>2. AInv /\ [Next]_vars => AInv'
  BY NextAlone
<1> QED
  BY <1>1, <1>2, InitAlone, PTL DEF Spec

=============================================================================
