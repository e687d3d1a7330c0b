---------------------------- MODULE WorkTelemetry ----------------------------
(***************************************************************************)
(* What the gateway tells of its GPU work: the telemetry of each request,  *)
(* the timeline of its events and the prefill progress that a runtime      *)
(* writes to a file (gpu-coordinator.ts 1070-1122, 1188-1458, 1553-1575).  *)
(*                                                                         *)
(* Queueing and loading are those of GpuCoordinator, reduced to what the   *)
(* telemetry tells apart; all requests name one runtime.  A request is     *)
(* proxied (proxyRuntime), a text (generateText) or a one-shot command.    *)
(* Its outcome is decided by its release, by a cancel, or by a restart,    *)
(* and its upstream may still answer when it has been decided.             *)
(*                                                                         *)
(* A definition marked "mutant" is the next one with a plausible bug.      *)
(***************************************************************************)
EXTENDS Integers, Sequences, FiniteSets, SequencesExt

CONSTANTS
  Proxied, Texts, Shots,   \* the requests, by what serves them
  MaxConcurrency,          \* of the runtime
  MaxKept,                 \* completed telemetry kept; 100 in the code
  Fresh,                   \* how long progress is fresh; 30 s in the code
  MaxClock, MaxChunks      \* bounds of the model

ASSUME TelemetryAssumption ==
  /\ \A s \in {Proxied, Texts, Shots} : IsFiniteSet(s)
  /\ MaxConcurrency \in Nat \ {0} /\ MaxKept \in Nat \ {0}
  /\ {Fresh, MaxClock, MaxChunks} \subseteq Nat

VARIABLES
  work,    \* work[w]: the request w (Request below)
  kept,    \* completedWorkTelemetry, oldest first
  file,    \* the progress file of the runtime
  now      \* the clock

vars == <<work, kept, file, now>>

Items == Proxied \cup Texts \cup Shots

Ended == {"succeeded", "failed", "cancelled", "timed_out"}
Rows == {"none", "queued", "running"} \cup Ended
Phases == {"queued", "loading_model", "admitted", "command_running",
           "prefill", "receiving", "streaming", "completed",
           "failed", "cancelled", "timed_out"}
Never == -1
Times == {Never} \cup (0..MaxClock)
Parts == {"none", "some", "all"}      \* prefill_progress: null, < 1, or 1

Telemetry ==
  [ phase : Phases, started : Times, first : Times, finished : Times,
    sent : BOOLEAN, chunks : 0..(MaxChunks + 1) ]

NoTelemetry == [phase |-> "unknown"]

Request ==
  [ row : Rows,                                   \* gpu_work_items.state
    at : {"new", "queued", "loading", "granted", "fetching", "reading",
          "returning", "late", "done"},           \* where its call is
    pending : BOOLEAN,                            \* in this.pending
    aborted : BOOLEAN,                            \* its signal
    tel : Telemetry \cup {NoTelemetry},           \* in this.workTelemetry
    log : Seq(Rows) ]                             \* its timeline events

NewRequest ==
  [ row |-> "none", at |-> "new", pending |-> FALSE, aborted |-> FALSE,
    tel |-> NoTelemetry, log |-> << >> ]

-----------------------------------------------------------------------------
(* The calls a step makes, from a request's state to its next. *)

Deaf(r) == r.tel = NoTelemetry                   \* mutant: late calls count

(* Telemetry is written only until the upstream call has finished. *)
Closed(r) == r.tel = NoTelemetry \/ r.tel.finished # Never

UpdateTelemetry(r, t) == IF Closed(r) THEN r ELSE [r EXCEPT !.tel = t]

InPhase(r, phase) ==
  IF Closed(r) THEN r ELSE [r EXCEPT !.tel.phase = phase]

StartedUpstream(r) ==
  UpdateTelemetry(r, [r.tel EXCEPT !.phase = "prefill", !.started = now,
                                   !.sent = TRUE])

MarkFirstByte(r) ==
  IF Closed(r) THEN r
  ELSE [r EXCEPT !.tel.first = IF @ = Never THEN now ELSE @,
                 !.tel.phase = "streaming"]

AddResponseBytes(r) ==
  IF Closed(r) THEN r
  ELSE [r EXCEPT !.tel.chunks = IF @ > MaxChunks THEN @ ELSE @ + 1,
                 !.tel.phase = IF r.tel.first = Never
                               THEN "receiving" ELSE "streaming"]

PhaseOf(state) == IF state = "succeeded" THEN "completed" ELSE state

FinishTelemetry(r, state) ==
  IF Closed(r) \/ r.tel.started = Never THEN r
  ELSE [r EXCEPT !.tel.phase = PhaseOf(state), !.tel.finished = now]

Logged(r, event) == [r EXCEPT !.log = Append(@, event)]

FinishAsTold(r, state) ==                        \* mutant: row not consulted
  IF r.row \in {"queued", "running"}
  THEN Logged([FinishTelemetry(r, state) EXCEPT !.row = state], state)
  ELSE FinishTelemetry(r, state)

FinishLoggedTwice(r, state) ==                   \* mutant: before not read
  IF r.row \in {"queued", "running"}
  THEN Logged([FinishTelemetry(r, state) EXCEPT !.row = state], state)
  ELSE Logged(FinishTelemetry(r, r.row), state)

(* finishWorkItem: the first outcome is the row's, the telemetry follows it
   and the timeline tells it once. *)
Finish(r, state) ==
  IF r.row \in {"queued", "running"}
  THEN Logged([FinishTelemetry(r, state) EXCEPT !.row = state], state)
  ELSE FinishTelemetry(r, r.row)

Pruned(s) == IF Len(s) > MaxKept THEN Tail(s) ELSE s

Becomes(w, r) == work' = [work EXCEPT ![w] = r] /\ UNCHANGED <<kept, file, now>>

(* cleanupPending, after which the call is at "at". *)
Cleanup(w, r, at) ==
  /\ work' = [work EXCEPT ![w] = [r EXCEPT !.pending = FALSE, !.at = at,
                                           !.tel = NoTelemetry]]
  /\ kept' = Pruned(Append(kept, [item |-> w, tel |-> r.tel]))
  /\ UNCHANGED <<file, now>>

(* The release of a lease: once. *)
Release(w, r, state, at) == Cleanup(w, Finish(r, state), at)

(* withRuntime, runOneShotCommand and proxyCompletionState on an error. *)
Failure(r) == IF r.aborted THEN "cancelled" ELSE "failed"

-----------------------------------------------------------------------------
Init ==
  /\ work = [w \in Items |-> NewRequest]
  /\ kept = << >>
  /\ file = [of |-> "nobody", part |-> "none", at |-> Never]
  /\ now = 0

Acquire(w) ==
  LET r == work[w]
  IN  /\ r.at = "new"
      /\ Becomes(w, Logged(
           [r EXCEPT !.row = "queued", !.at = "queued", !.pending = TRUE,
              !.tel = [phase |-> "queued", started |-> Never, first |-> Never,
                       finished |-> Never, sent |-> FALSE, chunks |-> 0]],
           "queued"))

Holds(w) == work[w].pending /\ work[w].at # "queued"

(* An admission begins alone; a command runs alone. *)
Admissible(w) ==
  LET holders == {v \in Items : Holds(v)}
  IN  /\ \A v \in holders : work[v].at # "loading" /\ v \notin Shots
      /\ IF w \in Shots THEN holders = {}
         ELSE Cardinality(holders) < MaxConcurrency

(* admit up to its first await. A load resets the progress file. *)
Admit(w) ==
  LET r == work[w]
      a == [r EXCEPT !.row = "running", !.at = "loading"]
  IN  /\ r.at = "queued" /\ Admissible(w)
      /\ work' = [work EXCEPT ![w] = Logged(
           IF w \in Shots THEN a ELSE InPhase(a, "loading_model"), "running")]
      /\ \/ UNCHANGED file
         \/ /\ w \notin Shots
            /\ \A v \in Items : ~Holds(v)
            /\ file' = [of |-> "nobody", part |-> "none", at |-> now]
      /\ UNCHANGED <<kept, now>>

Grant(w) ==
  LET r == work[w]
  IN  /\ r.at = "loading" /\ ~r.aborted
      /\ Becomes(w, InPhase([r EXCEPT !.at = "granted"],
           IF w \in Shots THEN "command_running" ELSE "admitted"))

(* The admission's own end: aborted, or a load that failed. *)
AdmissionEnds(w) ==
  LET r == work[w]
  IN  /\ r.at = "loading"
      /\ \/ r.aborted /\ Release(w, r, "cancelled", "done")
         \/ Release(w, r, "failed", "done")

(* The holder of the lease begins: it does not look at its signal, only
   proxyOpenAiJson does. *)
Begin(w) ==
  LET r == work[w]
      s == StartedUpstream(r)
  IN  /\ r.at = "granted"
      /\ IF w \in Proxied /\ r.aborted
         THEN Release(w, s, "cancelled", "done")
         ELSE Becomes(w, [(IF w \in Shots THEN r ELSE s)
                           EXCEPT !.at = "fetching"])

(* fetch resolves with a response to hand on or to read. *)
Headers(w) ==
  LET r == [work[w] EXCEPT !.at = "reading"]
  IN  /\ work[w].at = "fetching" /\ w \notin Shots
      /\ Becomes(w, IF w \in Texts THEN MarkFirstByte(r) ELSE r)

(* A retryable status: its text is read, and there is no other upstream. *)
Retryable(w) ==
  LET r == work[w]
  IN  /\ r.at = "fetching" /\ w \in Proxied
      /\ Release(w, AddResponseBytes(r), Failure(r), "done")

(* A chunk reaches the reader of a proxied body, also after its end. *)
Chunk(w) ==
  LET r == work[w]
      first == IF r.tel # NoTelemetry /\ r.tel.first # Never
               THEN r ELSE MarkFirstByte(r)
  IN  /\ r.at \in {"reading", "late"} /\ w \in Proxied
      /\ r.tel # NoTelemetry => r.tel.chunks < MaxChunks
      /\ Becomes(w, [AddResponseBytes(first)
                      EXCEPT !.at = IF r.at = "late" THEN "done" ELSE @])

(* The proxied body ends, breaks, times out or is dropped by its consumer. *)
BodyEnds(w) ==
  /\ work[w].at = "reading" /\ w \in Proxied
  /\ \/ Release(w, work[w], "succeeded", "done")
     \/ \E state \in {"failed", "cancelled"} :
           Release(w, work[w], state, "late")

(* The text of a chat completion has been read; its caller returns later. *)
TextRead(w) ==
  /\ work[w].at = "reading" /\ w \in Texts
  /\ Becomes(w, [AddResponseBytes(work[w]) EXCEPT !.at = "returning"])

(* The handler of a text or of a command returns. *)
Returns(w) ==
  /\ \/ work[w].at = "returning"
     \/ work[w].at = "fetching" /\ w \in Shots
  /\ Release(w, work[w], "succeeded", "done")

(* It throws: fetch, the reading, the status or the command failed. *)
Throws(w) ==
  LET r == work[w]
  IN  /\ \/ r.at = "fetching"
         \/ r.at \in {"reading", "returning"} /\ w \in Texts
      /\ Release(w, r, Failure(r), "done")

(* cancelWorkItem, by the client, a user, a deadline or a forced unload. The
   abort ends a proxied body at once. *)
Cancel(w, state) ==
  LET r == work[w]
      f == [Finish(r, state) EXCEPT !.aborted = TRUE]
  IN  /\ r.pending
      /\ state = "timed_out" => r.row = "queued"
      /\ IF r.at = "queued" THEN Cleanup(w, f, "done")
         ELSE IF r.at = "reading" /\ w \in Proxied
              THEN Release(w, f, "cancelled", "late")
         ELSE Becomes(w, f)

(* The process stops and starts again: recoverInterruptedGpuWork fails what
   was open; the telemetry was in memory. *)
Restart ==
  /\ \E w \in Items : work[w].pending
  /\ work' = [w \in Items |->
       IF work[w].at = "new" THEN work[w]
       ELSE [work[w] EXCEPT
              !.row = IF @ \in {"queued", "running"} THEN "failed" ELSE @,
              !.at = "done", !.pending = FALSE, !.aborted = FALSE,
              !.tel = NoTelemetry]]
  /\ kept' = << >>
  /\ UNCHANGED <<file, now>>

(* The runtime's adapter reports the prefill of a request it works on. *)
Progress(w, part) ==
  /\ work[w].at \in {"fetching", "reading"} /\ w \notin Shots
  /\ file' = [of |-> w, part |-> part, at |-> now]
  /\ UNCHANGED <<work, kept, now>>

Tick ==
  /\ now < MaxClock
  /\ now' = now + 1
  /\ UNCHANGED <<work, kept, file>>

Next ==
  \/ \E w \in Items :
       \/ Acquire(w) \/ Admit(w) \/ Grant(w) \/ AdmissionEnds(w) \/ Begin(w)
       \/ Headers(w) \/ Retryable(w) \/ Chunk(w) \/ BodyEnds(w)
       \/ TextRead(w) \/ Returns(w) \/ Throws(w)
       \/ \E state \in Ended \ {"succeeded"} : Cancel(w, state)
       \/ \E part \in {"some", "all"} : Progress(w, part)
  \/ Restart
  \/ Tick

Spec == Init /\ [][Next]_vars

-----------------------------------------------------------------------------
(* What the status says of a request: telemetryStatus. *)

KeptOf(w) == {i \in DOMAIN kept : kept[i].item = w}

TelemetryOf(w) ==
  IF work[w].tel # NoTelemetry THEN work[w].tel
  ELSE IF KeptOf(w) = {} THEN NoTelemetry
  ELSE kept[CHOOSE i \in KeptOf(w) : TRUE].tel

AnyProgress(t) ==                                \* mutant: start not compared
  /\ t # NoTelemetry
  /\ t.finished = Never /\ t.started # Never
  /\ file.part # "none"
  /\ now - file.at <= Fresh

CurrentProgress(t) ==
  /\ t # NoTelemetry
  /\ t.finished = Never /\ t.started # Never
  /\ file.part # "none"
  /\ file.at >= t.started
  /\ now - file.at <= Fresh

ShownPhase(w) ==
  LET t == TelemetryOf(w)
  IN  IF CurrentProgress(t) /\ file.part = "some" THEN "prefill" ELSE t.phase

(* Prefill numbers are part of the status of w. *)
ShowsPrefill(w) ==
  LET t == TelemetryOf(w)
  IN  CurrentProgress(t) /\ (file.part = "some" \/ t.phase = "prefill")

-----------------------------------------------------------------------------
(* Properties *)

TypeOK ==
  /\ work \in [Items -> Request]
  /\ kept \in Seq([item : Items, tel : Telemetry])
  /\ file \in [of : Items \cup {"nobody"}, part : Parts, at : Times]
  /\ now \in 0..MaxClock

(* The timeline of a request is a true history: it was queued, perhaps it
   ran, and its one outcome is the one its row keeps; only a restart ends it
   without telling (failed rows without an event). A late completion adds
   nothing (gpu-coordinator.ts 1204). *)
HistoryIsTrue ==
  \A w \in Items :
    LET r == work[w]
    IN  \/ r.row = "none" /\ r.log = << >>
        \/ r.row \in {"queued", "running"}
             /\ r.log \in {<<"queued">>, <<"queued", "running">>}
             /\ Last(r.log) = r.row
        \/ r.row \in Ended
             /\ \E h \in {<<"queued">>, <<"queued", "running">>} :
                  r.log = Append(h, r.row) \/ (r.log = h /\ r.row = "failed")

(* "Request history and telemetry now preserve the first terminal outcome.
   Late upstream callbacks cannot rewrite a completed, failed, or cancelled
   work item" (CHANGELOG.md 29): the row keeps its outcome, and the telemetry
   of a finished upstream call never changes again until it is dropped. *)
OutcomeStands ==
  [][\A w \in Items :
       work[w].row \in Ended =>
         /\ work'[w].row = work[w].row
         /\ LET t == TelemetryOf(w)
                u == TelemetryOf(w)'
            IN  (t # NoTelemetry /\ t.finished # Never) =>
                  u \in {t, NoTelemetry}]_vars

(* Telemetry lives exactly as long as its request is pending; it is then
   kept once at most, within the limit of the list, and its phase is the
   outcome of the row, whichever of the request's ends came first
   (finishWorkItem, cleanupPending). *)
TelemetryIsAccounted ==
  /\ Len(kept) <= MaxKept
  /\ \A w \in Items :
       /\ work[w].pending <=> work[w].tel # NoTelemetry
       /\ Cardinality(KeptOf(w)) <= IF work[w].pending THEN 0 ELSE 1
  /\ \A i \in DOMAIN kept :
       LET t == kept[i].tel
           row == work[kept[i].item].row
       IN  row \in Ended /\ (t.started # Never => t.phase = PhaseOf(row))

(* "Active prefill telemetry now requires fresh progress from the current
   request; stale progress from an earlier request is suppressed"
   (CHANGELOG.md 32).  What has ended shows no prefill, though its runtime
   may go on with it (gpu-coordinator.test.ts 438).  Where the runtime serves
   one request at a time, the prefill shown for a request is its own, or was
   written in the instant it began; where it serves several, the file does
   not tell them apart, and a request that streams is shown in the prefill
   of another. *)
PrefillIsOwn ==
  \A w \in Items :
    /\ work[w].row \in Ended /\ ~work[w].pending =>
         ~ShowsPrefill(w) /\ ShownPhase(w) # "prefill"
    /\ MaxConcurrency = 1 /\ ShowsPrefill(w) =>
         file.of = w \/ file.at = TelemetryOf(w).started
=============================================================================
