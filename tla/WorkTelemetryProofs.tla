------------------------- MODULE WorkTelemetryProofs -------------------------
(***************************************************************************)
(* Proofs about WorkTelemetry, for every set of requests, concurrency of   *)
(* the runtime and limit of the list, over any number of restarts.         *)
(*                                                                         *)
(* A request is fit when its row, its telemetry and its timeline agree     *)
(* with where its call is.  What a call does to the telemetry is described *)
(* once (Rewrites, and FinishedAs for finishWorkItem); an action then      *)
(* either moves one request (Moves) or ends it and keeps its telemetry     *)
(* (CleansUp), and each theorem is proved of these two alone.              *)
(***************************************************************************)
EXTENDS WorkTelemetry, FiniteSetTheorems, SequenceTheorems, TLAPS

Held == {"loading", "granted", "fetching", "reading", "returning"}
Over == {"late", "done"}

(* What the timeline may tell of a row. *)
Told(r) ==
  \/ r.row = "none" /\ r.log = << >>
  \/ r.row = "queued" /\ r.log = <<"queued">>
  \/ r.row = "running" /\ r.log = <<"queued", "running">>
  \/ r.row \in Ended
       /\ \E h \in {<<"queued">>, <<"queued", "running">>} :
            r.log = Append(h, r.row) \/ (r.log = h /\ r.row = "failed")

(* An upstream call has finished only if it started, with the row's outcome. *)
TelFits(r) ==
  r.tel # NoTelemetry =>
    /\ r.tel.phase = "prefill" => r.tel.started # Never
    /\ r.tel.finished # Never =>
         /\ r.tel.started # Never /\ r.row \in Ended
         /\ r.tel.phase = PhaseOf(r.row)

(* Where a call is tells its row, and whether it is pending. *)
PlaceFits(r) ==
  /\ r.at = "new" => r.row = "none" /\ ~r.pending /\ r.tel = NoTelemetry
  /\ r.at = "queued" =>
       r.row = "queued" /\ r.pending /\ r.tel # NoTelemetry
         /\ r.tel.started = Never
  /\ r.at \in Held =>
       r.row \in {"running"} \cup Ended /\ r.pending /\ r.tel # NoTelemetry
  /\ r.at \in {"loading", "granted"} => r.tel.started = Never
  /\ r.at \in Over => r.row \in Ended /\ ~r.pending /\ r.tel = NoTelemetry

Fits(r) == r \in Request /\ Told(r) /\ TelFits(r) /\ PlaceFits(r)

(* What is kept is of requests that are over, each once. *)
KeptFits ==
  /\ Len(kept) <= MaxKept
  /\ \A i \in DOMAIN kept :
       LET t == kept[i].tel
           r == work[kept[i].item]
       IN  /\ r.at \in Over /\ t.phase # "prefill"
           /\ t.started # Never => t.finished # Never
                                     /\ t.phase = PhaseOf(r.row)
  /\ \A i, j \in DOMAIN kept : kept[i].item = kept[j].item => i = j

(* The file is of no later instant than now; of a runtime that serves one
   request at a time, it is of that request or of no later instant than its
   start. *)
FileFits ==
  /\ file.at <= now
  /\ MaxConcurrency = 1 =>
       /\ \A v, w \in Items :
            work[v].at \in Held /\ work[w].at \in Held => v = w
       /\ \A w \in Items :
            work[w].at \in Held /\ work[w].tel.started # Never =>
              file.of = w \/ file.at <= work[w].tel.started

WInv ==
  /\ TypeOK
  /\ \A w \in Items : Fits(work[w])
  /\ KeptFits
  /\ FileFits

-----------------------------------------------------------------------------
(* What the calls do to the telemetry. *)

(* x is r with telemetry rewritten, of which the start is kept. *)
Rewrites(r, x) ==
  /\ x \in Request /\ TelFits(x)
  /\ x.row = r.row /\ x.at = r.at /\ x.pending = r.pending
  /\ x.aborted = r.aborted /\ x.log = r.log
  /\ x.tel = NoTelemetry <=> r.tel = NoTelemetry
  /\ Closed(r) => x.tel = r.tel

(* x is r as finishWorkItem leaves it. *)
FinishedAs(r, x) ==
  /\ x \in Request /\ Told(x) /\ TelFits(x)
  /\ x.row \in Ended /\ (r.row \in Ended => x.row = r.row)
  /\ x.at = r.at /\ x.pending = r.pending /\ x.aborted = r.aborted
  /\ x.tel = NoTelemetry <=> r.tel = NoTelemetry
  /\ Closed(r) => x.tel = r.tel
  /\ r.tel # NoTelemetry => x.tel.started = r.tel.started
  /\ x.tel # NoTelemetry /\ x.tel.started # Never =>
       x.tel.finished # Never /\ x.tel.phase = PhaseOf(x.row)

(* Telemetry is not what stands for its absence. *)
LEMMA TelemetryIsSome == NoTelemetry \notin Telemetry
<1> SUFFICES ASSUME NoTelemetry \in Telemetry PROVE FALSE
  OBVIOUS
<1>1. NoTelemetry.phase \in Phases
  BY DEF Telemetry
<1> QED
  BY <1>1 DEF NoTelemetry, Phases

(* Setting the telemetry of a request. *)
LEMMA TelSet ==
  ASSUME NEW r \in Request, NEW t \in Telemetry, r.tel # NoTelemetry,
         NEW x, x = [r EXCEPT !.tel = t],
         t.phase = "prefill" => t.started # Never,
         t.finished = Never, r.tel.finished = Never
  PROVE  Rewrites(r, x) /\ x.tel = t
<1>1. x \in Request /\ x.tel = t
  BY DEF Request
<1>2. /\ x.row = r.row /\ x.at = r.at /\ x.pending = r.pending
      /\ x.aborted = r.aborted /\ x.log = r.log
  BY DEF Request
<1>3. x.tel # NoTelemetry
  BY <1>1, TelemetryIsSome
<1> QED
  BY <1>1, <1>2, <1>3 DEF Rewrites, TelFits, Closed

(* Telemetry that is there and not finished, while it is written. *)
LEMMA OpenTel ==
  ASSUME NEW r \in Request, ~Closed(r)
  PROVE  /\ r.tel \in Telemetry /\ r.tel # NoTelemetry
         /\ r.tel.finished = Never
BY DEF Closed, Request

(* Nothing is written to telemetry that is closed. *)
LEMMA ClosedRewrites ==
  ASSUME NEW r \in Request, TelFits(r), Closed(r)
  PROVE  Rewrites(r, r)
BY DEF Rewrites

(* setTelemetryPhase. *)
LEMMA InPhaseRewrites ==
  ASSUME NEW r \in Request, TelFits(r), NEW phase \in Phases,
         phase # "prefill"
  PROVE  /\ Rewrites(r, InPhase(r, phase))
         /\ r.tel # NoTelemetry =>
              InPhase(r, phase).tel.started = r.tel.started
<1>1. CASE Closed(r)
  BY <1>1, ClosedRewrites DEF InPhase
<1>2. CASE ~Closed(r)
  <2> DEFINE t == [r.tel EXCEPT !.phase = phase]
             x == [r EXCEPT !.tel = t]
  <2>1. r.tel \in Telemetry /\ r.tel # NoTelemetry /\ r.tel.finished = Never
    BY <1>2, OpenTel
  <2>2. /\ t \in Telemetry /\ t.phase = phase /\ t.finished = Never
        /\ t.started = r.tel.started
    BY <2>1 DEF Telemetry
  <2>3. InPhase(r, phase) = x
    BY <1>2 DEF InPhase
  <2> HIDE DEF t
  <2>4. Rewrites(r, x) /\ x.tel = t
    BY <2>1, <2>2, TelSet
  <2> QED
    BY <2>2, <2>3, <2>4
<1> QED
  BY <1>1, <1>2

(* startUpstream. *)
LEMMA StartRewrites ==
  ASSUME NEW r \in Request, TelFits(r), now \in 0..MaxClock, MaxClock \in Nat
  PROVE  /\ Rewrites(r, StartedUpstream(r))
         /\ ~Closed(r) => StartedUpstream(r).tel.started = now
<1>1. CASE Closed(r)
  BY <1>1, ClosedRewrites DEF StartedUpstream, UpdateTelemetry
<1>2. CASE ~Closed(r)
  <2> DEFINE t == [r.tel EXCEPT !.phase = "prefill", !.started = now,
                                !.sent = TRUE]
             x == [r EXCEPT !.tel = t]
  <2>1. r.tel \in Telemetry /\ r.tel # NoTelemetry /\ r.tel.finished = Never
    BY <1>2, OpenTel
  <2>2. /\ t \in Telemetry /\ t.finished = Never /\ t.started = now
        /\ now # Never
    <3>1. now \in Times /\ "prefill" \in Phases /\ now # Never
      BY DEF Times, Phases, Never
    <3> QED
      BY <2>1, <3>1 DEF Telemetry
  <2>3. StartedUpstream(r) = x
    BY <1>2 DEF StartedUpstream, UpdateTelemetry
  <2> HIDE DEF t
  <2>4. Rewrites(r, x) /\ x.tel = t
    BY <2>1, <2>2, TelSet
  <2> QED
    BY <2>2, <2>3, <2>4
<1> QED
  BY <1>1, <1>2

(* markFirstByte. *)
LEMMA MarkRewrites ==
  ASSUME NEW r \in Request, TelFits(r), now \in 0..MaxClock, MaxClock \in Nat
  PROVE  /\ Rewrites(r, MarkFirstByte(r))
         /\ r.tel # NoTelemetry =>
              MarkFirstByte(r).tel.started = r.tel.started
<1>1. CASE Closed(r)
  BY <1>1, ClosedRewrites DEF MarkFirstByte
<1>2. CASE ~Closed(r)
  <2> DEFINE first == IF r.tel.first = Never THEN now ELSE r.tel.first
             t == [r.tel EXCEPT !.first = first, !.phase = "streaming"]
             x == [r EXCEPT !.tel = t]
  <2>1. r.tel \in Telemetry /\ r.tel # NoTelemetry /\ r.tel.finished = Never
    BY <1>2, OpenTel
  <2>2. /\ t \in Telemetry /\ t.finished = Never
        /\ t.started = r.tel.started /\ t.phase = "streaming"
    BY <2>1 DEF Telemetry, Times, Phases
  <2>3. MarkFirstByte(r) = x
    <3> DEFINE y == [r EXCEPT !.tel = [r.tel EXCEPT !.first = first]]
    <3>1. y \in Request /\ y.tel = [r.tel EXCEPT !.first = first]
      BY <2>1 DEF Request, Telemetry, Times
    <3>2. MarkFirstByte(r) =
            [y EXCEPT !.tel = [y.tel EXCEPT !.phase = "streaming"]]
      BY <1>2 DEF MarkFirstByte
    <3>3. [y.tel EXCEPT !.phase = "streaming"] = t
      BY <3>1
    <3>4. [y EXCEPT !.tel = t] = x
      BY DEF Request
    <3> QED
      BY <3>2, <3>3, <3>4
  <2> HIDE DEF t
  <2>4. Rewrites(r, x) /\ x.tel = t
    BY <2>1, <2>2, TelSet
  <2> QED
    BY <2>2, <2>3, <2>4
<1> QED
  BY <1>1, <1>2

(* addResponseBytes. *)
LEMMA BytesRewrites ==
  ASSUME NEW r \in Request, TelFits(r), MaxChunks \in Nat
  PROVE  /\ Rewrites(r, AddResponseBytes(r))
         /\ r.tel # NoTelemetry =>
              AddResponseBytes(r).tel.started = r.tel.started
<1>1. CASE Closed(r)
  BY <1>1, ClosedRewrites DEF AddResponseBytes
<1>2. CASE ~Closed(r)
  <2> DEFINE n == IF r.tel.chunks > MaxChunks THEN r.tel.chunks
                  ELSE r.tel.chunks + 1
             p == IF r.tel.first = Never THEN "receiving" ELSE "streaming"
             t == [r.tel EXCEPT !.chunks = n, !.phase = p]
             x == [r EXCEPT !.tel = t]
  <2>1. r.tel \in Telemetry /\ r.tel # NoTelemetry /\ r.tel.finished = Never
    BY <1>2, OpenTel
  <2>2. n \in 0..(MaxChunks + 1) /\ p \in Phases /\ p # "prefill"
    BY <2>1 DEF Telemetry, Phases
  <2>3. AddResponseBytes(r) = x
    <3> DEFINE y == [r EXCEPT !.tel = [r.tel EXCEPT !.chunks = n]]
    <3>1. y \in Request /\ y.tel = [r.tel EXCEPT !.chunks = n]
      <4>1. [r.tel EXCEPT !.chunks = n] \in Telemetry
        BY <2>1, <2>2 DEF Telemetry
      <4> QED
        BY <4>1 DEF Request
    <3>2. AddResponseBytes(r) =
            [y EXCEPT !.tel = [y.tel EXCEPT !.phase = p]]
      BY <1>2 DEF AddResponseBytes
    <3>3. [y.tel EXCEPT !.phase = p] = t
      BY <3>1
    <3>4. [y EXCEPT !.tel = t] = x
      BY DEF Request
    <3> QED
      BY <3>2, <3>3, <3>4
  <2> HIDE DEF n, p
  <2>4. /\ t \in Telemetry /\ t.finished = Never
        /\ t.started = r.tel.started /\ t.phase = p
    BY <2>1, <2>2 DEF Telemetry
  <2> HIDE DEF t
  <2>5. Rewrites(r, x) /\ x.tel = t
    BY <2>1, <2>2, <2>4, TelSet
  <2> QED
    BY <2>3, <2>4, <2>5
<1> QED
  BY <1>1, <1>2

(* The phase that stands for an outcome. *)
LEMMA PhaseOfEnded ==
  ASSUME NEW state \in Ended
  PROVE  /\ PhaseOf(state) \in Phases /\ PhaseOf(state) # "prefill"
BY DEF Ended, PhaseOf, Phases

(* finishTelemetry, with the outcome that the row has from now on. *)
LEMMA TelFinished ==
  ASSUME NEW r \in Request, TelFits(r), NEW state \in Ended,
         r.row \in Ended => r.row = state,
         now \in 0..MaxClock, MaxClock \in Nat,
         NEW x, x = FinishTelemetry(r, state)
  PROVE  /\ x \in Request
         /\ x.row = r.row /\ x.at = r.at /\ x.pending = r.pending
         /\ x.aborted = r.aborted /\ x.log = r.log
         /\ x.tel = NoTelemetry <=> r.tel = NoTelemetry
         /\ Closed(r) => x.tel = r.tel
         /\ r.tel # NoTelemetry =>
              /\ x.tel.started = r.tel.started
              /\ x.tel.phase = "prefill" => x.tel.started # Never
              /\ (x.tel.finished # Never) <=> (x.tel.started # Never)
              /\ x.tel.finished # Never => x.tel.phase = PhaseOf(state)
<1>0. r.tel \in Telemetry \cup {NoTelemetry}
  BY DEF Request
<1>1. CASE Closed(r)
  BY <1>1 DEF FinishTelemetry, Closed, TelFits
<1>2. CASE ~Closed(r) /\ r.tel.started = Never
  BY <1>2 DEF FinishTelemetry, Closed, TelFits
<1>3. CASE ~Closed(r) /\ r.tel.started # Never
  <2> DEFINE t == [r.tel EXCEPT !.phase = PhaseOf(state), !.finished = now]
             y == [r EXCEPT !.tel = [r.tel EXCEPT !.phase = PhaseOf(state)]]
  <2>1. r.tel \in Telemetry /\ r.tel # NoTelemetry /\ r.tel.finished = Never
    BY <1>3, OpenTel
  <2>2. now \in Times /\ now # Never
    BY DEF Times, Never
  <2>3. /\ t \in Telemetry /\ t.started = r.tel.started
        /\ t.phase = PhaseOf(state) /\ t.finished = now
    BY <2>1, <2>2, PhaseOfEnded DEF Telemetry
  <2>4. x = [r EXCEPT !.tel = t]
    <3>1. y \in Request
          /\ y.tel = [r.tel EXCEPT !.phase = PhaseOf(state)]
      <4>1. [r.tel EXCEPT !.phase = PhaseOf(state)] \in Telemetry
        BY <2>1, PhaseOfEnded DEF Telemetry
      <4> QED
        BY <4>1 DEF Request
    <3>2. x = [y EXCEPT !.tel = [y.tel EXCEPT !.finished = now]]
      BY <1>3 DEF FinishTelemetry
    <3>3. [y.tel EXCEPT !.finished = now] = t
      BY <3>1
    <3>4. [y EXCEPT !.tel = t] = [r EXCEPT !.tel = t]
      BY DEF Request
    <3> QED
      BY <3>2, <3>3, <3>4
  <2> HIDE DEF t
  <2>5. /\ x \in Request /\ x.tel = t
        /\ x.row = r.row /\ x.at = r.at /\ x.pending = r.pending
        /\ x.aborted = r.aborted /\ x.log = r.log
    BY <2>3, <2>4 DEF Request
  <2>6. x.tel # NoTelemetry
    BY <2>3, <2>5, TelemetryIsSome
  <2> QED
    BY <1>3, <2>1, <2>2, <2>3, <2>5, <2>6
<1> QED
  BY <1>1, <1>2, <1>3

(* finishWorkItem. *)
LEMMA Finished ==
  ASSUME NEW r \in Request, Told(r), TelFits(r), r.row # "none",
         NEW state \in Ended, now \in 0..MaxClock, MaxClock \in Nat
  PROVE  FinishedAs(r, Finish(r, state))
<1>1. CASE r.row \in {"queued", "running"}
  <2> DEFINE f == FinishTelemetry(r, state)
             g == [f EXCEPT !.row = state]
             x == Logged(g, state)
  <2>1. r.row \notin Ended
    BY <1>1 DEF Ended
  <2>2. /\ f \in Request
        /\ f.row = r.row /\ f.at = r.at /\ f.pending = r.pending
        /\ f.aborted = r.aborted /\ f.log = r.log
        /\ f.tel = NoTelemetry <=> r.tel = NoTelemetry
        /\ Closed(r) => f.tel = r.tel
        /\ r.tel # NoTelemetry =>
             /\ f.tel.started = r.tel.started
             /\ f.tel.phase = "prefill" => f.tel.started # Never
             /\ (f.tel.finished # Never) <=> (f.tel.started # Never)
             /\ f.tel.finished # Never => f.tel.phase = PhaseOf(state)
    BY <2>1, TelFinished
  <2> HIDE DEF f
  <2>3. /\ x \in Request /\ x.tel = f.tel /\ x.row = state
        /\ x.at = f.at /\ x.pending = f.pending /\ x.aborted = f.aborted
        /\ x.log = Append(f.log, state)
    <3>1. state \in Rows
      BY DEF Rows
    <3>2. /\ g \in Request /\ g.tel = f.tel /\ g.row = state
          /\ g.at = f.at /\ g.pending = f.pending /\ g.aborted = f.aborted
          /\ g.log = f.log
      BY <2>2, <3>1 DEF Request
    <3> HIDE DEF g
    <3>3. Append(g.log, state) \in Seq(Rows)
      BY <3>1, <3>2 DEF Request
    <3> QED
      BY <3>2, <3>3 DEF Logged, Request
  <2>4. Finish(r, state) = x
    BY <1>1 DEF Finish, f
  <2> HIDE DEF x
  <2>5. Told(x)
    <3>1. r.log \in {<<"queued">>, <<"queued", "running">>}
      BY <1>1, <2>1 DEF Told
    <3> QED
      BY <2>2, <2>3, <3>1 DEF Told
  <2>6. TelFits(x)
    BY <2>2, <2>3 DEF TelFits
  <2> QED
    BY <2>1, <2>2, <2>3, <2>4, <2>5, <2>6 DEF FinishedAs
<1>2. CASE r.row \notin {"queued", "running"}
  <2> DEFINE x == FinishTelemetry(r, r.row)
  <2>1. r.row \in Ended
    BY <1>2 DEF Told
  <2>2. /\ x \in Request
        /\ x.row = r.row /\ x.at = r.at /\ x.pending = r.pending
        /\ x.aborted = r.aborted /\ x.log = r.log
        /\ x.tel = NoTelemetry <=> r.tel = NoTelemetry
        /\ Closed(r) => x.tel = r.tel
        /\ r.tel # NoTelemetry =>
             /\ x.tel.started = r.tel.started
             /\ x.tel.phase = "prefill" => x.tel.started # Never
             /\ (x.tel.finished # Never) <=> (x.tel.started # Never)
             /\ x.tel.finished # Never => x.tel.phase = PhaseOf(r.row)
    BY <2>1, TelFinished
  <2>3. Finish(r, state) = x
    BY <1>2 DEF Finish
  <2> HIDE DEF x
  <2> QED
    BY <2>1, <2>2, <2>3 DEF FinishedAs, Told, TelFits
<1> QED
  BY <1>1, <1>2

-----------------------------------------------------------------------------
(* What a step does to the requests. *)

(* Request w is x from now on; what was kept stays. *)
Moves(w, x) ==
  /\ Fits(x)
  /\ work' = [work EXCEPT ![w] = x] /\ UNCHANGED <<kept, now>>
  /\ \/ UNCHANGED file
     \/ /\ \A v \in Items : ~Holds(v)
        /\ file' = [of |-> "nobody", part |-> "none", at |-> now]
  /\ work[w].row \in Ended => x.row = work[w].row
  /\ work[w].at \in Over => x.at \in Over
  /\ work[w].at # "new" /\ Closed(work[w]) => x.tel = work[w].tel
  /\ x.at \in Held /\ work[w].at \notin Held =>
       /\ x.tel.started = Never
       /\ MaxConcurrency = 1 => \A v \in Items : ~Holds(v)
  /\ x.at \in Held /\ work[w].at \in Held =>
       x.tel.started \in {work[w].tel.started, now}

(* Request w is over, and r is what finishWorkItem made of it. *)
CleansUp(w, r, at) ==
  /\ Cleanup(w, r, at) /\ at \in Over
  /\ r \in Request /\ Told(r) /\ TelFits(r)
  /\ r.row \in Ended /\ r.tel # NoTelemetry
  /\ r.tel.started # Never =>
       r.tel.finished # Never /\ r.tel.phase = PhaseOf(r.row)
  /\ work[w].pending
  /\ work[w].row \in Ended => r.row = work[w].row
  /\ Closed(work[w]) => r.tel = work[w].tel

(* p is s with e at its end, and perhaps without its first. *)
KeptWith(p, s, e, S) ==
  /\ p \in Seq(S) /\ Len(p) \in 1..MaxKept
  /\ p[Len(p)] = e
  /\ \E d \in {0, 1} :
       /\ Len(p) = Len(s) + 1 - d
       /\ \A i \in 1..(Len(p) - 1) :
            i + d \in 1..Len(s) /\ p[i] = s[i + d]

(* The list of completed telemetry is kept within its limit. *)
LEMMA PrunedAppend ==
  ASSUME NEW S, NEW s \in Seq(S), NEW e \in S,
         MaxKept \in Nat \ {0}, Len(s) <= MaxKept
  PROVE  KeptWith(Pruned(Append(s, e)), s, e, S)
<1> DEFINE p == Pruned(Append(s, e))
<1> SUFFICES /\ p \in Seq(S) /\ Len(p) \in 1..MaxKept
             /\ p[Len(p)] = e
             /\ \E d \in {0, 1} :
                  /\ Len(p) = Len(s) + 1 - d
                  /\ \A i \in 1..(Len(p) - 1) :
                       i + d \in 1..Len(s) /\ p[i] = s[i + d]
  BY DEF KeptWith
<1> DEFINE a == Append(s, e)
<1>1. a \in Seq(S) /\ Len(a) = Len(s) + 1 /\ a[Len(s) + 1] = e
      /\ \A i \in 1..Len(s) : a[i] = s[i]
  OBVIOUS
<1>2. Len(s) \in Nat
  OBVIOUS
<1> HIDE DEF a, p
<1>3. CASE Len(a) > MaxKept
  <2>1. p = Tail(a)
    BY <1>3 DEF Pruned, a, p
  <2>2. /\ p \in Seq(S) /\ Len(p) = Len(s)
        /\ \A i \in 1..Len(s) : p[i] = a[i + 1]
    BY <1>1, <1>2, <2>1
  <2>3. Len(s) = MaxKept
    BY <1>1, <1>2, <1>3
  <2> QED
    BY <1>1, <1>2, <2>2, <2>3
<1>4. CASE ~(Len(a) > MaxKept)
  <2>1. p = a
    BY <1>4 DEF Pruned, a, p
  <2> QED
    BY <1>1, <1>2, <1>4, <2>1
<1> QED
  BY <1>3, <1>4

(* Who holds the runtime is one of those in its places. *)
LEMMA HoldsAre ==
  ASSUME WInv, NEW v \in Items
  PROVE  Holds(v) <=> work[v].at \in Held
<1>1. Fits(work[v])
  BY DEF WInv
<1>2. work[v].at \in Held \cup Over \cup {"new", "queued"}
  BY <1>1 DEF Fits, Request, Held, Over
<1>3. Held \cap {"new", "queued"} = {}
  BY DEF Held
<1> QED
  BY <1>1, <1>2, <1>3 DEF Holds, Fits, PlaceFits

(* What is kept is telemetry of a request. *)
LEMMA KeptAre ==
  ASSUME WInv, NEW i \in DOMAIN kept
  PROVE  kept[i].item \in Items /\ kept[i].tel \in Telemetry
<1> DEFINE S == [item : Items, tel : Telemetry]
<1>1. kept \in Seq(S)
  BY DEF WInv, TypeOK
<1> HIDE DEF S
<1>2. kept[i] \in S
  BY <1>1
<1> QED
  BY <1>2 DEF S

(* A request that moves leaves the invariant. *)
LEMMA MovesKeeps ==
  ASSUME WInv, NEW w \in Items, NEW x, Moves(w, x)
  PROVE  WInv'
<1>1. /\ work \in [Items -> Request] /\ now \in 0..MaxClock
      /\ file \in [of : Items \cup {"nobody"}, part : Parts, at : Times]
      /\ kept \in Seq([item : Items, tel : Telemetry])
  BY DEF WInv, TypeOK
<1>2. /\ work' = [work EXCEPT ![w] = x] /\ kept' = kept /\ now' = now
      /\ x \in Request
  BY DEF Moves, Fits
<1>3. MaxClock \in Nat
  BY TelemetryAssumption
<1>4. TypeOK'
  <2>1. file' \in [of : Items \cup {"nobody"}, part : Parts, at : Times]
    <3>1. CASE file' = file
      BY <1>1, <3>1
    <3>2. CASE file' = [of |-> "nobody", part |-> "none", at |-> now]
      BY <1>1, <1>3, <3>2 DEF Parts, Times
    <3> QED
      BY <3>1, <3>2 DEF Moves
  <2> QED
    BY <1>1, <1>2, <2>1 DEF TypeOK
<1>5. \A v \in Items : Fits(work'[v])
  BY <1>1, <1>2 DEF WInv, Moves
<1>6. KeptFits'
  <2> SUFFICES ASSUME NEW i \in DOMAIN kept
               PROVE  /\ work'[kept[i].item].at \in Over
                      /\ work'[kept[i].item].row = work[kept[i].item].row
    BY <1>2 DEF WInv, KeptFits
  <2>1. kept[i].item \in Items
    BY KeptAre
  <2>2. work[kept[i].item].at \in Over
    BY DEF WInv, KeptFits
  <2>3. work[kept[i].item].row \in Ended
    BY <2>1, <2>2 DEF WInv, Fits, PlaceFits
  <2> QED
    BY <1>1, <1>2, <2>1, <2>2, <2>3 DEF Moves
<1>7. FileFits'
  <2>1. file'.at <= now
    BY <1>1, <1>3 DEF Moves, WInv, FileFits
  <2>2. ASSUME MaxConcurrency = 1, NEW u \in Items, NEW v \in Items,
               work'[u].at \in Held, work'[v].at \in Held
        PROVE  u = v
    <3>1. CASE x.at \in Held /\ work[w].at \notin Held
      BY <1>1, <1>2, <2>2, <3>1, HoldsAre DEF Moves
    <3>2. CASE ~(x.at \in Held /\ work[w].at \notin Held)
      BY <1>1, <1>2, <2>2, <3>2 DEF WInv, FileFits
    <3> QED
      BY <3>1, <3>2
  <2>3. ASSUME MaxConcurrency = 1, NEW v \in Items,
               work'[v].at \in Held, work'[v].tel.started # Never
        PROVE  file'.of = v \/ file'.at <= work'[v].tel.started
    <3>1. CASE x.at \in Held /\ work[w].at \notin Held
      <4>1. v # w
        BY <1>1, <1>2, <2>3, <3>1 DEF Moves
      <4>2. work[v].at \in Held
        BY <1>1, <1>2, <2>3, <4>1
      <4> QED
        BY <2>3, <3>1, <4>2, HoldsAre DEF Moves
    <3>2. CASE ~(x.at \in Held /\ work[w].at \notin Held)
      <4>1. work[v].at \in Held
        BY <1>1, <1>2, <2>3, <3>2
      <4>2. file' = file
        BY <4>1, HoldsAre DEF Moves
      <4>3. CASE v # w
        BY <1>1, <1>2, <2>3, <4>1, <4>2, <4>3 DEF WInv, FileFits
      <4>4. CASE v = w
        <5>1. x.tel.started \in {work[w].tel.started, now}
          BY <1>1, <1>2, <2>3, <4>1, <4>4 DEF Moves
        <5>2. work'[v] = x
          BY <1>1, <1>2, <4>4
        <5>3. CASE x.tel.started = now
          BY <2>1, <4>2, <5>2, <5>3
        <5>4. CASE x.tel.started = work[w].tel.started
          BY <2>3, <4>1, <4>2, <4>4, <5>2, <5>4 DEF WInv, FileFits
        <5> QED
          BY <5>1, <5>3, <5>4
      <4> QED
        BY <4>3, <4>4
    <3> QED
      BY <3>1, <3>2
  <2> QED
    BY <1>2, <2>1, <2>2, <2>3 DEF FileFits
<1> QED
  BY <1>4, <1>5, <1>6, <1>7 DEF WInv

(* A request that is over leaves the invariant. *)
LEMMA CleansUpKeeps ==
  ASSUME WInv, NEW w \in Items, NEW r, NEW at, CleansUp(w, r, at)
  PROVE  WInv'
<1> DEFINE x == [r EXCEPT !.pending = FALSE, !.at = at, !.tel = NoTelemetry]
           e == [item |-> w, tel |-> r.tel]
           S == [item : Items, tel : Telemetry]
<1>1. /\ work \in [Items -> Request] /\ now \in 0..MaxClock
      /\ kept \in Seq(S) /\ MaxKept \in Nat \ {0}
  BY TelemetryAssumption DEF WInv, TypeOK
<1>2. /\ work' = [work EXCEPT ![w] = x] /\ now' = now /\ file' = file
      /\ kept' = Pruned(Append(kept, e))
  BY DEF CleansUp, Cleanup
<1>3. /\ r \in Request /\ at \in Over /\ r.row \in Ended
      /\ r.tel \in Telemetry
  BY DEF CleansUp, Request
<1>4. /\ x \in Request /\ x.at = at /\ x.row = r.row /\ x.log = r.log
      /\ x.tel = NoTelemetry /\ x.pending = FALSE
  BY <1>3 DEF Request, Over
<1>5. work'[w] = x /\ \A v \in Items \ {w} : work'[v] = work[v]
  BY <1>1, <1>2
<1>6. e \in S /\ e.item = w /\ e.tel = r.tel
  BY <1>3
<1> HIDE DEF x, e, S
<1>7. Fits(x)
  <2>1. Told(x)
    BY <1>4 DEF CleansUp, Told
  <2>2. TelFits(x)
    BY <1>4 DEF TelFits
  <2>3. PlaceFits(x)
    BY <1>3, <1>4 DEF PlaceFits, Over, Held
  <2> QED
    BY <1>4, <2>1, <2>2, <2>3 DEF Fits
<1>8. Len(kept) <= MaxKept
  BY DEF WInv, KeptFits
<1>9. PICK d \in {0, 1} :
        /\ kept' \in Seq(S) /\ Len(kept') \in 1..MaxKept
        /\ kept'[Len(kept')] = e
        /\ Len(kept') = Len(kept) + 1 - d
        /\ \A i \in 1..(Len(kept') - 1) :
             i + d \in 1..Len(kept) /\ kept'[i] = kept[i + d]
  <2>1. KeptWith(kept', kept, e, S)
    BY <1>1, <1>2, <1>6, <1>8, PrunedAppend
  <2> QED
    BY <2>1 DEF KeptWith
<1>10. DOMAIN kept = 1..Len(kept) /\ DOMAIN kept' = 1..Len(kept')
       /\ Len(kept) \in Nat /\ Len(kept') \in Nat
  BY <1>1, <1>9
<1>11. TypeOK'
  BY <1>1, <1>2, <1>4, <1>9 DEF WInv, TypeOK, S
<1>12. \A v \in Items : Fits(work'[v])
  BY <1>5, <1>7 DEF WInv
<1>13. work[w].at \notin Over
  BY DEF WInv, Fits, PlaceFits, CleansUp
<1>14. ASSUME NEW j \in DOMAIN kept
       PROVE  /\ kept[j].item \in Items \ {w}
              /\ work'[kept[j].item] = work[kept[j].item]
  BY <1>5, <1>13, KeptAre DEF WInv, KeptFits
<1>15. KeptFits'
  <2>1. ASSUME NEW i \in DOMAIN kept'
        PROVE  /\ work'[kept'[i].item].at \in Over
               /\ kept'[i].tel.phase # "prefill"
               /\ kept'[i].tel.started # Never =>
                    /\ kept'[i].tel.finished # Never
                    /\ kept'[i].tel.phase = PhaseOf(work'[kept'[i].item].row)
    <3>1. CASE i = Len(kept')
      <4>1. kept'[i].item = w /\ kept'[i].tel = r.tel
        BY <1>6, <1>9, <3>1
      <4>2. /\ r.tel.started # Never =>
                 r.tel.finished # Never /\ r.tel.phase = PhaseOf(r.row)
            /\ r.tel.phase = "prefill" => r.tel.started # Never
        BY DEF CleansUp, TelFits
      <4> QED
        BY <1>3, <1>4, <1>5, <4>1, <4>2, PhaseOfEnded
    <3>2. CASE i # Len(kept')
      <4>1. i \in 1..(Len(kept') - 1)
        BY <1>10, <3>2
      <4>2. i + d \in DOMAIN kept /\ kept'[i] = kept[i + d]
        BY <1>9, <1>10, <4>1
      <4> QED
        BY <1>14, <4>2 DEF WInv, KeptFits
    <3> QED
      BY <3>1, <3>2
  <2>2. ASSUME NEW i \in DOMAIN kept', NEW j \in DOMAIN kept',
               kept'[i].item = kept'[j].item, i # j
        PROVE  FALSE
    <3>1. \A m \in DOMAIN kept' : m # Len(kept') =>
            m + d \in DOMAIN kept /\ kept'[m] = kept[m + d]
      <4> SUFFICES ASSUME NEW m \in DOMAIN kept', m # Len(kept')
                   PROVE  m + d \in DOMAIN kept /\ kept'[m] = kept[m + d]
        OBVIOUS
      <4>1. m \in 1..(Len(kept') - 1)
        BY <1>10
      <4> QED
        BY <1>9, <1>10, <4>1
    <3>2. kept'[Len(kept')].item = w
      BY <1>6, <1>9
    <3>3. i # Len(kept') /\ j # Len(kept')
      BY <1>14, <2>2, <3>1, <3>2
    <3>4. i + d = j + d
      BY <2>2, <3>1, <3>3 DEF WInv, KeptFits
    <3> QED
      BY <1>10, <2>2, <3>4
  <2> QED
    BY <1>9, <2>1, <2>2 DEF KeptFits
<1>16. FileFits'
  <2>1. at \notin Held
    BY <1>3 DEF Over, Held
  <2>2. \A v \in Items : work'[v].at \in Held =>
          work[v].at \in Held /\ work'[v] = work[v]
    BY <1>4, <1>5, <2>1
  <2> QED
    BY <1>2, <2>2 DEF WInv, FileFits
<1> QED
  BY <1>11, <1>12, <1>15, <1>16 DEF WInv

-----------------------------------------------------------------------------
(* Every action on a request moves it or ends it. *)

StepOf(w) == (\E x : Moves(w, x)) \/ (\E r, at : CleansUp(w, r, at))

(* A request that holds the runtime goes on holding it. *)
LEMMA HeldMoves ==
  ASSUME WInv, NEW w \in Items, work[w].at \in Held,
         NEW x \in Request, Told(x), TelFits(x), x.pending,
         x.row \in {"running"} \cup Ended,
         work[w].row \in Ended => x.row = work[w].row,
         x.tel # NoTelemetry, x.at \in Held,
         Closed(work[w]) => x.tel = work[w].tel,
         x.at \in {"loading", "granted"} => x.tel.started = Never,
         x.tel.started \in {work[w].tel.started, now},
         Becomes(w, x)
  PROVE  StepOf(w)
<1>1. PlaceFits(x)
  BY DEF PlaceFits, Held, Over
<1>2. work[w].at \notin Over
  BY DEF Held, Over
<1>3. Moves(w, x)
  BY <1>1, <1>2 DEF Moves, Fits, Becomes
<1> QED
  BY <1>3 DEF StepOf

(* A request that is released is over. *)
LEMMA ReleaseCleans ==
  ASSUME WInv, NEW w \in Items, work[w].pending,
         NEW r \in Request, Told(r), TelFits(r), r.row # "none",
         r.tel # NoTelemetry,
         work[w].row \in Ended => r.row = work[w].row,
         Closed(work[w]) => r.tel = work[w].tel,
         NEW state \in Ended, NEW at \in Over,
         Release(w, r, state, at)
  PROVE  StepOf(w)
<1> DEFINE x == Finish(r, state)
<1>1. now \in 0..MaxClock /\ MaxClock \in Nat
  BY TelemetryAssumption DEF WInv, TypeOK
<1>2. FinishedAs(r, x)
  BY <1>1, Finished
<1>3. Cleanup(w, x, at)
  BY DEF Release
<1> HIDE DEF x
<1>4. Closed(work[w]) => Closed(r)
  BY DEF Closed
<1>5. CleansUp(w, x, at)
  BY <1>2, <1>3, <1>4 DEF CleansUp, FinishedAs
<1> QED
  BY <1>5 DEF StepOf

(* So is one whose telemetry was written before, in the same step. *)
LEMMA RewrittenCleans ==
  ASSUME WInv, NEW w \in Items, work[w].at \in Held,
         NEW r, Rewrites(work[w], r),
         NEW state \in Ended, NEW at \in Over,
         Release(w, r, state, at)
  PROVE  StepOf(w)
<1>1. /\ Fits(work[w]) /\ work[w].pending /\ work[w].tel # NoTelemetry
      /\ work[w].row \in {"running"} \cup Ended
  BY DEF WInv, Fits, PlaceFits
<1>2. /\ r \in Request /\ TelFits(r) /\ Told(r) /\ r.row # "none"
      /\ r.tel # NoTelemetry /\ r.row = work[w].row
      /\ Closed(work[w]) => r.tel = work[w].tel
  BY <1>1 DEF Rewrites, Fits, Told, Ended
<1> QED
  BY <1>1, <1>2, ReleaseCleans

(* A request is rewritten as itself. *)
LEMMA SameRewrites ==
  ASSUME WInv, NEW w \in Items
  PROVE  Rewrites(work[w], work[w])
BY DEF WInv, Fits, Rewrites

(* What proxyCompletionState makes of an error is an outcome. *)
LEMMA FailureEnds ==
  ASSUME NEW r
  PROVE  Failure(r) \in Ended
BY DEF Failure, Ended

(* acquire: a new request is queued. *)
LEMMA AcquireSteps ==
  ASSUME WInv, NEW w \in Items, Acquire(w)
  PROVE  StepOf(w)
<1> DEFINE r == work[w]
           tel == [phase |-> "queued", started |-> Never, first |-> Never,
                   finished |-> Never, sent |-> FALSE, chunks |-> 0]
           y == [r EXCEPT !.row = "queued", !.at = "queued",
                          !.pending = TRUE, !.tel = tel]
           x == Logged(y, "queued")
<1>1. r \in Request /\ r.row = "none" /\ r.log = << >> /\ r.at = "new"
  BY DEF WInv, Fits, PlaceFits, Told, Acquire, Ended
<1>2. tel \in Telemetry /\ tel.started = Never /\ tel.finished = Never
      /\ tel.phase = "queued" /\ tel # NoTelemetry
  <2>1. tel \in Telemetry
    <3>1. /\ "queued" \in Phases /\ Never \in Times
          /\ 0 \in 0..(MaxChunks + 1)
      BY TelemetryAssumption DEF Phases, Times
    <3> QED
      BY <3>1 DEF Telemetry
  <2> QED
    BY <2>1, TelemetryIsSome
<1>3. Becomes(w, x)
  BY DEF Acquire
<1> HIDE DEF tel
<1>4. /\ y \in Request /\ y.row = "queued" /\ y.at = "queued" /\ y.pending
      /\ y.tel = tel /\ y.log = << >>
  BY <1>1, <1>2 DEF Request, Rows
<1> HIDE DEF y
<1>5. /\ x \in Request /\ x.row = "queued" /\ x.at = "queued" /\ x.pending
      /\ x.tel = tel /\ x.log = <<"queued">>
  <2>1. Append(y.log, "queued") \in Seq(Rows)
        /\ Append(y.log, "queued") = <<"queued">>
    BY <1>4 DEF Rows
  <2> QED
    BY <1>4, <2>1 DEF Request, Logged
<1> HIDE DEF x
<1>6. Fits(x)
  <2>1. Told(x) /\ TelFits(x)
    BY <1>2, <1>5 DEF Told, TelFits
  <2>2. PlaceFits(x)
    BY <1>2, <1>5 DEF PlaceFits, Held, Over
  <2> QED
    BY <1>5, <2>1, <2>2 DEF Fits
<1>7. Moves(w, x)
  BY <1>1, <1>3, <1>5, <1>6 DEF Moves, Becomes, Held, Over, Ended
<1> QED
  BY <1>7 DEF StepOf

(* y is r with its call at p. *)
PlacedAs(r, p, y) ==
  /\ y \in Request /\ Told(y) /\ TelFits(y) /\ y.at = p
  /\ y.row = r.row /\ y.pending = r.pending /\ y.tel = r.tel
  /\ y.log = r.log /\ y.aborted = r.aborted
  /\ Closed(y) <=> Closed(r)

(* A request of which only the place of its call is set. *)
LEMMA PlaceSet ==
  ASSUME NEW r \in Request, Told(r), TelFits(r), NEW p \in Held \cup Over
  PROVE  PlacedAs(r, p, [r EXCEPT !.at = p])
<1> DEFINE y == [r EXCEPT !.at = p]
<1>1. /\ y \in Request /\ y.at = p
      /\ y.row = r.row /\ y.pending = r.pending /\ y.tel = r.tel
      /\ y.log = r.log /\ y.aborted = r.aborted
  BY DEF Request, Held, Over
<1> HIDE DEF y
<1>2. PlacedAs(r, p, y)
  BY <1>1 DEF PlacedAs, Told, TelFits, Closed
<1> QED
  BY <1>2 DEF y

(* One rewriting after another. *)
LEMMA RewritesTwice ==
  ASSUME NEW r, NEW y, NEW x, Rewrites(r, y), Rewrites(y, x)
  PROVE  Rewrites(r, x)
BY DEF Rewrites, Closed

(* A holder whose telemetry is rewritten, at the same place or another. *)
LEMMA RewrittenMoves ==
  ASSUME WInv, NEW w \in Items, work[w].at \in Held,
         NEW y, Rewrites(work[w], y),
         y.tel.started \in {work[w].tel.started, now},
         NEW p \in Held, p \in {"loading", "granted"} => y.tel.started = Never,
         NEW x, x = [y EXCEPT !.at = p], Becomes(w, x)
  PROVE  StepOf(w)
<1>1. /\ Fits(work[w]) /\ work[w].pending /\ work[w].tel # NoTelemetry
      /\ work[w].row \in {"running"} \cup Ended
  BY DEF WInv, Fits, PlaceFits
<1>2. /\ y \in Request /\ Told(y) /\ TelFits(y) /\ y.row = work[w].row
      /\ y.pending /\ y.tel # NoTelemetry
      /\ Closed(work[w]) => y.tel = work[w].tel
  BY <1>1 DEF Rewrites, Told, Fits
<1>3. PlacedAs(y, p, x)
  BY <1>2, PlaceSet
<1>4. /\ x \in Request /\ Told(x) /\ TelFits(x) /\ x.at = p
      /\ x.row = y.row /\ x.pending = y.pending /\ x.tel = y.tel
  BY <1>3 DEF PlacedAs
<1> QED
  BY <1>1, <1>2, <1>4, HeldMoves

(* A record is itself with the place it has. *)
LEMMA SamePlace ==
  ASSUME NEW y \in Request
  PROVE  y = [y EXCEPT !.at = y.at]
BY DEF Request

(* A list of one with another appended. *)
LEMMA AppendTwo ==
  ASSUME NEW S, NEW e \in S, NEW f \in S
  PROVE  Append(<<e>>, f) = <<e, f>> /\ <<e, f>> \in Seq(S)
<1> DEFINE s == <<e>>
           t == <<e, f>>
           a == Append(s, f)
<1>1. s \in Seq(S) /\ Len(s) = 1 /\ s[1] = e
  OBVIOUS
<1>2. t \in Seq(S) /\ Len(t) = 2 /\ t[1] = e /\ t[2] = f
  OBVIOUS
<1> HIDE DEF s, t
<1>3. /\ a \in Seq(S) /\ Len(a) = Len(s) + 1
      /\ a[Len(s) + 1] = f
      /\ \A i \in 1..Len(s) : a[i] = s[i]
  BY <1>1
<1> HIDE DEF a
<1>4. Len(a) = 2 /\ a[1] = e /\ a[2] = f
  BY <1>1, <1>3
<1>5. Len(a) = Len(t) /\ \A i \in 1..Len(a) : a[i] = t[i]
  <2>1. \A i \in 1..2 : i = 1 \/ i = 2
    OBVIOUS
  <2> QED
    BY <1>2, <1>4, <2>1
<1>6. a = t
  BY <1>2, <1>3, <1>5, SeqEqual
<1> QED
  BY <1>2, <1>6 DEF a, s, t

(* The timeline of a request that runs. *)
LEMMA QueuedThenRunning ==
  /\ Append(<<"queued">>, "running") = <<"queued", "running">>
  /\ <<"queued", "running">> \in Seq(Rows)
<1>1. "queued" \in Rows /\ "running" \in Rows
  BY DEF Rows
<1> QED
  BY <1>1, AppendTwo, Zenon

(* admit. *)
LEMMA AdmitSteps ==
  ASSUME WInv, NEW w \in Items, Admit(w)
  PROVE  StepOf(w)
<1> DEFINE r == work[w]
           a == [r EXCEPT !.row = "running", !.at = "loading"]
           b == IF w \in Shots THEN a ELSE InPhase(a, "loading_model")
           x == Logged(b, "running")
<1>1. /\ r \in Request /\ r.row = "queued" /\ r.log = <<"queued">>
      /\ r.at = "queued" /\ r.pending /\ r.tel # NoTelemetry
      /\ r.tel.started = Never /\ r.tel.finished = Never
      /\ r.tel.phase # "prefill"
  <2>1. Fits(r) /\ r.at = "queued"
    BY DEF WInv, Admit
  <2> QED
    BY <2>1 DEF Fits, PlaceFits, TelFits, Told, Ended
<1>2. /\ a \in Request /\ a.row = "running" /\ a.log = <<"queued">>
      /\ a.at = "loading" /\ a.pending /\ a.tel = r.tel
  BY <1>1 DEF Request, Rows
<1>3. work' = [work EXCEPT ![w] = x]
  BY DEF Admit
<1> HIDE DEF a
<1>4. TelFits(a)
  BY <1>1, <1>2 DEF TelFits
<1>5. /\ b \in Request /\ TelFits(b) /\ b.row = "running"
      /\ b.log = <<"queued">> /\ b.at = "loading" /\ b.pending
      /\ b.tel # NoTelemetry /\ b.tel.started = Never
  <2>1. CASE w \in Shots
    BY <1>1, <1>2, <1>4, <2>1
  <2>2. CASE w \notin Shots
    <3>1. "loading_model" \in Phases /\ "loading_model" # "prefill"
      BY DEF Phases
    <3>2. /\ Rewrites(a, InPhase(a, "loading_model"))
          /\ a.tel # NoTelemetry =>
               InPhase(a, "loading_model").tel.started = a.tel.started
      BY <1>2, <1>4, <3>1, InPhaseRewrites
    <3> QED
      BY <1>1, <1>2, <2>2, <3>2 DEF Rewrites
  <2> QED
    BY <2>1, <2>2
<1> HIDE DEF b
<1>6. /\ x \in Request /\ x.row = "running" /\ x.at = "loading" /\ x.pending
      /\ x.tel = b.tel /\ x.log = <<"queued", "running">>
  <2>1. Append(b.log, "running") = <<"queued", "running">>
    BY <1>5, QueuedThenRunning, Zenon
  <2>2. Append(b.log, "running") \in Seq(Rows)
    BY <2>1, QueuedThenRunning, Zenon
  <2> QED
    BY <1>5, <2>1, <2>2 DEF Request, Logged
<1> HIDE DEF x
<1>7. Fits(x)
  <2>1. Told(x) /\ TelFits(x)
    BY <1>5, <1>6 DEF Told, TelFits
  <2>2. PlaceFits(x)
    BY <1>5, <1>6 DEF PlaceFits, Held, Over
  <2> QED
    BY <1>6, <2>1, <2>2 DEF Fits
<1>8. MaxConcurrency = 1 => \A v \in Items : ~Holds(v)
  <2> SUFFICES ASSUME MaxConcurrency = 1,
                      {v \in Items : Holds(v)} # {}
               PROVE  FALSE
    OBVIOUS
  <2> DEFINE H == {v \in Items : Holds(v)}
  <2>1. w \notin Shots /\ Cardinality(H) < 1
    BY DEF Admit, Admissible
  <2>2. IsFiniteSet(H)
    <3>1. IsFiniteSet(Proxied) /\ IsFiniteSet(Texts) /\ IsFiniteSet(Shots)
      BY TelemetryAssumption
    <3>2. IsFiniteSet(Items)
      BY <3>1, FS_Union DEF Items
    <3> QED
      BY <3>2, FS_Subset
  <2> HIDE DEF H
  <2>3. Cardinality(H) = 0
    BY <2>1, <2>2, FS_CardinalityType
  <2>4. H = {}
    BY <2>2, <2>3, FS_EmptySet
  <2> QED
    BY <2>4 DEF H
<1>9. Moves(w, x)
  <2>1. kept' = kept /\ now' = now
    BY DEF Admit
  <2>2. \/ UNCHANGED file
        \/ /\ \A v \in Items : ~Holds(v)
           /\ file' = [of |-> "nobody", part |-> "none", at |-> now]
    BY DEF Admit
  <2>3. r.row \notin Ended /\ r.at \notin Over /\ r.at \notin Held
        /\ ~Closed(r)
    BY <1>1 DEF Ended, Over, Held, Closed
  <2> QED
    BY <1>3, <1>5, <1>6, <1>7, <1>8, <2>1, <2>2, <2>3 DEF Moves
<1> QED
  BY <1>9 DEF StepOf

(* The lease is granted. *)
LEMMA GrantSteps ==
  ASSUME WInv, NEW w \in Items, Grant(w)
  PROVE  StepOf(w)
<1> DEFINE r == work[w]
           y == [r EXCEPT !.at = "granted"]
           phase == IF w \in Shots THEN "command_running" ELSE "admitted"
           x == InPhase(y, phase)
<1>1. Fits(r) /\ r.at = "loading" /\ r.at \in Held
  BY DEF WInv, Grant, Held
<1>2. /\ r \in Request /\ Told(r) /\ TelFits(r) /\ r.pending
      /\ r.tel # NoTelemetry /\ r.tel.started = Never
      /\ r.row \in {"running"} \cup Ended
  BY <1>1 DEF Fits, PlaceFits
<1>3. phase \in Phases /\ phase # "prefill"
  BY DEF Phases
<1>4. Becomes(w, x)
  BY DEF Grant
<1> HIDE DEF phase
<1>5. /\ y \in Request /\ Told(y) /\ TelFits(y) /\ y.at = "granted"
      /\ y.row = r.row /\ y.pending = r.pending /\ y.tel = r.tel
      /\ y.log = r.log
      /\ Closed(y) <=> Closed(r)
  <2>1. "granted" \in Held \cup Over
    BY DEF Held
  <2> QED
    BY <1>2, <2>1, PlaceSet DEF PlacedAs
<1> HIDE DEF y
<1>6. /\ Rewrites(y, x)
      /\ y.tel # NoTelemetry => x.tel.started = y.tel.started
  BY <1>3, <1>5, InPhaseRewrites
<1> HIDE DEF x
<1>7. /\ x \in Request /\ TelFits(x) /\ Told(x) /\ x.pending
      /\ x.row = r.row /\ x.at = "granted" /\ x.tel # NoTelemetry
      /\ x.tel.started = Never
      /\ Closed(r) => x.tel = r.tel
  BY <1>2, <1>5, <1>6 DEF Rewrites, Told
<1>8. x.at \in Held
  BY <1>7 DEF Held
<1> QED
  BY <1>1, <1>2, <1>4, <1>7, <1>8, HeldMoves

(* An admission that ends without a lease. *)
LEMMA AdmissionEndsSteps ==
  ASSUME WInv, NEW w \in Items, AdmissionEnds(w)
  PROVE  StepOf(w)
<1>1. work[w].at \in Held
  BY DEF AdmissionEnds, Held
<1>2. Rewrites(work[w], work[w])
  BY SameRewrites
<1>3. PICK state \in Ended : Release(w, work[w], state, "done")
  BY DEF AdmissionEnds, Ended
<1>4. "done" \in Over
  BY DEF Over
<1> QED
  BY <1>1, <1>2, <1>3, <1>4, RewrittenCleans

(* The holder of the lease begins. *)
LEMMA BeginSteps ==
  ASSUME WInv, NEW w \in Items, Begin(w)
  PROVE  StepOf(w)
<1> DEFINE r == work[w]
           s == StartedUpstream(r)
           y == IF w \in Shots THEN r ELSE s
<1>0. Fits(r) /\ r.at = "granted" /\ r.at \in Held
  BY DEF WInv, Begin, Held
<1>1. /\ r \in Request /\ TelFits(r) /\ r.tel # NoTelemetry
      /\ r.tel.started = Never
  BY <1>0 DEF Fits, PlaceFits
<1>2. now \in 0..MaxClock /\ MaxClock \in Nat
  BY TelemetryAssumption DEF WInv, TypeOK
<1>3. ~Closed(r)
  BY <1>1 DEF TelFits, Closed
<1>4. Rewrites(r, s) /\ s.tel.started = now
  BY <1>1, <1>2, <1>3, StartRewrites
<1>5. Rewrites(r, r)
  BY SameRewrites
<1>6. Rewrites(r, y) /\ y.tel.started \in {r.tel.started, now}
  BY <1>4, <1>5
<1>7. CASE w \in Proxied /\ r.aborted
  <2>1. Release(w, s, "cancelled", "done")
    BY <1>7 DEF Begin
  <2>2. "cancelled" \in Ended /\ "done" \in Over
    BY DEF Ended, Over
  <2> HIDE DEF s
  <2> QED
    BY <1>0, <1>4, <2>1, <2>2, RewrittenCleans
<1>8. CASE ~(w \in Proxied /\ r.aborted)
  <2> DEFINE x == [y EXCEPT !.at = "fetching"]
  <2>1. Becomes(w, x)
    BY <1>8 DEF Begin
  <2>2. "fetching" \in Held /\ "fetching" \notin {"loading", "granted"}
    BY DEF Held
  <2> HIDE DEF s, y
  <2> QED
    BY <1>0, <1>6, <2>1, <2>2, RewrittenMoves
<1> QED
  BY <1>7, <1>8

(* The upstream answers. *)
LEMMA HeadersSteps ==
  ASSUME WInv, NEW w \in Items, Headers(w)
  PROVE  StepOf(w)
<1> DEFINE r == work[w]
           y == [r EXCEPT !.at = "reading"]
           m == MarkFirstByte(y)
           x == IF w \in Texts THEN m ELSE y
<1>0. Fits(r) /\ r.at \in Held
  BY DEF WInv, Headers, Held
<1>1. /\ r \in Request /\ Told(r) /\ TelFits(r) /\ r.tel # NoTelemetry
      /\ r.pending /\ r.row \in {"running"} \cup Ended
  BY <1>0 DEF Fits, PlaceFits
<1>2. now \in 0..MaxClock /\ MaxClock \in Nat
  BY TelemetryAssumption DEF WInv, TypeOK
<1>3. "reading" \in Held /\ "reading" \notin {"loading", "granted"}
  BY DEF Held
<1>4. Becomes(w, x)
  BY DEF Headers
<1>5. PlacedAs(r, "reading", y)
  BY <1>1, <1>3, PlaceSet
<1> HIDE DEF y
<1>6. y \in Request /\ TelFits(y) /\ y.tel = r.tel
  BY <1>5 DEF PlacedAs
<1>7. Rewrites(y, m) /\ m.tel.started = r.tel.started
  BY <1>1, <1>2, <1>6, MarkRewrites
<1>8. Rewrites(y, y)
  BY <1>6 DEF Rewrites
<1> HIDE DEF m
<1>9. Rewrites(y, x) /\ x.tel.started = r.tel.started
  BY <1>6, <1>7, <1>8
<1> HIDE DEF x
<1>10. /\ x \in Request /\ Told(x) /\ TelFits(x) /\ x.at = "reading"
       /\ x.row = r.row /\ x.pending = r.pending
       /\ x.tel # NoTelemetry
       /\ Closed(r) => x.tel = r.tel
  <2>1. /\ x \in Request /\ TelFits(x) /\ x.at = y.at /\ x.row = y.row
        /\ x.pending = y.pending /\ x.log = y.log
        /\ x.tel = NoTelemetry <=> y.tel = NoTelemetry
        /\ Closed(y) => x.tel = y.tel
    BY <1>9 DEF Rewrites
  <2>2. /\ y.at = "reading" /\ y.row = r.row /\ y.pending = r.pending
        /\ y.tel = r.tel /\ Told(y)
        /\ Closed(r) => Closed(y)
    BY <1>5 DEF PlacedAs
  <2>3. Told(x)
    BY <1>5, <2>1 DEF Told, PlacedAs
  <2> QED
    BY <1>1, <2>1, <2>2, <2>3
<1> QED
  BY <1>0, <1>1, <1>3, <1>4, <1>9, <1>10, HeldMoves

(* A status that is tried again elsewhere, and there is nowhere else. *)
LEMMA RetryableSteps ==
  ASSUME WInv, NEW w \in Items, Retryable(w)
  PROVE  StepOf(w)
<1> DEFINE r == work[w]
<1>1. Fits(r) /\ r.at \in Held
  BY DEF WInv, Retryable, Held
<1>2. Rewrites(r, AddResponseBytes(r))
  BY <1>1, TelemetryAssumption, BytesRewrites DEF Fits
<1>3. Failure(r) \in Ended /\ "done" \in Over
  BY FailureEnds DEF Over
<1>4. Release(w, AddResponseBytes(r), Failure(r), "done")
  BY DEF Retryable
<1> QED
  BY <1>1, <1>2, <1>3, <1>4, RewrittenCleans

(* A chunk of a proxied body. *)
LEMMA ChunkSteps ==
  ASSUME WInv, NEW w \in Items, Chunk(w)
  PROVE  StepOf(w)
<1> DEFINE r == work[w]
           first == IF r.tel # NoTelemetry /\ r.tel.first # Never
                    THEN r ELSE MarkFirstByte(r)
           b == AddResponseBytes(first)
           x == [b EXCEPT !.at = IF r.at = "late" THEN "done" ELSE b.at]
<1>0. Fits(r) /\ r.at \in {"reading", "late"}
  BY DEF WInv, Chunk
<1>1. r \in Request /\ TelFits(r) /\ Told(r)
  BY <1>0 DEF Fits
<1>2. now \in 0..MaxClock /\ MaxClock \in Nat /\ MaxChunks \in Nat
  BY TelemetryAssumption DEF WInv, TypeOK
<1>3. Becomes(w, x)
  BY DEF Chunk
<1>4. Rewrites(r, first)
      /\ (r.tel # NoTelemetry => first.tel.started = r.tel.started)
  BY <1>1, <1>2, SameRewrites, MarkRewrites
<1> HIDE DEF first
<1>5. /\ Rewrites(first, b)
      /\ first.tel # NoTelemetry => b.tel.started = first.tel.started
  BY <1>2, <1>4, BytesRewrites DEF Rewrites
<1>6. Rewrites(r, b)
  BY <1>4, <1>5, RewritesTwice
<1> HIDE DEF b
<1>7. CASE r.at = "reading"
  <2>1. r.at \in Held /\ r.at \notin {"loading", "granted"}
    BY <1>7 DEF Held
  <2>2. r.tel # NoTelemetry
    BY <1>0, <2>1 DEF Fits, PlaceFits
  <2>3. b.tel.started \in {r.tel.started, now}
    BY <1>4, <1>5, <2>2 DEF Rewrites
  <2>4. x = [b EXCEPT !.at = r.at]
    BY <1>6, <1>7 DEF Rewrites
  <2> HIDE DEF x
  <2> QED
    BY <1>3, <1>6, <2>1, <2>3, <2>4, RewrittenMoves
<1>8. CASE r.at = "late"
  <2>1. r.tel = NoTelemetry /\ r.row \in Ended /\ ~r.pending
    BY <1>0, <1>8 DEF Fits, PlaceFits, Over
  <2>2. "done" \in Over /\ "done" \notin Held /\ "done" \in Held \cup Over
        /\ "done" # "new" /\ "done" # "queued"
    BY DEF Over, Held
  <2>3. x = [b EXCEPT !.at = "done"]
    BY <1>8
  <2>4. b \in Request /\ TelFits(b) /\ Told(b) /\ b.tel = NoTelemetry
        /\ b.row = r.row /\ b.pending = r.pending
    BY <1>1, <1>6, <2>1 DEF Rewrites, Told
  <2>5. PlacedAs(b, "done", x)
    BY <2>2, <2>3, <2>4, PlaceSet
  <2> HIDE DEF x
  <2>6. Fits(x)
    BY <2>1, <2>2, <2>4, <2>5 DEF Fits, PlaceFits, PlacedAs, Held
  <2>7. Moves(w, x)
    BY <1>3, <2>1, <2>2, <2>4, <2>5, <2>6 DEF Moves, Becomes, PlacedAs
  <2> QED
    BY <2>7 DEF StepOf
<1> QED
  BY <1>0, <1>7, <1>8

(* A holder that is released as it is. *)
LEMMA PlainReleases ==
  ASSUME WInv, NEW w \in Items, work[w].at \in Held,
         NEW state \in Ended, NEW at \in Over,
         Release(w, work[w], state, at)
  PROVE  StepOf(w)
BY SameRewrites, RewrittenCleans

(* The body of a proxied answer ends. *)
LEMMA BodyEndsSteps ==
  ASSUME WInv, NEW w \in Items, BodyEnds(w)
  PROVE  StepOf(w)
<1>1. work[w].at \in Held
  BY DEF BodyEnds, Held
<1>2. PICK state \in Ended, at \in Over : Release(w, work[w], state, at)
  BY DEF BodyEnds, Ended, Over
<1> QED
  BY <1>1, <1>2, PlainReleases

(* The text of an answer is read. *)
LEMMA TextReadSteps ==
  ASSUME WInv, NEW w \in Items, TextRead(w)
  PROVE  StepOf(w)
<1> DEFINE r == work[w]
           y == AddResponseBytes(r)
<1>1. Fits(r) /\ r.at \in Held
  BY DEF WInv, TextRead, Held
<1>2. r.tel # NoTelemetry
  BY <1>1 DEF Fits, PlaceFits
<1>3. Rewrites(r, y) /\ y.tel.started \in {r.tel.started, now}
  BY <1>1, <1>2, TelemetryAssumption, BytesRewrites DEF Fits
<1>4. "returning" \in Held /\ "returning" \notin {"loading", "granted"}
  BY DEF Held
<1>5. Becomes(w, [y EXCEPT !.at = "returning"])
  BY DEF TextRead
<1> HIDE DEF y
<1> QED
  BY <1>1, <1>3, <1>4, <1>5, RewrittenMoves

(* The handler of a text or a command returns, or throws. *)
LEMMA ReturnsSteps ==
  ASSUME WInv, NEW w \in Items, Returns(w) \/ Throws(w)
  PROVE  StepOf(w)
<1>1. work[w].at \in Held
  BY DEF Returns, Throws, Held
<1>2. "done" \in Over /\ "succeeded" \in Ended /\ Failure(work[w]) \in Ended
  BY FailureEnds DEF Over, Ended
<1>3. PICK state \in Ended : Release(w, work[w], state, "done")
  BY <1>2 DEF Returns, Throws
<1> QED
  BY <1>1, <1>2, <1>3, PlainReleases

(* cancelWorkItem. *)
LEMMA CancelSteps ==
  ASSUME WInv, NEW w \in Items, NEW state \in Ended, Cancel(w, state)
  PROVE  StepOf(w)
<1> DEFINE r == work[w]
           g == Finish(r, state)
           f == [g EXCEPT !.aborted = TRUE]
<1>1. Fits(r) /\ r.pending
  BY DEF WInv, Cancel
<1>2. /\ r \in Request /\ Told(r) /\ TelFits(r) /\ r.row # "none"
      /\ r.tel # NoTelemetry /\ r.at \in Held \cup {"queued"}
  <2>1. r.at \in Held \cup Over \cup {"new", "queued"}
    BY <1>1 DEF Fits, Request, Held, Over
  <2>2. r.at \in Held \cup {"queued"}
    BY <1>1, <2>1 DEF Fits, PlaceFits
  <2> QED
    BY <1>1, <2>2 DEF Fits, PlaceFits, Ended
<1>3. now \in 0..MaxClock /\ MaxClock \in Nat
  BY TelemetryAssumption DEF WInv, TypeOK
<1>4. FinishedAs(r, g)
  BY <1>2, <1>3, Finished
<1>5. \/ r.at = "queued" /\ Cleanup(w, f, "done")
      \/ r.at # "queued" /\ Release(w, f, "cancelled", "late")
      \/ r.at # "queued" /\ Becomes(w, f)
  BY DEF Cancel
<1> HIDE DEF g
<1>6. /\ g \in Request /\ Told(g) /\ TelFits(g) /\ g.row \in Ended
      /\ r.row \in Ended => g.row = r.row
      /\ g.at = r.at /\ g.pending = r.pending
      /\ g.tel # NoTelemetry
      /\ Closed(r) => g.tel = r.tel
      /\ g.tel.started = r.tel.started
      /\ g.tel.started # Never =>
           g.tel.finished # Never /\ g.tel.phase = PhaseOf(g.row)
  BY <1>2, <1>4 DEF FinishedAs
<1>7. /\ f \in Request /\ f.row = g.row /\ f.at = g.at
      /\ f.pending = g.pending /\ f.tel = g.tel /\ f.log = g.log
  BY <1>6 DEF Request
<1> HIDE DEF f
<1>8. Told(f) /\ TelFits(f)
  BY <1>6, <1>7 DEF Told, TelFits
<1>9. "done" \in Over /\ "late" \in Over /\ "cancelled" \in Ended
      /\ "none" \notin Ended
  BY DEF Over, Ended
<1>10. CASE r.at = "queued" /\ Cleanup(w, f, "done")
  <2>1. CleansUp(w, f, "done")
    BY <1>1, <1>6, <1>7, <1>8, <1>9, <1>10 DEF CleansUp
  <2> QED
    BY <2>1 DEF StepOf
<1>11. CASE r.at # "queued" /\ Release(w, f, "cancelled", "late")
  BY <1>1, <1>6, <1>7, <1>8, <1>9, <1>11, ReleaseCleans
<1>12. CASE r.at # "queued" /\ Becomes(w, f)
  <2>1. r.at \in Held
    BY <1>2, <1>12
  <2>2. f.at \in {"loading", "granted"} => f.tel.started = Never
    BY <1>1, <1>6, <1>7 DEF Fits, PlaceFits
  <2> QED
    BY <1>1, <1>6, <1>7, <1>8, <1>12, <2>1, <2>2, HeldMoves
<1> QED
  BY <1>5, <1>10, <1>11, <1>12

-----------------------------------------------------------------------------
(* The invariant. *)

(* A restart ends every request. *)
LEMMA RestartKeeps ==
  ASSUME WInv, Restart
  PROVE  WInv'
<1> DEFINE x(w) == [work[w] EXCEPT
              !.row = IF @ \in {"queued", "running"} THEN "failed" ELSE @,
              !.at = "done", !.pending = FALSE, !.aborted = FALSE,
              !.tel = NoTelemetry]
<1>1. /\ work' = [w \in Items |-> IF work[w].at = "new" THEN work[w] ELSE x(w)]
      /\ kept' = << >> /\ file' = file /\ now' = now
  BY DEF Restart
<1>2. ASSUME NEW w \in Items
      PROVE  Fits(work'[w]) /\ work'[w].at \notin Held
  <2>1. Fits(work[w]) /\ work[w] \in Request
    BY DEF WInv, Fits
  <2>2. CASE work[w].at = "new"
    <3>1. work'[w] = work[w]
      BY <1>1, <2>2
    <3> QED
      BY <2>1, <2>2, <3>1 DEF Held
  <2>3. CASE work[w].at # "new"
    <3> DEFINE r == work[w]
               row == IF r.row \in {"queued", "running"} THEN "failed"
                      ELSE r.row
               y == x(w)
    <3>1. work'[w] = y
      BY <1>1, <2>3
    <3>2. r.row \in Rows \ {"none"} /\ row \in Ended /\ row \in Rows
      BY <2>1, <2>3
      DEF Fits, PlaceFits, Request, Rows, Ended, Held, Over
    <3>3. /\ y \in Request /\ y.row = row /\ y.at = "done"
          /\ y.pending = FALSE /\ y.tel = NoTelemetry /\ y.log = r.log
      BY <2>1, <3>2 DEF Request
    <3> HIDE DEF y
    <3>4. Told(y)
      BY <2>1, <3>2, <3>3 DEF Fits, Told, Ended
    <3>5. TelFits(y) /\ PlaceFits(y) /\ y.at \notin Held
      BY <3>2, <3>3 DEF TelFits, PlaceFits, Held, Over
    <3> QED
      BY <3>1, <3>3, <3>4, <3>5 DEF Fits
  <2> QED
    BY <2>2, <2>3
<1> HIDE DEF x
<1>3. TypeOK'
  <2>1. work' \in [Items -> Request]
    BY <1>1, <1>2 DEF Fits
  <2> QED
    BY <1>1, <2>1 DEF WInv, TypeOK
<1>4. KeptFits'
  <2>1. MaxKept \in Nat
    BY TelemetryAssumption
  <2> QED
    BY <1>1, <2>1 DEF KeptFits
<1>5. FileFits'
  BY <1>1, <1>2 DEF WInv, FileFits
<1> QED
  BY <1>2, <1>3, <1>4, <1>5 DEF WInv

(* The file is written by the one the runtime works on. *)
LEMMA ProgressKeeps ==
  ASSUME WInv, NEW w \in Items, NEW part \in {"some", "all"}, Progress(w, part)
  PROVE  WInv'
<1>1. /\ UNCHANGED <<work, kept, now>> /\ work[w].at \in Held
      /\ file' = [of |-> w, part |-> part, at |-> now]
  BY DEF Progress, Held
<1>2. now \in 0..MaxClock /\ MaxClock \in Nat
  BY TelemetryAssumption DEF WInv, TypeOK
<1>3. TypeOK'
  BY <1>1, <1>2 DEF WInv, TypeOK, Parts, Times
<1>4. (\A v \in Items : Fits(work[v]))' /\ KeptFits'
  BY <1>1 DEF WInv, KeptFits
<1>5. FileFits'
  BY <1>1, <1>2 DEF WInv, FileFits
<1> QED
  BY <1>3, <1>4, <1>5 DEF WInv

(* Time passes. *)
LEMMA TickKeeps ==
  ASSUME WInv, Tick
  PROVE  WInv'
<1>1. /\ UNCHANGED <<work, kept, file>> /\ now' = now + 1 /\ now < MaxClock
      /\ now \in 0..MaxClock /\ MaxClock \in Nat
  BY TelemetryAssumption DEF Tick, WInv, TypeOK
<1>2. TypeOK'
  BY <1>1 DEF WInv, TypeOK
<1>3. (\A v \in Items : Fits(work[v]))' /\ KeptFits'
  BY <1>1 DEF WInv, KeptFits
<1>4. file.at \in Int
  BY <1>1 DEF WInv, TypeOK, Times, Never
<1>5. FileFits'
  BY <1>1, <1>4 DEF WInv, FileFits
<1> QED
  BY <1>2, <1>3, <1>5 DEF WInv

(* The invariant holds at the start. *)
LEMMA InitFits == Init => WInv
<1> SUFFICES ASSUME Init PROVE WInv
  OBVIOUS
<1>1. /\ MaxClock \in Nat /\ MaxKept \in Nat
      /\ 0 \in 0..MaxClock /\ Never \in Times /\ Never <= 0
  BY TelemetryAssumption DEF Never, Times
<1>2. /\ NewRequest \in Request /\ NewRequest.at = "new"
      /\ NewRequest.row = "none" /\ NewRequest.log = << >>
      /\ NewRequest.tel = NoTelemetry /\ ~NewRequest.pending
  BY DEF NewRequest, Request, Rows
<1>3. Fits(NewRequest) /\ NewRequest.at \notin Held
  BY <1>2 DEF Fits, Told, TelFits, PlaceFits, Held, Over
<1>4. TypeOK
  BY <1>1, <1>2 DEF Init, TypeOK, Parts
<1>5. KeptFits
  BY <1>1 DEF Init, KeptFits
<1>6. FileFits
  BY <1>1, <1>3 DEF Init, FileFits
<1> QED
  BY <1>3, <1>4, <1>5, <1>6 DEF Init, WInv

(* The steps on a request. *)
LEMMA RequestSteps ==
  ASSUME WInv, NEW w \in Items,
         \/ Acquire(w) \/ Admit(w) \/ Grant(w) \/ AdmissionEnds(w)
         \/ Begin(w) \/ Headers(w) \/ Retryable(w) \/ Chunk(w)
         \/ BodyEnds(w) \/ TextRead(w) \/ Returns(w) \/ Throws(w)
         \/ \E state \in Ended \ {"succeeded"} : Cancel(w, state)
  PROVE  StepOf(w)
BY AcquireSteps, AdmitSteps, GrantSteps, AdmissionEndsSteps, BeginSteps,
   HeadersSteps, RetryableSteps, ChunkSteps, BodyEndsSteps, TextReadSteps,
   ReturnsSteps, CancelSteps

(* Every step leaves the invariant. *)
LEMMA NextKeeps == WInv /\ [Next]_vars => WInv'
<1> SUFFICES ASSUME WInv, [Next]_vars PROVE WInv'
  OBVIOUS
<1>1. ASSUME NEW w \in Items, StepOf(w) PROVE WInv'
  BY <1>1, MovesKeeps, CleansUpKeeps DEF StepOf
<1>2. ASSUME NEW w \in Items, NEW part \in {"some", "all"}, Progress(w, part)
      PROVE  WInv'
  BY <1>2, ProgressKeeps
<1>3. CASE Restart
  BY <1>3, RestartKeeps
<1>4. CASE Tick
  BY <1>4, TickKeeps
<1>5. CASE UNCHANGED vars
  BY <1>5 DEF vars, WInv, TypeOK, KeptFits, FileFits
<1> QED
  BY <1>1, <1>2, <1>3, <1>4, <1>5, RequestSteps DEF Next

(* The invariant holds in every state. *)
LEMMA WInvHolds == Spec => []WInv
BY InitFits, NextKeeps, PTL DEF Spec

(* Rows, telemetry, timeline, list and file are of their types. *)
THEOREM TelemetryTypeCorrect == Spec => []TypeOK
<1>1. WInv => TypeOK
  BY DEF WInv
<1> QED
  BY <1>1, WInvHolds, PTL

-----------------------------------------------------------------------------
(* The theorems. *)

(* The timeline tells of a request that it was queued, that it ran if it
   did, and the one outcome that its row keeps, whatever is cancelled,
   answered late or interrupted by a restart (appendWorkEvent). *)
THEOREM TimelineIsTrue == Spec => []HistoryIsTrue
<1>1. WInv => HistoryIsTrue
  <2> SUFFICES ASSUME WInv, NEW w \in Items
               PROVE  \/ work[w].row = "none" /\ work[w].log = << >>
                      \/ work[w].row \in {"queued", "running"}
                           /\ work[w].log \in
                                {<<"queued">>, <<"queued", "running">>}
                           /\ Last(work[w].log) = work[w].row
                      \/ work[w].row \in Ended
                           /\ \E h \in {<<"queued">>, <<"queued", "running">>} :
                                work[w].log = Append(h, work[w].row)
                                \/ (work[w].log = h /\ work[w].row = "failed")
    BY DEF HistoryIsTrue
  <2>1. Told(work[w])
    BY DEF WInv, Fits
  <2>2. Last(<<"queued">>) = "queued"
        /\ Last(<<"queued", "running">>) = "running"
    BY DEF Last
  <2> QED
    BY <2>1, <2>2, Zenon DEF Told
<1> QED
  BY <1>1, WInvHolds, PTL

(* What is kept of a request is there once. *)
LEMMA KeptOnce ==
  ASSUME WInv, NEW w \in Items
  PROVE  /\ KeptOf(w) = {} \/ \E i \in DOMAIN kept : KeptOf(w) = {i}
         /\ \A i \in KeptOf(w) : KeptOf(w) = {i}
BY DEF WInv, KeptFits, KeptOf

(* Telemetry is in memory for exactly the requests that are pending, is kept
   within the limit of the list, once for a request at most, and tells the
   outcome of the row (cleanupPending, finishWorkItem). *)
THEOREM TelemetryAccounted == Spec => []TelemetryIsAccounted
<1>1. WInv => TelemetryIsAccounted
  <2> SUFFICES ASSUME WInv PROVE TelemetryIsAccounted
    OBVIOUS
  <2>1. Len(kept) <= MaxKept
    BY DEF WInv, KeptFits
  <2>2. ASSUME NEW w \in Items
        PROVE  /\ work[w].pending <=> work[w].tel # NoTelemetry
               /\ Cardinality(KeptOf(w)) <=
                    IF work[w].pending THEN 0 ELSE 1
    <3>1. Fits(work[w])
      BY DEF WInv
    <3>2. work[w].at \in Held \cup Over \cup {"new", "queued"}
          /\ work[w].pending \in BOOLEAN
      BY <3>1 DEF Fits, Request, Held, Over
    <3>3. work[w].pending <=> work[w].tel # NoTelemetry
      BY <3>1, <3>2 DEF Fits, PlaceFits
    <3>4. CASE KeptOf(w) = {}
      <4>1. Cardinality(KeptOf(w)) = 0
        BY <3>4, FS_EmptySet
      <4> QED
        BY <3>3, <4>1
    <3>5. CASE KeptOf(w) # {}
      <4>1. PICK i \in DOMAIN kept : KeptOf(w) = {i}
        BY <3>5, KeptOnce
      <4>2. kept[i].item = w
        BY <4>1 DEF KeptOf
      <4>3. work[w].at \in Over
        BY <4>2 DEF WInv, KeptFits
      <4>4. ~work[w].pending
        BY <3>1, <4>3 DEF Fits, PlaceFits
      <4>5. Cardinality(KeptOf(w)) = 1
        BY <4>1, FS_Singleton
      <4> QED
        BY <3>3, <4>4, <4>5
    <3> QED
      BY <3>4, <3>5
  <2>3. ASSUME NEW i \in DOMAIN kept
        PROVE  /\ work[kept[i].item].row \in Ended
               /\ kept[i].tel.started # Never =>
                    kept[i].tel.phase = PhaseOf(work[kept[i].item].row)
    <3>1. kept[i].item \in Items
      BY KeptAre
    <3>2. work[kept[i].item].at \in Over
      BY DEF WInv, KeptFits
    <3>3. work[kept[i].item].row \in Ended
      BY <3>1, <3>2 DEF WInv, Fits, PlaceFits
    <3> QED
      BY <3>3 DEF WInv, KeptFits
  <2> QED
    BY <2>1, <2>2, <2>3 DEF TelemetryIsAccounted
<1> QED
  BY <1>1, WInvHolds, PTL

(* What the status tells of a request that is not pending. *)
LEMMA NotPendingTells ==
  ASSUME WInv, NEW w \in Items, work[w].tel = NoTelemetry
  PROVE  \/ TelemetryOf(w) = NoTelemetry
         \/ \E i \in DOMAIN kept :
              /\ KeptOf(w) = {i} /\ TelemetryOf(w) = kept[i].tel
              /\ kept[i].tel \in Telemetry /\ kept[i].tel # NoTelemetry
              /\ kept[i].tel.phase # "prefill"
              /\ kept[i].tel.started # Never => kept[i].tel.finished # Never
<1>1. CASE KeptOf(w) = {}
  BY <1>1 DEF TelemetryOf
<1>2. CASE KeptOf(w) # {}
  <2>1. PICK i \in DOMAIN kept : KeptOf(w) = {i}
    BY <1>2, KeptOnce
  <2>2. (CHOOSE j \in KeptOf(w) : TRUE) = i
    BY <2>1
  <2>3. TelemetryOf(w) = kept[i].tel
    BY <1>2, <2>2 DEF TelemetryOf
  <2>4. kept[i].tel \in Telemetry /\ kept[i].tel # NoTelemetry
    BY KeptAre, TelemetryIsSome
  <2>5. /\ kept[i].tel.phase # "prefill"
        /\ kept[i].tel.started # Never => kept[i].tel.finished # Never
    BY DEF WInv, KeptFits
  <2> QED
    BY <2>1, <2>3, <2>4, <2>5
<1> QED
  BY <1>1, <1>2

(* What has ended shows no prefill; of a runtime that serves one request at
   a time, the prefill shown for a request is its own, or was written in the
   instant the request began (telemetryStatus, currentPrefillProgress). *)
THEOREM PrefillBelongs == Spec => []PrefillIsOwn
<1>1. WInv => PrefillIsOwn
  <2> SUFFICES ASSUME WInv, NEW w \in Items
               PROVE  /\ work[w].row \in Ended /\ ~work[w].pending =>
                           /\ ~ShowsPrefill(w)
                           /\ ShownPhase(w) # "prefill"
                      /\ MaxConcurrency = 1 /\ ShowsPrefill(w) =>
                           file.of = w \/ file.at = TelemetryOf(w).started
    BY DEF PrefillIsOwn
  <2>1. Fits(work[w])
    BY DEF WInv
  <2>2. work[w].at \in Held \cup Over \cup {"new", "queued"}
    BY <2>1 DEF Fits, Request, Held, Over
  <2>3. CASE work[w].tel = NoTelemetry
    <3> DEFINE t == TelemetryOf(w)
    <3>1. ~CurrentProgress(t) /\ t.phase # "prefill"
      <4>1. CASE t = NoTelemetry
        BY <4>1 DEF CurrentProgress, NoTelemetry
      <4>2. CASE t # NoTelemetry
        BY <2>3, <4>2, NotPendingTells DEF CurrentProgress
      <4> QED
        BY <4>1, <4>2
    <3> HIDE DEF t
    <3>2. ~ShowsPrefill(w)
      BY <3>1 DEF ShowsPrefill, t
    <3>3. ShownPhase(w) # "prefill"
      BY <3>1 DEF ShownPhase, t
    <3> QED
      BY <3>2, <3>3
  <2>4. CASE work[w].tel # NoTelemetry
    <3>1. TelemetryOf(w) = work[w].tel
      BY <2>4 DEF TelemetryOf
    <3>2. work[w].pending
      BY <2>1, <2>2, <2>4 DEF Fits, PlaceFits
    <3>3. ASSUME MaxConcurrency = 1, ShowsPrefill(w)
          PROVE  file.of = w \/ file.at = TelemetryOf(w).started
      <4>1. /\ work[w].tel.started # Never
            /\ file.at >= work[w].tel.started
        BY <3>1, <3>3 DEF ShowsPrefill, CurrentProgress
      <4>2. work[w].at \in Held
        BY <2>1, <2>2, <2>4, <4>1 DEF Fits, PlaceFits
      <4>3. file.of = w \/ file.at <= work[w].tel.started
        BY <3>3, <4>1, <4>2 DEF WInv, FileFits
      <4>4. file.at \in Int /\ work[w].tel.started \in Int
        <5>1. MaxClock \in Nat /\ work[w].tel \in Telemetry
          BY <2>1, <2>4, TelemetryAssumption DEF Fits, Request
        <5>2. file.at \in Times /\ work[w].tel.started \in Times
          BY <5>1 DEF WInv, TypeOK, Telemetry
        <5> QED
          BY <5>1, <5>2 DEF Times, Never
      <4> QED
        BY <3>1, <4>1, <4>3, <4>4
    <3> QED
      BY <3>2, <3>3
  <2> QED
    BY <2>3, <2>4
<1> QED
  BY <1>1, WInvHolds, PTL

-----------------------------------------------------------------------------
(* What a step may not do. *)

(* The status of a request that is not pending is what was kept of it. *)
LEMMA KeptTells ==
  WInv => \A w \in Items, i \in DOMAIN kept :
            work[w].tel = NoTelemetry /\ kept[i].item = w =>
              TelemetryOf(w) = kept[i].tel
<1> SUFFICES ASSUME WInv, NEW w \in Items, NEW i \in DOMAIN kept,
                    work[w].tel = NoTelemetry, kept[i].item = w
             PROVE  TelemetryOf(w) = kept[i].tel
  OBVIOUS
<1>1. KeptOf(w) = {i}
  BY KeptOnce DEF KeptOf
<1>2. (CHOOSE j \in KeptOf(w) : TRUE) = i
  BY <1>1
<1> QED
  BY <1>1, <1>2 DEF TelemetryOf

(* So it is in the next state. *)
LEMMA KeptTellsNext ==
  (WInv => \A w \in Items, i \in DOMAIN kept :
             work[w].tel = NoTelemetry /\ kept[i].item = w =>
               TelemetryOf(w) = kept[i].tel)'
BY KeptTells, PTL

(* The outcome of a request, and the telemetry of its finished call. *)
StandsFor(v) ==
  work[v].row \in Ended =>
    /\ work'[v].row = work[v].row
    /\ LET t == TelemetryOf(v)
           u == TelemetryOf(v)'
       IN  (t # NoTelemetry /\ t.finished # Never) => u \in {t, NoTelemetry}

(* They stand when a request moves. *)
LEMMA MovesStands ==
  ASSUME WInv, NEW w \in Items, NEW x, Moves(w, x), NEW v \in Items
  PROVE  StandsFor(v)
<1>1. work' = [work EXCEPT ![w] = x] /\ kept' = kept
      /\ work \in [Items -> Request]
  BY DEF Moves, WInv, TypeOK
<1>2. work'[v].tel = work[v].tel => TelemetryOf(v)' = TelemetryOf(v)
  BY <1>1 DEF TelemetryOf, KeptOf
<1>3. CASE v # w
  <2>1. work'[v] = work[v]
    BY <1>1, <1>3
  <2> QED
    BY <1>2, <2>1 DEF StandsFor
<1>4. CASE v = w
  <2>1. work'[v] = x
    BY <1>1, <1>4
  <2> SUFFICES ASSUME work[v].row \in Ended
               PROVE  /\ x.row = work[v].row
                      /\ TelemetryOf(v) # NoTelemetry
                           /\ TelemetryOf(v).finished # Never =>
                             TelemetryOf(v)' = TelemetryOf(v)
    BY <2>1 DEF StandsFor
  <2>2. x.row = work[v].row
    BY <1>4 DEF Moves
  <2>3. work[v].at # "new"
    BY DEF WInv, Fits, PlaceFits, Ended
  <2>4. Closed(work[v]) => TelemetryOf(v)' = TelemetryOf(v)
    BY <1>2, <1>4, <2>1, <2>3 DEF Moves
  <2>5. ~Closed(work[v]) =>
          TelemetryOf(v) = work[v].tel /\ work[v].tel.finished = Never
    BY DEF Closed, TelemetryOf
  <2> QED
    BY <2>2, <2>4, <2>5
<1> QED
  BY <1>3, <1>4

(* They stand when a request is over and its telemetry is kept. *)
LEMMA CleansUpStands ==
  ASSUME WInv, NEW w \in Items, NEW r, NEW at, CleansUp(w, r, at),
         NEW v \in Items
  PROVE  StandsFor(v)
<1> DEFINE x == [r EXCEPT !.pending = FALSE, !.at = at, !.tel = NoTelemetry]
           e == [item |-> w, tel |-> r.tel]
           S == [item : Items, tel : Telemetry]
<1>1. /\ work \in [Items -> Request] /\ kept \in Seq(S)
      /\ MaxKept \in Nat \ {0} /\ Len(kept) <= MaxKept
  BY TelemetryAssumption DEF WInv, TypeOK, KeptFits
<1>2. work' = [work EXCEPT ![w] = x] /\ kept' = Pruned(Append(kept, e))
  BY DEF CleansUp, Cleanup
<1>3. r \in Request /\ r.tel \in Telemetry /\ work[w].pending
  BY DEF CleansUp, Request
<1>4. x.tel = NoTelemetry /\ x.row = r.row
  BY <1>3 DEF Request
<1>5. e \in S /\ e.item = w /\ e.tel = r.tel
  BY <1>3
<1>6. WInv'
  BY CleansUpKeeps
<1> HIDE DEF x, e, S
<1>7. KeptWith(kept', kept, e, S)
  BY <1>1, <1>2, <1>5, PrunedAppend
<1>8. CASE v = w
  <2>1. work'[w] = x
    BY <1>1, <1>2
  <2>2. work[w].at # "new"
    BY <1>3 DEF WInv, Fits, PlaceFits
  <2>3. work[w].tel # NoTelemetry
    <3>1. Fits(work[w])
      BY DEF WInv
    <3>2. work[w].at \in Held \cup Over \cup {"new", "queued"}
      BY <3>1 DEF Fits, Request, Held, Over
    <3> QED
      BY <1>3, <3>1, <3>2 DEF Fits, PlaceFits
  <2>4. TelemetryOf(w) = work[w].tel
    BY <2>3 DEF TelemetryOf
  <2>5. Len(kept') \in DOMAIN kept' /\ kept'[Len(kept')] = e
    BY <1>7 DEF KeptWith
  <2>6. TelemetryOf(w)' = r.tel
    BY <1>4, <1>5, <1>6, <2>1, <2>5, KeptTellsNext
  <2>7. work[w].tel.finished # Never => r.tel = work[w].tel
    BY DEF CleansUp, Closed
  <2>8. work[w].row \in Ended => r.row = work[w].row
    BY DEF CleansUp
  <2> QED
    BY <1>4, <1>8, <2>1, <2>4, <2>6, <2>7, <2>8 DEF StandsFor
<1>9. CASE v # w
  <2>1. work'[v] = work[v]
    BY <1>1, <1>2, <1>9
  <2>2. CASE work[v].tel # NoTelemetry
    <3>1. TelemetryOf(v)' = TelemetryOf(v)
      BY <2>1, <2>2 DEF TelemetryOf
    <3> QED
      BY <2>1, <3>1 DEF StandsFor
  <2>3. CASE work[v].tel = NoTelemetry
    <3>1. TelemetryOf(v)' \in {TelemetryOf(v), NoTelemetry}
      <4>1. CASE KeptOf(v)' = {}
        BY <2>1, <2>3, <4>1 DEF TelemetryOf
      <4>2. CASE KeptOf(v)' # {}
        <5>1. PICK j \in DOMAIN kept' : kept'[j].item = v
          BY <4>2 DEF KeptOf
        <5>2. TelemetryOf(v)' = kept'[j].tel
          BY <1>6, <2>1, <2>3, <5>1, KeptTellsNext
        <5>3. PICK d \in {0, 1} :
                /\ Len(kept') = Len(kept) + 1 - d
                /\ \A i \in 1..(Len(kept') - 1) :
                     i + d \in 1..Len(kept) /\ kept'[i] = kept[i + d]
          BY <1>7 DEF KeptWith
        <5>4. j # Len(kept')
          BY <1>5, <1>7, <1>9, <5>1 DEF KeptWith
        <5>5. j \in 1..(Len(kept') - 1)
          <6>1. DOMAIN kept' = 1..Len(kept') /\ Len(kept') \in Nat
            BY <1>7 DEF KeptWith
          <6> QED
            BY <5>4, <6>1
        <5>6. j + d \in DOMAIN kept /\ kept'[j] = kept[j + d]
          BY <1>1, <5>3, <5>5
        <5>7. TelemetryOf(v) = kept[j + d].tel
          BY <2>3, <5>1, <5>6, KeptTells
        <5> QED
          BY <5>2, <5>6, <5>7
      <4> QED
        BY <4>1, <4>2
    <3> QED
      BY <2>1, <3>1 DEF StandsFor
  <2> QED
    BY <2>2, <2>3
<1> QED
  BY <1>8, <1>9

(* They stand through a restart. *)
LEMMA RestartStands ==
  ASSUME WInv, Restart, NEW v \in Items
  PROVE  StandsFor(v)
<1> SUFFICES ASSUME work[v].row \in Ended
             PROVE  work'[v].row = work[v].row
                    /\ TelemetryOf(v)' = NoTelemetry
  BY DEF StandsFor
<1>1. work[v].at # "new" /\ work[v] \in Request
  BY DEF WInv, Fits, PlaceFits, Ended
<1>2. work'[v] = [work[v] EXCEPT
              !.row = IF @ \in {"queued", "running"} THEN "failed" ELSE @,
              !.at = "done", !.pending = FALSE, !.aborted = FALSE,
              !.tel = NoTelemetry]
      /\ kept' = << >>
  BY <1>1 DEF Restart
<1>3. work'[v].row = work[v].row /\ work'[v].tel = NoTelemetry
  BY <1>1, <1>2 DEF Request, Ended
<1>4. KeptOf(v)' = {}
  BY <1>2 DEF KeptOf
<1> QED
  BY <1>3, <1>4 DEF TelemetryOf

(* No step changes the outcome of a request, nor the telemetry of a call to
   its upstream that has finished, until it is dropped (CHANGELOG.md 29). *)
THEOREM OutcomesStand == Spec => OutcomeStands
<1>1. WInv /\ [Next]_vars => [\A v \in Items : StandsFor(v)]_vars
  <2> SUFFICES ASSUME WInv, Next, NEW v \in Items PROVE StandsFor(v)
    BY DEF vars
  <2>1. ASSUME NEW w \in Items, StepOf(w) PROVE StandsFor(v)
    BY <2>1, MovesStands, CleansUpStands DEF StepOf
  <2>2. ASSUME UNCHANGED <<work, kept>> PROVE StandsFor(v)
    <3>1. TelemetryOf(v)' = TelemetryOf(v)
      BY <2>2 DEF TelemetryOf, KeptOf
    <3> QED
      BY <2>2, <3>1 DEF StandsFor
  <2>3. CASE Restart
    BY <2>3, RestartStands
  <2>4. ASSUME NEW w \in Items, NEW part \in {"some", "all"},
               Progress(w, part)
        PROVE  StandsFor(v)
    BY <2>2, <2>4 DEF Progress
  <2>5. CASE Tick
    BY <2>2, <2>5 DEF Tick
  <2> QED
    BY <2>1, <2>3, <2>4, <2>5, RequestSteps DEF Next
<1>2. (\A v \in Items : StandsFor(v)) <=>
        \A w \in Items :
          work[w].row \in Ended =>
            /\ work'[w].row = work[w].row
            /\ LET t == TelemetryOf(w)
                   u == TelemetryOf(w)'
               IN  (t # NoTelemetry /\ t.finished # Never) =>
                     u \in {t, NoTelemetry}
  BY DEF StandsFor
<1> QED
  BY <1>1, <1>2, WInvHolds, PTL DEF Spec, OutcomeStands

=============================================================================
