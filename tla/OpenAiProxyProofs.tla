-------------------------- MODULE OpenAiProxyProofs --------------------------
(***************************************************************************)
(* Proofs about OpenAiProxy, for every number of requests and upstreams.   *)
(*                                                                         *)
(* Requests share nothing but the cursor, so the invariant speaks of one   *)
(* call at a time (Sound), and the lemmas follow one call through the      *)
(* functions that the handlers are made of.                                *)
(***************************************************************************)
EXTENDS OpenAiProxy, TLAPS

Waiting == {"start", "fetch", "arrived", "text"}

(* What the locals of a call agree on. *)
Sound(q) ==
  /\ q.at \in Waiting =>
       q.outcome = "none" /\ ~q.completed /\ q.answer = "none" /\ ~q.dropped
  /\ q.at \in {"fetch", "arrived", "text"} => q.armed \/ q.aborted
  /\ q.at = "stream" =>
       /\ q.armed \/ q.completed
       /\ q.aborted => q.completed
       /\ ~q.completed => q.outcome = "none"
  /\ q.completed => q.outcome # "none"
  /\ q.at \in {"start", "done"} => ~q.armed
  /\ q.at = "start" => q.tried = 0
  /\ q.outcome # "none" => ~q.armed
  /\ q.outcome = "succeeded" => q.status = "ok" /\ q.whole

IInv == TypeOK /\ \A r \in Requests : Sound(req[r])

(* The fields that a call keeps when it completes. *)
SameCourse(q, p) ==
  /\ p.at = q.at /\ p.first = q.first /\ p.tried = q.tried
  /\ p.status = q.status /\ p.whole = q.whole /\ p.answer = q.answer
  /\ p.left = q.left /\ p.dropped = q.dropped

-----------------------------------------------------------------------------
(* The functions the handlers call. *)

LEMMA FinishFields ==
  ASSUME NEW q \in Call, NEW o \in Outcomes
  PROVE  /\ Finish(q, o) \in Call
         /\ SameCourse(q, Finish(q, o))
         /\ Finish(q, o).armed = q.armed
         /\ Finish(q, o).listening = q.listening
         /\ Finish(q, o).aborted = q.aborted
         /\ Finish(q, o).completed = q.completed
         /\ Finish(q, o).outcome =
              IF q.outcome = "none" THEN o ELSE q.outcome
<1>1. CASE q.outcome # "none"
  BY <1>1 DEF Finish, SameCourse
<1>2. CASE q.outcome = "none"
  <2>1. Finish(q, o) = [q EXCEPT !.outcome = o]
    BY <1>2 DEF Finish
  <2>2. [q EXCEPT !.outcome = o] \in Call
    BY DEF Call
  <2>3. QED  BY <1>2, <2>1, <2>2 DEF Call, SameCourse
<1>3. QED  BY <1>1, <1>2

LEMMA CleanupFields ==
  ASSUME NEW q \in Call
  PROVE  /\ Cleanup(q) \in Call
         /\ SameCourse(q, Cleanup(q))
         /\ ~Cleanup(q).armed /\ ~Cleanup(q).listening
         /\ Cleanup(q).aborted = q.aborted
         /\ Cleanup(q).completed = q.completed
         /\ Cleanup(q).outcome = q.outcome
<1>1. Cleanup(q) \in Call
  BY DEF Cleanup, Call
<1>2. QED  BY <1>1 DEF Cleanup, Call, SameCourse

LEMMA CompleteFields ==
  ASSUME NEW q \in Call, NEW o \in Outcomes
  PROVE  /\ Complete(q, o) \in Call
         /\ SameCourse(q, Complete(q, o))
         /\ Complete(q, o).aborted = q.aborted
         /\ Complete(q, o).completed
         /\ q.completed => Complete(q, o) = q
         /\ ~q.completed =>
              /\ ~Complete(q, o).armed /\ ~Complete(q, o).listening
              /\ Complete(q, o).outcome =
                   IF q.outcome = "none" THEN CompletedAs(q, o)
                   ELSE q.outcome
<1>1. CASE q.completed
  BY <1>1 DEF Complete, SameCourse
<1>2. CASE ~q.completed
  <2> DEFINE c == [q EXCEPT !.completed = TRUE]
             d == Cleanup(c)
             outcome == CompletedAs(q, o)
  <2>1. c \in Call
    BY DEF Call
  <2>2. /\ SameCourse(q, c) /\ c.aborted = q.aborted /\ c.completed
        /\ c.outcome = q.outcome
    BY DEF Call, SameCourse
  <2>3. outcome \in Outcomes
    BY DEF CompletedAs, Outcomes
  <2>4. Complete(q, o) = Finish(d, outcome)
    BY <1>2 DEF Complete
  <2> HIDE DEF c, d, outcome
  <2>5. /\ d \in Call /\ SameCourse(c, d) /\ ~d.armed /\ ~d.listening
        /\ d.aborted = c.aborted /\ d.completed = c.completed
        /\ d.outcome = c.outcome
    BY <2>1, CleanupFields DEF d
  <2> DEFINE e == Finish(d, outcome)
  <2>6. /\ e \in Call /\ SameCourse(d, e)
        /\ e.armed = d.armed /\ e.listening = d.listening
        /\ e.aborted = d.aborted /\ e.completed = d.completed
        /\ e.outcome = IF d.outcome = "none" THEN outcome ELSE d.outcome
    BY <2>3, <2>5, FinishFields
  <2> HIDE DEF e
  <2>7. SameCourse(q, e)
    BY <2>2, <2>5, <2>6 DEF SameCourse
  <2>8. Complete(q, o) = e
    BY <2>4 DEF e
  <2>9. QED  BY <1>2, <2>2, <2>5, <2>6, <2>7, <2>8 DEF outcome
<1>3. QED  BY <1>1, <1>2

(* An abort completes a call that streams, and only marks another. *)
LEMMA AbortFields ==
  ASSUME NEW q \in Call
  PROVE  LET p == Abort(q)
             outcome == IF Left(q) THEN "cancelled" ELSE "failed"
         IN  /\ p \in Call /\ SameCourse(q, p) /\ p.aborted
             /\ q.aborted => p = q
             /\ ~q.aborted /\ ~Streaming(q) =>
                  /\ p.armed = q.armed /\ p.listening = q.listening
                  /\ p.completed = q.completed /\ p.outcome = q.outcome
             /\ ~q.aborted /\ Streaming(q) =>
                  /\ p.completed /\ ~p.armed /\ ~p.listening
                  /\ p.outcome = IF q.outcome = "none"
                                 THEN CompletedAs(q, outcome) ELSE q.outcome
<1> DEFINE p == Abort(q)
           outcome == IF Left(q) THEN "cancelled" ELSE "failed"
           a == [q EXCEPT !.aborted = TRUE]
<1>1. CASE q.aborted
  BY <1>1 DEF Abort, SameCourse
<1>2. CASE ~q.aborted
  <2>1. a \in Call
    BY DEF Call
  <2>2. /\ SameCourse(q, a) /\ a.aborted /\ a.armed = q.armed
        /\ a.listening = q.listening /\ a.completed = q.completed
        /\ a.outcome = q.outcome
    BY DEF Call, SameCourse
  <2>3. p = IF Streaming(a)
            THEN Complete(a, IF Left(a) THEN "cancelled" ELSE "failed")
            ELSE a
    BY <1>2 DEF Abort
  <2>4. outcome \in Outcomes
    BY DEF Outcomes
  <2> HIDE DEF a
  <2>5. Streaming(a) = Streaming(q) /\ Left(a) = Left(q)
    BY <2>2 DEF Streaming, Left, SameCourse
  <2>6. CompletedAs(a, outcome) = CompletedAs(q, outcome)
    BY <2>2 DEF CompletedAs, SameCourse
  <2> HIDE DEF p, outcome
  <2>7. CASE ~Streaming(q)
    BY <1>2, <2>1, <2>2, <2>3, <2>5, <2>7 DEF p, outcome
  <2>8. CASE Streaming(q)
    <3>1. p = Complete(a, outcome)
      BY <2>3, <2>5, <2>8 DEF outcome
    <3>2. /\ p \in Call /\ SameCourse(a, p) /\ p.aborted /\ p.completed
          /\ ~p.armed /\ ~p.listening
          /\ p.outcome = IF a.outcome = "none" THEN CompletedAs(a, outcome)
                         ELSE a.outcome
      BY <2>1, <2>2, <2>4, <2>8, <3>1, CompleteFields DEF Streaming
    <3>3. SameCourse(q, p)
      BY <2>2, <3>2 DEF SameCourse
    <3>4. QED
      BY <1>2, <2>2, <2>6, <2>8, <3>2, <3>3 DEF p, outcome
  <2>9. QED  BY <2>7, <2>8
<1>3. QED  BY <1>1, <1>2

-----------------------------------------------------------------------------
(* One step of one call. *)

(* An outcome is a cancellation exactly if somebody has left by then. *)
Honest(q, p) ==
  N > 0 /\ q.outcome = "none" /\ p.outcome # "none" =>
    (p.outcome = "cancelled" <=> p.left \/ p.dropped)

Needed(q, p) == p.tried > q.tried => ~q.left /\ q.answer = "none"

Good(q, p) == p \in Call /\ Sound(p) /\ Honest(q, p) /\ Needed(q, p)

(* The next attempt, or the answer that there is none. *)
LEMMA AttemptGood ==
  ASSUME NEW q \in Call, q.outcome = "none", ~q.completed, ~q.dropped,
         q.answer = "none", ~q.armed, N > 0 /\ q.tried = N => ~q.left
  PROVE  Good(q, Attempt(q))
<1> USE ProxyAssumption
<1> DEFINE p == Attempt(q)
<1>1. CASE q.tried = N \/ q.left
  <2> DEFINE outcome == IF q.tried = N THEN "failed" ELSE "cancelled"
             answer == IF q.tried = N THEN IF N = 0 THEN "404" ELSE "503"
                       ELSE "499"
             f == Finish(q, outcome)
  <2>1. p = Answered(f, answer)
    BY <1>1 DEF Attempt
  <2>2. outcome \in Outcomes /\ answer \in Answers
    BY DEF Outcomes, Answers
  <2>3. /\ outcome # "none" /\ outcome # "succeeded"
        /\ N > 0 => (outcome = "cancelled" <=> q.left)
    BY <1>1
  <2> HIDE DEF outcome, answer
  <2>4. /\ f \in Call /\ SameCourse(q, f) /\ f.armed = q.armed
        /\ f.completed = q.completed /\ f.outcome = outcome
    BY <2>2, FinishFields
  <2> HIDE DEF f
  <2>5. /\ Answered(f, answer) \in Call
        /\ Answered(f, answer).at = "done"
        /\ Answered(f, answer).armed = f.armed
        /\ Answered(f, answer).completed = f.completed
        /\ Answered(f, answer).outcome = f.outcome
        /\ Answered(f, answer).left = f.left
        /\ Answered(f, answer).dropped = f.dropped
        /\ Answered(f, answer).tried = f.tried
    BY <2>2, <2>4 DEF Answered, Call
  <2> HIDE DEF p
  <2>6. Sound(p)
    BY <2>1, <2>3, <2>4, <2>5 DEF Sound, Waiting
  <2>7. Honest(q, p)
    BY <2>1, <2>3, <2>4, <2>5 DEF Honest, SameCourse
  <2>8. q.tried \in Nat
    BY DEF Call
  <2>9. Needed(q, p)
    BY <2>1, <2>4, <2>5, <2>8 DEF Needed, SameCourse
  <2>10. QED  BY <2>1, <2>5, <2>6, <2>7, <2>9 DEF Good, p
<1>2. CASE q.tried # N /\ ~q.left
  <2> DEFINE s == [q EXCEPT !.at = "fetch", !.tried = @ + 1]
             t == [s EXCEPT !.status = "none", !.armed = TRUE]
             u == [t EXCEPT !.listening = TRUE, !.aborted = FALSE]
  <2>1. p = u
    BY <1>2 DEF Attempt
  <2>2. q.tried \in 0..N /\ q.tried + 1 \in 0..N
    BY <1>2 DEF Call
  <2>3. s \in Call
    BY <2>2 DEF Call
  <2>4. /\ s.at = "fetch" /\ s.outcome = q.outcome /\ s.left = q.left
        /\ s.completed = q.completed /\ s.answer = q.answer
        /\ s.dropped = q.dropped
    BY DEF Call
  <2> HIDE DEF s
  <2>5. t \in Call
    BY <2>3 DEF Call
  <2>6. /\ t.at = s.at /\ t.outcome = s.outcome /\ t.left = s.left
        /\ t.completed = s.completed /\ t.answer = s.answer /\ t.armed
        /\ t.dropped = s.dropped
    BY <2>3 DEF Call
  <2> HIDE DEF t
  <2>7. u \in Call
    BY <2>5 DEF Call
  <2>8. /\ u.at = t.at /\ u.outcome = t.outcome /\ u.left = t.left
        /\ u.completed = t.completed /\ u.answer = t.answer
        /\ u.armed = t.armed /\ u.dropped = t.dropped
    BY <2>5 DEF Call
  <2> HIDE DEF u, p
  <2>9. Sound(p)
    BY <2>1, <2>4, <2>6, <2>8 DEF Sound, Waiting
  <2>10. Honest(q, p) /\ Needed(q, p)
    BY <1>2, <2>1, <2>4, <2>6, <2>8 DEF Honest, Needed
  <2>11. QED  BY <2>1, <2>7, <2>9, <2>10 DEF Good, p
<1>3. QED  BY <1>1, <1>2

(* An attempt that failed: 499 to a client that has left, else the next. *)
LEMMA AttemptFailedGood ==
  ASSUME NEW q \in Call, Sound(q), q.at \in {"fetch", "text"}
  PROVE  Good(q, AttemptFailed(q))
<1> DEFINE c == Cleanup(q)
           f == Finish(c, "cancelled")
<1>1. /\ c \in Call /\ SameCourse(q, c) /\ ~c.armed
      /\ c.completed = q.completed /\ c.outcome = q.outcome
  BY CleanupFields
<1> HIDE DEF c
<1>2. /\ c.outcome = "none" /\ ~c.completed /\ ~c.dropped
      /\ c.answer = "none" /\ c.left = q.left /\ c.tried = q.tried
      /\ q.outcome = "none" /\ q.answer = "none"
  BY <1>1 DEF Sound, Waiting, SameCourse
<1>3. CASE c.left
  <2>1. AttemptFailed(q) = Answered(f, "499")
    BY <1>3 DEF AttemptFailed, c
  <2>2. "cancelled" \in Outcomes /\ "499" \in Answers
    BY DEF Outcomes, Answers
  <2>3. /\ f \in Call /\ SameCourse(c, f) /\ f.armed = c.armed
        /\ f.completed = c.completed /\ f.outcome = "cancelled"
    BY <1>1, <1>2, <2>2, FinishFields
  <2> HIDE DEF f
  <2> DEFINE a == Answered(f, "499")
  <2>4. /\ a \in Call /\ a.at = "done" /\ a.armed = f.armed
        /\ a.completed = f.completed /\ a.outcome = f.outcome
        /\ a.left = f.left /\ a.dropped = f.dropped /\ a.tried = f.tried
    BY <2>2, <2>3 DEF Answered, Call
  <2> HIDE DEF a
  <2>5. Sound(a) /\ Honest(q, a)
    BY <1>1, <1>2, <1>3, <2>3, <2>4 DEF Sound, Honest, Waiting, SameCourse
  <2>6. q.tried \in Nat
    BY ProxyAssumption DEF Call
  <2>7. Needed(q, a)
    BY <1>2, <2>3, <2>4, <2>6 DEF Needed, SameCourse
  <2>8. QED  BY <2>1, <2>4, <2>5, <2>7 DEF Good, a
<1>4. CASE ~c.left
  <2>1. AttemptFailed(q) = Attempt(c)
    BY <1>4 DEF AttemptFailed, c
  <2>2. Good(c, Attempt(c))
    BY <1>1, <1>2, <1>4, AttemptGood
  <2>3. QED  BY <1>2, <2>1, <2>2 DEF Good, Honest, Needed
<1>5. QED  BY <1>3, <1>4

(* A completion of a call, with the outcome its handler has for it. *)
LEMMA CompleteGood ==
  ASSUME NEW q \in Call, NEW o \in Outcomes,
         q.at = "stream",
         q.completed => Sound(q), ~q.completed => q.outcome = "none",
         o = "cancelled" <=> Left(q),
         o = "succeeded" => q.whole
  PROVE  Good(q, Complete(q, o)) /\ Complete(q, o).completed
<1> DEFINE p == Complete(q, o)
<1>1. /\ p \in Call /\ SameCourse(q, p) /\ p.aborted = q.aborted
      /\ p.completed /\ (q.completed => p = q)
      /\ ~q.completed =>
           /\ ~p.armed
           /\ p.outcome = IF q.outcome = "none" THEN CompletedAs(q, o)
                          ELSE q.outcome
  BY CompleteFields
<1>2. q.tried \in Nat
  BY ProxyAssumption DEF Call
<1> HIDE DEF p
<1>3. Needed(q, p)
  BY <1>1, <1>2 DEF Needed, SameCourse
<1>4. CASE q.completed
  BY <1>1, <1>3, <1>4 DEF Good, Honest, p
<1>5. CASE ~q.completed
  <2>1. p.outcome = CompletedAs(q, o) /\ ~p.armed
    BY <1>1, <1>5
  <2>2. /\ p.outcome \in Outcomes
        /\ p.outcome = "cancelled" <=> o = "cancelled"
        /\ p.outcome = "succeeded" => q.status = "ok" /\ o = "succeeded"
    BY <2>1 DEF CompletedAs, Outcomes
  <2>3. p.outcome # "none"
    BY <2>2 DEF Outcomes
  <2>4. Sound(p)
    BY <1>1, <2>1, <2>2, <2>3 DEF Sound, Waiting, SameCourse
  <2>5. Honest(q, p)
    BY <1>1, <2>2 DEF Honest, Left, SameCourse
  <2>6. QED  BY <1>1, <1>3, <2>4, <2>5 DEF Good, p
<1>6. QED  BY <1>4, <1>5

(* A step after changes that touch none of what is compared. *)
LEMMA GoodFrom ==
  ASSUME NEW q, NEW x, NEW p, Good(x, p), x.outcome = q.outcome,
         x.tried = q.tried, x.answer = q.answer, q.left => x.left
  PROVE  Good(q, p)
BY DEF Good, Honest, Needed

(* A call that completed is done with. *)
LEMMA DoneGood ==
  ASSUME NEW q, NEW p, Good(q, p), p.completed
  PROVE  Good(q, [p EXCEPT !.at = "done"])
<1> DEFINE d == [p EXCEPT !.at = "done"]
<1>1. p \in Call /\ Sound(p)
  BY DEF Good
<1>2. d \in Call
  BY <1>1 DEF Call
<1>3. /\ d.at = "done" /\ d.outcome = p.outcome /\ d.armed = p.armed
      /\ d.completed = p.completed /\ d.status = p.status
      /\ d.whole = p.whole /\ d.left = p.left /\ d.dropped = p.dropped
      /\ d.tried = p.tried
  BY <1>1 DEF Call
<1> HIDE DEF d
<1>4. Sound(d)
  BY <1>1, <1>3 DEF Sound, Waiting
<1>5. QED  BY <1>2, <1>3, <1>4 DEF Good, Honest, Needed, d

(* An abort of a call whose body is wrapped completes it. *)
LEMMA AbortGood ==
  ASSUME NEW q \in Call, q.at = "stream", q.completed => Sound(q),
         ~q.completed => q.outcome = "none" /\ ~q.aborted
  PROVE  Good(q, Abort(q)) /\ Abort(q).completed
<1> DEFINE p == Abort(q)
           o == IF Left(q) THEN "cancelled" ELSE "failed"
<1>1. /\ p \in Call /\ SameCourse(q, p) /\ p.aborted
      /\ q.aborted => p = q
      /\ ~q.aborted /\ ~Streaming(q) =>
           /\ p.armed = q.armed /\ p.listening = q.listening
           /\ p.completed = q.completed /\ p.outcome = q.outcome
      /\ ~q.aborted /\ Streaming(q) =>
           /\ p.completed /\ ~p.armed
           /\ p.outcome = IF q.outcome = "none" THEN CompletedAs(q, o)
                          ELSE q.outcome
  BY AbortFields
<1>2. q.tried \in Nat
  BY ProxyAssumption DEF Call
<1> HIDE DEF p
<1>3. Needed(q, p)
  BY <1>1, <1>2 DEF Needed, SameCourse
<1>4. CASE q.completed
  <2>1. p.completed /\ p.outcome = q.outcome /\ p.armed = q.armed
    BY <1>1, <1>4 DEF Streaming
  <2>2. Sound(p)
    BY <1>1, <1>4, <2>1 DEF Sound, Waiting, SameCourse
  <2>3. Honest(q, p)
    BY <2>1 DEF Honest
  <2>4. QED  BY <1>1, <1>3, <2>1, <2>2, <2>3 DEF Good, p
<1>5. CASE ~q.completed
  <2>1. p.completed /\ ~p.armed /\ p.outcome = CompletedAs(q, o)
    BY <1>1, <1>5 DEF Streaming
  <2>2. /\ p.outcome \in {"cancelled", "failed"}
        /\ p.outcome = "cancelled" <=> Left(q)
    BY <2>1 DEF CompletedAs
  <2>3. Sound(p)
    BY <1>1, <2>1, <2>2 DEF Sound, Waiting, SameCourse
  <2>4. Honest(q, p)
    BY <1>1, <2>2 DEF Honest, Left, SameCourse
  <2>5. QED  BY <1>1, <1>3, <2>1, <2>3, <2>4 DEF Good, p
<1>6. QED  BY <1>4, <1>5

-----------------------------------------------------------------------------
(* The handlers. *)

LEMMA BeginGood ==
  ASSUME NEW q \in Call, Sound(q), q.at = "start", cursor \in 0..N
  PROVE  Good(q, Attempt([q EXCEPT !.first = cursor]))
<1> DEFINE x == [q EXCEPT !.first = cursor]
<1>1. x \in Call
  BY DEF Call
<1>2. /\ x.outcome = q.outcome /\ x.completed = q.completed
      /\ x.dropped = q.dropped /\ x.answer = q.answer /\ x.armed = q.armed
      /\ x.tried = q.tried /\ x.left = q.left
  BY DEF Call
<1> HIDE DEF x
<1>3. /\ q.outcome = "none" /\ ~q.completed /\ ~q.dropped
      /\ q.answer = "none" /\ ~q.armed /\ q.tried = 0
  BY DEF Sound, Waiting
<1>4. N > 0 /\ x.tried = N => ~x.left
  BY <1>2, <1>3, ProxyAssumption
<1>5. Good(x, Attempt(x))
  BY <1>1, <1>2, <1>3, <1>4, AttemptGood
<1>6. Good(q, Attempt(x))
  BY <1>2, <1>5, GoodFrom
<1>7. QED  BY <1>6 DEF x

LEMMA ResolvesGood ==
  ASSUME NEW q \in Call, Sound(q), q.at = "fetch", NEW status \in Statuses
  PROVE  Good(q, [q EXCEPT !.at = "arrived", !.status = status])
<1> DEFINE x == [q EXCEPT !.at = "arrived", !.status = status]
<1>1. x \in Call
  BY DEF Call
<1>2. /\ x.at = "arrived" /\ x.outcome = q.outcome
      /\ x.completed = q.completed /\ x.dropped = q.dropped
      /\ x.answer = q.answer /\ x.armed = q.armed /\ x.aborted = q.aborted
      /\ x.tried = q.tried /\ q.tried \in Nat
  BY ProxyAssumption DEF Call
<1> HIDE DEF x
<1>3. Sound(x) /\ q.outcome = "none"
  BY <1>2 DEF Sound, Waiting
<1>4. Honest(q, x) /\ Needed(q, x)
  BY <1>2, <1>3 DEF Honest, Needed
<1>5. QED  BY <1>1, <1>3, <1>4 DEF Good, x

LEMMA TextGood ==
  ASSUME NEW q \in Call, Sound(q), q.at = "arrived"
  PROVE  Good(q, [q EXCEPT !.at = "text"])
<1> DEFINE x == [q EXCEPT !.at = "text"]
<1>1. x \in Call
  BY DEF Call
<1>2. /\ x.at = "text" /\ x.outcome = q.outcome
      /\ x.completed = q.completed /\ x.dropped = q.dropped
      /\ x.answer = q.answer /\ x.armed = q.armed /\ x.aborted = q.aborted
      /\ x.tried = q.tried /\ q.tried \in Nat
  BY ProxyAssumption DEF Call
<1> HIDE DEF x
<1>3. Sound(x) /\ q.outcome = "none"
  BY <1>2 DEF Sound, Waiting
<1>4. Honest(q, x) /\ Needed(q, x)
  BY <1>2, <1>3 DEF Honest, Needed
<1>5. QED  BY <1>1, <1>3, <1>4 DEF Good, x

LEMMA WrappedGood ==
  ASSUME NEW q \in Call, Sound(q), q.at = "arrived"
  PROVE  Good(q, Wrapped(q))
<1> DEFINE w == [q EXCEPT !.at = "stream", !.answer = "proxied"]
           x == [w EXCEPT !.aborted = TRUE]
           o == IF Left(w) THEN "cancelled" ELSE "failed"
<1>1. w \in Call
  BY DEF Call, Answers
<1>2. /\ w.at = "stream" /\ w.outcome = q.outcome
      /\ w.completed = q.completed /\ w.dropped = q.dropped
      /\ w.armed = q.armed /\ w.aborted = q.aborted
      /\ w.left = q.left /\ w.tried = q.tried /\ q.tried \in Nat
  BY ProxyAssumption DEF Call
<1>3. /\ q.outcome = "none" /\ ~q.completed /\ q.answer = "none"
      /\ ~q.dropped /\ (q.armed \/ q.aborted)
  BY DEF Sound, Waiting
<1>4. Wrapped(q) = IF w.left \/ w.aborted THEN Complete(x, o) ELSE w
  BY DEF Wrapped
<1> HIDE DEF w
<1>5. CASE w.left \/ w.aborted
  <2>1. x \in Call
    BY <1>1 DEF Call
  <2>2. /\ x.at = w.at /\ x.outcome = w.outcome
        /\ x.completed = w.completed /\ x.left = w.left
        /\ x.dropped = w.dropped /\ x.tried = w.tried
    BY <1>1 DEF Call
  <2>3. o \in Outcomes /\ (o = "cancelled" <=> Left(x)) /\ o # "succeeded"
    BY <2>2 DEF Outcomes, Left
  <2> HIDE DEF x, o
  <2>4. Good(x, Complete(x, o))
    BY <1>2, <1>3, <2>1, <2>2, <2>3, CompleteGood
  <2>5. Good(q, Complete(x, o))
    BY <1>2, <1>3, <2>2, <2>4 DEF Good, Honest, Needed
  <2>6. QED  BY <1>4, <1>5, <2>5
<1>6. CASE ~w.left /\ ~w.aborted
  <2>1. Sound(w)
    BY <1>2, <1>3, <1>6 DEF Sound, Waiting
  <2>2. Honest(q, w) /\ Needed(q, w)
    BY <1>2, <1>3 DEF Honest, Needed
  <2>3. QED  BY <1>1, <1>4, <1>6, <2>1, <2>2 DEF Good
<1>7. QED  BY <1>5, <1>6

LEMMA BodilessGood ==
  ASSUME NEW q \in Call, Sound(q), q.at = "arrived"
  PROVE  Good(q, Bodiless(q))
<1> DEFINE o == IF q.left THEN "cancelled"
                ELSE IF q.aborted THEN "failed" ELSE "succeeded"
           x == [q EXCEPT !.whole = TRUE]
           c == Complete(x, o)
           a == Answered(c, "proxied")
<1>1. Bodiless(q) = a
  BY DEF Bodiless
<1>2. x \in Call
  BY DEF Call
<1>3. /\ x.outcome = q.outcome /\ x.completed = q.completed
      /\ x.dropped = q.dropped /\ x.left = q.left /\ x.whole
      /\ x.status = q.status /\ x.tried = q.tried /\ q.tried \in Nat
  BY ProxyAssumption DEF Call
<1>4. q.outcome = "none" /\ ~q.completed /\ ~q.dropped
  BY DEF Sound, Waiting
<1>5. o \in Outcomes /\ (o = "cancelled" <=> q.left)
  BY DEF Outcomes
<1> HIDE DEF x, o
<1>6. /\ c \in Call /\ SameCourse(x, c) /\ ~c.armed /\ c.completed
      /\ c.outcome = CompletedAs(x, o)
  BY <1>2, <1>3, <1>4, <1>5, CompleteFields
<1>7. /\ c.outcome \in Outcomes
      /\ c.outcome = "cancelled" <=> q.left
      /\ c.outcome = "succeeded" => x.status = "ok"
  BY <1>5, <1>6 DEF CompletedAs, Outcomes
<1> HIDE DEF c
<1>8. a \in Call
  BY <1>6 DEF Answered, Call, Answers
<1>9. /\ a.at = "done" /\ a.armed = c.armed /\ a.completed = c.completed
      /\ a.outcome = c.outcome /\ a.status = c.status /\ a.whole = c.whole
      /\ a.left = c.left /\ a.dropped = c.dropped /\ a.tried = c.tried
  BY <1>6 DEF Answered, Call
<1> HIDE DEF a
<1>10. c.outcome # "none"
  BY <1>7 DEF Outcomes
<1>11. Sound(a)
  BY <1>3, <1>6, <1>7, <1>9, <1>10 DEF Sound, Waiting, SameCourse
<1>12. Honest(q, a) /\ Needed(q, a)
  BY <1>3, <1>4, <1>6, <1>7, <1>9 DEF Honest, Needed, SameCourse
<1>13. QED  BY <1>1, <1>8, <1>11, <1>12 DEF Good

LEMMA ReadEndsGood ==
  ASSUME NEW q \in Call, Sound(q), q.at = "stream"
  PROVE  Good(q, [Complete([q EXCEPT !.whole = TRUE],
                           IF Left(q) THEN "cancelled" ELSE "succeeded")
                    EXCEPT !.at = "done"])
<1> DEFINE x == [q EXCEPT !.whole = TRUE]
           o == IF Left(q) THEN "cancelled" ELSE "succeeded"
           c == Complete(x, o)
<1>1. x \in Call
  BY DEF Call
<1>2. /\ x.at = q.at /\ x.outcome = q.outcome /\ x.completed = q.completed
      /\ x.dropped = q.dropped /\ x.left = q.left /\ x.whole
      /\ x.status = q.status /\ x.tried = q.tried /\ x.answer = q.answer
      /\ x.armed = q.armed /\ x.aborted = q.aborted
  BY DEF Call
<1> HIDE DEF x
<1>3. Sound(x)
  BY <1>2 DEF Sound, Waiting
<1>4. o \in Outcomes /\ (o = "cancelled" <=> Left(x))
  BY <1>2 DEF Outcomes, Left
<1>5. ~x.completed => x.outcome = "none"
  BY <1>2 DEF Sound
<1> HIDE DEF o
<1>6. Good(x, c) /\ c.completed
  BY <1>1, <1>2, <1>3, <1>4, <1>5, CompleteGood
<1> HIDE DEF c
<1>7. Good(q, c)
  BY <1>2, <1>6, GoodFrom
<1>8. Good(q, [c EXCEPT !.at = "done"])
  BY <1>6, <1>7, DoneGood
<1>9. QED  BY <1>8 DEF c, x, o

LEMMA ReadFailsGood ==
  ASSUME NEW q \in Call, Sound(q), q.at = "stream"
  PROVE  Good(q, [Complete(q, IF Left(q) THEN "cancelled" ELSE "failed")
                    EXCEPT !.at = "done"])
<1> DEFINE o == IF Left(q) THEN "cancelled" ELSE "failed"
           c == Complete(q, o)
<1>1. o \in Outcomes /\ (o = "cancelled" <=> Left(q)) /\ o # "succeeded"
  BY DEF Outcomes
<1>2. ~q.completed => q.outcome = "none"
  BY DEF Sound
<1> HIDE DEF o
<1>3. Good(q, c) /\ c.completed
  BY <1>1, <1>2, CompleteGood
<1> HIDE DEF c
<1>4. Good(q, [c EXCEPT !.at = "done"])
  BY <1>3, DoneGood
<1>5. QED  BY <1>4 DEF c, o

LEMMA ConsumerGood ==
  ASSUME NEW q \in Call, Sound(q), q.at = "stream"
  PROVE  Good(q, [Complete(Abort([q EXCEPT !.dropped = TRUE]), "cancelled")
                    EXCEPT !.at = "done"])
<1> DEFINE x == [q EXCEPT !.dropped = TRUE]
           a == Abort(x)
           c == Complete(a, "cancelled")
<1>1. x \in Call
  BY DEF Call
<1>2. /\ x.at = q.at /\ x.outcome = q.outcome /\ x.completed = q.completed
      /\ x.left = q.left /\ x.whole = q.whole
      /\ x.status = q.status /\ x.tried = q.tried /\ x.answer = q.answer
      /\ x.armed = q.armed /\ x.aborted = q.aborted
  BY DEF Call
<1> HIDE DEF x
<1>3. /\ Sound(x)
      /\ ~x.completed => x.outcome = "none" /\ ~x.aborted
  BY <1>2 DEF Sound, Waiting
<1>4. Good(x, a) /\ a.completed
  BY <1>1, <1>2, <1>3, AbortGood
<1>5. a \in Call /\ "cancelled" \in Outcomes
  BY <1>4 DEF Good, Outcomes
<1> HIDE DEF a
<1>6. c = a
  BY <1>4, <1>5, CompleteFields
<1>7. Good(q, a)
  BY <1>2, <1>4, GoodFrom
<1>8. Good(q, [a EXCEPT !.at = "done"])
  BY <1>4, <1>7, DoneGood
<1>9. QED  BY <1>6, <1>8 DEF c, a, x

(* The client leaves: during the body that ends the call, before it only the
   attempt learns of it. *)
LEMMA ClientGood ==
  ASSUME NEW q \in Call, Sound(q), NEW p,
         LET l == [q EXCEPT !.left = TRUE]
             u == IF l.listening THEN Abort(l) ELSE l
         IN  p = IF Streaming(u) THEN Complete(Abort(u), "cancelled") ELSE u
  PROVE  Good(q, p)
<1> DEFINE l == [q EXCEPT !.left = TRUE]
           a == Abort(l)
           u == IF l.listening THEN a ELSE l
<1>1. p = IF Streaming(u) THEN Complete(Abort(u), "cancelled") ELSE u
  OBVIOUS
<1>2. l \in Call
  BY DEF Call
<1>3. /\ l.at = q.at /\ l.outcome = q.outcome /\ l.completed = q.completed
      /\ l.left /\ l.dropped = q.dropped /\ l.whole = q.whole
      /\ l.status = q.status /\ l.tried = q.tried /\ l.answer = q.answer
      /\ l.armed = q.armed /\ l.aborted = q.aborted /\ q.tried \in Nat
  BY ProxyAssumption DEF Call
<1> HIDE DEF l
<1>4. /\ Sound(l)
      /\ l.at = "stream" /\ ~l.completed => l.outcome = "none" /\ ~l.aborted
  BY <1>3 DEF Sound, Waiting
<1>5. Good(l, l)
  BY <1>2, <1>3, <1>4 DEF Good, Honest, Needed
<1>6. CASE q.at = "stream"
  <2>1. Good(l, a) /\ a.completed
    BY <1>2, <1>3, <1>4, <1>6, AbortGood
  <2>2. a \in Call /\ "cancelled" \in Outcomes
    BY <2>1 DEF Good, Outcomes
  <2> HIDE DEF a
  <2>3. ~Streaming(a) /\ Complete(a, "cancelled") = a
    BY <2>1, <2>2, CompleteFields DEF Streaming
  <2>4. p = a \/ p = l
    BY <1>1, <2>3 DEF a
  <2>5. QED  BY <1>3, <1>5, <2>1, <2>4, GoodFrom
<1>7. CASE q.at # "stream"
  <2>1. ~Streaming(l)
    BY <1>3, <1>7 DEF Streaming
  <2>2. /\ a \in Call /\ SameCourse(l, a) /\ (l.aborted => a = l)
        /\ ~l.aborted => /\ a.armed = l.armed
                         /\ a.completed = l.completed
                         /\ a.outcome = l.outcome
        /\ a.aborted
    BY <1>2, <2>1, AbortFields
  <2> HIDE DEF a
  <2>3. /\ a.at = l.at /\ a.armed = l.armed /\ a.completed = l.completed
        /\ a.outcome = l.outcome
    BY <2>2 DEF SameCourse
  <2>4. Sound(a)
    BY <1>3, <1>4, <1>7, <2>2, <2>3 DEF Sound, Waiting, SameCourse
  <2>5. Good(l, a)
    BY <1>3, <2>2, <2>3, <2>4 DEF Good, Honest, Needed, SameCourse
  <2>6. ~Streaming(a)
    BY <1>3, <1>7, <2>3 DEF Streaming
  <2>7. p = a \/ p = l
    BY <1>1, <2>1, <2>6
  <2>8. QED  BY <1>3, <1>5, <2>5, <2>7, GoodFrom
<1>8. QED  BY <1>6, <1>7

LEMMA TimeoutGood ==
  ASSUME NEW q \in Call, Sound(q), q.armed
  PROVE  Good(q, Abort([q EXCEPT !.armed = FALSE]))
<1> DEFINE x == [q EXCEPT !.armed = FALSE]
           a == Abort(x)
<1>1. x \in Call
  BY DEF Call
<1>2. /\ x.at = q.at /\ x.outcome = q.outcome /\ x.completed = q.completed
      /\ x.left = q.left /\ x.dropped = q.dropped /\ x.whole = q.whole
      /\ x.status = q.status /\ x.tried = q.tried /\ x.answer = q.answer
      /\ ~x.armed /\ x.aborted = q.aborted /\ q.tried \in Nat
  BY ProxyAssumption DEF Call
<1> HIDE DEF x
<1>3. /\ q.outcome = "none" /\ ~q.completed
      /\ q.at = "stream" => ~q.aborted
      /\ q.at \notin {"start", "done"}
  BY DEF Sound
<1>4. CASE q.at = "stream"
  <2>1. Good(x, a)
    BY <1>1, <1>2, <1>3, <1>4, AbortGood
  <2> HIDE DEF a
  <2>2. Good(q, a)
    BY <1>2, <2>1, GoodFrom
  <2>3. QED  BY <2>2 DEF a, x
<1>5. CASE q.at # "stream"
  <2>1. ~Streaming(x)
    BY <1>2, <1>5 DEF Streaming
  <2>2. /\ a \in Call /\ SameCourse(x, a) /\ (x.aborted => a = x)
        /\ ~x.aborted => /\ a.armed = x.armed
                         /\ a.completed = x.completed
                         /\ a.outcome = x.outcome
        /\ a.aborted
    BY <1>1, <2>1, AbortFields
  <2> HIDE DEF a
  <2>3. Sound(a)
    BY <1>2, <1>3, <1>5, <2>2 DEF Sound, Waiting, SameCourse
  <2>4. Honest(q, a) /\ Needed(q, a)
    BY <1>2, <1>3, <2>2 DEF Honest, Needed, SameCourse
  <2>5. QED  BY <2>2, <2>3, <2>4 DEF Good, a, x
<1>6. QED  BY <1>4, <1>5

-----------------------------------------------------------------------------
(* All requests. *)

(* Every step is a good step of one call. *)
LEMMA StepIsGood ==
  ASSUME IInv, NEW r \in Requests,
         \/ Begin(r) \/ FetchResolves(r) \/ FetchRejects(r) \/ Arrived(r)
         \/ TextEnds(r) \/ ReadEnds(r) \/ ReadFails(r) \/ ConsumerCancels(r)
         \/ ClientAborts(r) \/ TimesOut(r)
  PROVE  /\ cursor' \in 0..N
         /\ \E p : req' = [req EXCEPT ![r] = p] /\ Good(req[r], p)
<1> DEFINE q == req[r]
           StepsTo(p) == req' = [req EXCEPT ![r] = p] /\ cursor' = cursor
<1>1. q \in Call /\ Sound(q) /\ cursor \in 0..N
  BY DEF IInv, TypeOK
<1>2. SUFFICES cursor' \in 0..N
               /\ \E p : req' = [req EXCEPT ![r] = p] /\ Good(q, p)
  OBVIOUS
<1>3. CASE Begin(r)
  <2>1. /\ req' = [req EXCEPT ![r] = Attempt([q EXCEPT !.first = cursor])]
        /\ cursor' = Rotated /\ q.at = "start"
    BY <1>3 DEF Begin
  <2>2. Rotated \in 0..N
    BY <1>1, ProxyAssumption DEF Rotated
  <2>3. Good(q, Attempt([q EXCEPT !.first = cursor]))
    BY <1>1, <2>1, BeginGood
  <2>4. QED  BY <2>1, <2>2, <2>3
<1>4. CASE FetchResolves(r)
  <2>1. PICK status \in Statuses :
          StepsTo([q EXCEPT !.at = "arrived", !.status = status])
    BY <1>4 DEF FetchResolves, Becomes
  <2>2. Good(q, [q EXCEPT !.at = "arrived", !.status = status])
    BY <1>1, <1>4, ResolvesGood DEF FetchResolves
  <2>3. QED  BY <1>1, <2>1, <2>2
<1>5. CASE FetchRejects(r) \/ TextEnds(r)
  <2>1. StepsTo(AttemptFailed(q)) /\ q.at \in {"fetch", "text"}
    BY <1>5 DEF FetchRejects, TextEnds, Becomes
  <2>2. Good(q, AttemptFailed(q))
    BY <1>1, <2>1, AttemptFailedGood
  <2>3. QED  BY <1>1, <2>1, <2>2
<1>6. CASE Arrived(r)
  <2>1. /\ q.at = "arrived"
        /\ \/ StepsTo([q EXCEPT !.at = "text"])
           \/ StepsTo(Wrapped(q)) \/ StepsTo(Bodiless(q))
    BY <1>6 DEF Arrived, Becomes
  <2>2. /\ Good(q, [q EXCEPT !.at = "text"])
        /\ Good(q, Wrapped(q)) /\ Good(q, Bodiless(q))
    BY <1>1, <2>1, TextGood, WrappedGood, BodilessGood
  <2>3. QED  BY <1>1, <2>1, <2>2
<1>7. CASE ReadEnds(r)
  <2> DEFINE p == [Complete([q EXCEPT !.whole = TRUE],
                            IF Left(q) THEN "cancelled" ELSE "succeeded")
                     EXCEPT !.at = "done"]
  <2>1. StepsTo(p) /\ q.at = "stream"
    BY <1>7 DEF ReadEnds, Becomes
  <2>2. Good(q, p)
    BY <1>1, <2>1, ReadEndsGood
  <2> HIDE DEF p
  <2>3. QED  BY <1>1, <2>1, <2>2
<1>8. CASE ReadFails(r)
  <2> DEFINE p == [Complete(q, IF Left(q) THEN "cancelled" ELSE "failed")
                     EXCEPT !.at = "done"]
  <2>1. StepsTo(p) /\ q.at = "stream"
    BY <1>8 DEF ReadFails, Becomes
  <2>2. Good(q, p)
    BY <1>1, <2>1, ReadFailsGood
  <2> HIDE DEF p
  <2>3. QED  BY <1>1, <2>1, <2>2
<1>9. CASE ConsumerCancels(r)
  <2> DEFINE p == [Complete(Abort([q EXCEPT !.dropped = TRUE]), "cancelled")
                     EXCEPT !.at = "done"]
  <2>1. StepsTo(p) /\ q.at = "stream"
    BY <1>9 DEF ConsumerCancels, Becomes
  <2>2. Good(q, p)
    BY <1>1, <2>1, ConsumerGood
  <2> HIDE DEF p
  <2>3. QED  BY <1>1, <2>1, <2>2
<1>10. CASE ClientAborts(r)
  <2> DEFINE l == [q EXCEPT !.left = TRUE]
             u == IF l.listening THEN Abort(l) ELSE l
             p == IF Streaming(u) THEN Complete(Abort(u), "cancelled") ELSE u
  <2>1. StepsTo(p)
    BY <1>10 DEF ClientAborts, Becomes
  <2>2. Good(q, p)
    BY <1>1, ClientGood
  <2> HIDE DEF p
  <2>3. QED  BY <1>1, <2>1, <2>2
<1>11. CASE TimesOut(r)
  <2>1. StepsTo(Abort([q EXCEPT !.armed = FALSE])) /\ q.armed
    BY <1>11 DEF TimesOut, Becomes
  <2>2. Good(q, Abort([q EXCEPT !.armed = FALSE]))
    BY <1>1, <2>1, TimeoutGood
  <2>3. QED  BY <1>1, <2>1, <2>2
<1>12. QED
  BY <1>3, <1>4, <1>5, <1>6, <1>7, <1>8, <1>9, <1>10, <1>11

(* A step moves one call, well, or nothing at all. *)
LEMMA NextIsGood ==
  ASSUME IInv, [Next]_vars
  PROVE  /\ cursor' \in 0..N
         /\ \/ \E r \in Requests : \E p :
                 req' = [req EXCEPT ![r] = p] /\ Good(req[r], p)
            \/ req' = req
<1>1. CASE Next
  <2>1. PICK r \in Requests :
          \/ Begin(r) \/ FetchResolves(r) \/ FetchRejects(r) \/ Arrived(r)
          \/ TextEnds(r) \/ ReadEnds(r) \/ ReadFails(r)
          \/ ConsumerCancels(r) \/ ClientAborts(r) \/ TimesOut(r)
    BY <1>1 DEF Next
  <2>2. QED  BY <2>1, StepIsGood
<1>2. CASE UNCHANGED vars
  BY <1>2 DEF vars, IInv, TypeOK
<1>3. QED  BY <1>1, <1>2

LEMMA InitHolds == Init => IInv
<1>1. SUFFICES ASSUME Init PROVE IInv
  OBVIOUS
<1>2. NewCall \in Call
  BY ProxyAssumption DEF NewCall, Call
<1>3. Sound(NewCall)
  BY DEF NewCall, Sound, Waiting
<1>4. cursor \in 0..N
  BY <1>1, ProxyAssumption DEF Init
<1>5. QED  BY <1>1, <1>2, <1>3, <1>4 DEF Init, IInv, TypeOK

LEMMA StepHolds == IInv /\ [Next]_vars => IInv'
<1>1. SUFFICES ASSUME IInv, [Next]_vars PROVE IInv'
  OBVIOUS
<1>2. req \in [Requests -> Call] /\ \A r \in Requests : Sound(req[r])
  BY <1>1 DEF IInv, TypeOK
<1>3. cursor' \in 0..N
  BY <1>1, NextIsGood
<1>4. ASSUME NEW r \in Requests, NEW p, req' = [req EXCEPT ![r] = p],
             Good(req[r], p)
      PROVE  req' \in [Requests -> Call] /\ \A s \in Requests : Sound(req'[s])
  BY <1>2, <1>4 DEF Good
<1>5. req' \in [Requests -> Call] /\ \A s \in Requests : Sound(req'[s])
  BY <1>1, <1>2, <1>4, NextIsGood
<1>6. QED  BY <1>3, <1>5 DEF IInv, TypeOK

(* What every step keeps of every call. *)
LEMMA EachIsGood ==
  ASSUME IInv, [Next]_vars, NEW r \in Requests
  PROVE  Honest(req[r], req'[r]) /\ Needed(req[r], req'[r])
<1>1. req \in [Requests -> Call]
  BY DEF IInv, TypeOK
<1>2. Honest(req[r], req[r]) /\ Needed(req[r], req[r])
  <2>1. req[r].tried \in Nat
    BY <1>1, ProxyAssumption DEF Call
  <2>2. QED  BY <2>1 DEF Honest, Needed
<1>3. ASSUME NEW s \in Requests, NEW p, req' = [req EXCEPT ![s] = p],
             Good(req[s], p)
      PROVE  Honest(req[r], req'[r]) /\ Needed(req[r], req'[r])
  <2>1. req'[r] = IF r = s THEN p ELSE req[r]
    BY <1>1, <1>3
  <2>2. QED  BY <1>2, <1>3, <2>1 DEF Good
<1>4. QED  BY <1>2, <1>3, NextIsGood

-----------------------------------------------------------------------------
(* Theorems *)

(* A call and the cursor stay in the states the code can name, whatever
   order ends, errors, timeouts and aborts come in. *)
THEOREM ProxyTypeCorrect == Spec => []TypeOK
<1>1. IInv => TypeOK
  BY DEF IInv
<1>2. QED  BY InitHolds, StepHolds, <1>1, PTL DEF Spec

(* A lease is reported to have succeeded only for a whole answer that went
   well (openai-upstreams.ts 101-119, 185-265). *)
THEOREM SuccessIsWhole == Spec => []SucceededIsWhole
<1>1. IInv => SucceededIsWhole
  BY DEF IInv, Sound, SucceededIsWhole
<1>2. QED  BY InitHolds, StepHolds, <1>1, PTL DEF Spec

(* Whatever a request waits for, a timer limits it, and no timer outlives
   it. *)
THEOREM WaitingIsTimed == Spec => []TimerWhileWaiting
<1>1. IInv => TimerWhileWaiting
  BY DEF IInv, Sound, TimerWhileWaiting
<1>2. QED  BY InitHolds, StepHolds, <1>1, PTL DEF Spec

(* No attempt is made for nobody. *)
THEOREM AttemptsAreNeeded == Spec => NothingSentInVain
<1>1. IInv /\ [Next]_vars =>
        [\A r \in Requests :
           req'[r].tried > req[r].tried =>
             ~req[r].left /\ req[r].answer = "none"]_vars
  BY EachIsGood DEF Needed
<1>2. QED  BY InitHolds, StepHolds, <1>1, PTL DEF Spec, NothingSentInVain

(* Cancelled is what was left, and nothing else is. *)
THEOREM CancellationIsTrue == Spec => CancelledMeansLeft
<1>1. IInv /\ [Next]_vars =>
        [\A r \in Requests :
           /\ N > 0
           /\ req[r].outcome = "none"
           /\ req'[r].outcome # "none"
           => (req'[r].outcome = "cancelled"
                 <=> req'[r].left \/ req'[r].dropped)]_vars
  BY EachIsGood DEF Honest
<1>2. QED  BY InitHolds, StepHolds, <1>1, PTL DEF Spec, CancelledMeansLeft
=============================================================================
