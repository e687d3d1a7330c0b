----------------------------- MODULE OpenAiProxy -----------------------------
(***************************************************************************)
(* Proxied requests: proxyOpenAiJson tries the upstreams of a model one    *)
(* after the other, wrapResponseBody hands the body of the one that        *)
(* answered to the client, and OpenAiUpstreamPool rotates the upstreams    *)
(* (openai-upstreams.ts).  For a managed runtime onComplete releases the   *)
(* GPU lease (gpu-coordinator.ts 659-669): what is said of it here is what *)
(* GpuCoordinator assumes of a lease's holder.                             *)
(*                                                                         *)
(* A request ends by the end of the body, an error, the timeout, an abort  *)
(* of the client or of the consumer of the response, in any order.  Chunks *)
(* of the body change nothing and are left out.                            *)
(*                                                                         *)
(* A definition marked "mutant" is the next one with a plausible bug.      *)
(***************************************************************************)
EXTENDS Naturals, FiniteSets

CONSTANTS
  Requests,
  N            \* upstreams of the model, in the order of the configuration

ASSUME ProxyAssumption == IsFiniteSet(Requests) /\ N \in Nat

VARIABLES
  req,         \* req[r]: the locals of the call that serves r (Call below)
  cursor       \* this.cursors of the model

vars == <<req, cursor>>

Outcomes == {"succeeded", "failed", "cancelled"}
Statuses == {"ok", "error", "retryable"}   \* response.ok, RETRYABLE_STATUSES
Answers == {"404", "499", "503", "proxied"}

Call ==
  [ at : {"start", "fetch", "arrived", "text", "stream", "done"},
    first : 0..N,            \* where its rotation of the upstreams begins
    tried : 0..N,            \* how many it has sent the request to
    status : {"none"} \cup Statuses,
    whole : BOOLEAN,         \* the upstream's body has ended
    armed : BOOLEAN,         \* the timeout of this attempt is set
    listening : BOOLEAN,     \* abortUpstream listens to the client's signal
    aborted : BOOLEAN,       \* the controller of this attempt is aborted
    left : BOOLEAN,          \* the client's signal is aborted
    dropped : BOOLEAN,       \* consumerCancelled
    completed : BOOLEAN,     \* wrapResponseBody has completed
    outcome : {"none"} \cup Outcomes,     \* what onComplete was told
    answer : {"none"} \cup Answers ]

NewCall ==
  [ at |-> "start", first |-> 0, tried |-> 0, status |-> "none",
    whole |-> FALSE, armed |-> FALSE, listening |-> FALSE, aborted |-> FALSE,
    left |-> FALSE, dropped |-> FALSE, completed |-> FALSE,
    outcome |-> "none", answer |-> "none" ]

-----------------------------------------------------------------------------
(* The calls one step makes, from a call's state to its next. *)

Finish(q, outcome) ==
  IF q.outcome = "none" THEN [q EXCEPT !.outcome = outcome] ELSE q

CleanupListener(q) == [q EXCEPT !.listening = FALSE]   \* mutant: timer kept

Cleanup(q) == [q EXCEPT !.armed = FALSE, !.listening = FALSE]

CompletedAsTold(q, outcome) == outcome           \* mutant: status forgotten

(* onComplete of wrapResponseBody, as proxyOpenAiJson passes it. *)
CompletedAs(q, outcome) ==
  IF outcome = "cancelled" THEN "cancelled"
  ELSE IF q.status = "ok" THEN outcome ELSE "failed"

Complete(q, outcome) ==
  IF q.completed THEN q
  ELSE Finish(Cleanup([q EXCEPT !.completed = TRUE]), CompletedAs(q, outcome))

ClientOnlyLeft(q) == q.left                      \* mutant: consumer forgotten

Left(q) == q.left \/ q.dropped

Streaming(q) == q.at = "stream" /\ ~q.completed

(* upstreamController.abort(), with onUpstreamAbort when a body is wrapped. *)
Abort(q) ==
  IF q.aborted THEN q
  ELSE LET a == [q EXCEPT !.aborted = TRUE]
       IN  IF Streaming(a)
           THEN Complete(a, IF Left(a) THEN "cancelled" ELSE "failed")
           ELSE a

Answered(q, answer) == [q EXCEPT !.at = "done", !.answer = answer]

AttemptAnyway(q) ==                              \* mutant: abort not checked
  IF q.tried = N THEN Answered(Finish(q, "failed"), "503")
  ELSE [q EXCEPT !.at = "fetch", !.tried = @ + 1, !.status = "none",
                 !.armed = TRUE, !.listening = TRUE, !.aborted = FALSE]

(* The head of the loop over the upstreams, and what follows the loop. *)
Attempt(q) ==
  IF q.tried = N
  THEN Answered(Finish(q, "failed"), IF N = 0 THEN "404" ELSE "503")
  ELSE IF q.left THEN Answered(Finish(q, "cancelled"), "499")
  ELSE [q EXCEPT !.at = "fetch", !.tried = @ + 1, !.status = "none",
                 !.armed = TRUE, !.listening = TRUE, !.aborted = FALSE]

(* An attempt without a response to hand on. *)
AttemptFailed(q) ==
  LET c == Cleanup(q)
  IN  IF c.left THEN Answered(Finish(c, "cancelled"), "499") ELSE Attempt(c)

WrappedUnchecked(q) ==                           \* mutant: lines 230-235 gone
  [q EXCEPT !.at = "stream", !.answer = "proxied"]

(* wrapResponseBody on a body; an abort may have come before its listeners. *)
Wrapped(q) ==
  LET w == [q EXCEPT !.at = "stream", !.answer = "proxied"]
  IN  IF w.left \/ w.aborted
      THEN Complete([w EXCEPT !.aborted = TRUE],
                    IF Left(w) THEN "cancelled" ELSE "failed")
      ELSE w

(* wrapResponseBody on a response without a body. *)
Bodiless(q) ==
  LET outcome == IF q.left THEN "cancelled"
                 ELSE IF q.aborted THEN "failed" ELSE "succeeded"
  IN  Answered(Complete([q EXCEPT !.whole = TRUE], outcome), "proxied")

-----------------------------------------------------------------------------
Init ==
  /\ req = [r \in Requests |-> NewCall]
  /\ cursor = 0

Rotated == IF N <= 1 THEN 0 ELSE (cursor + 1) % N

(* orderedUpstreams, then the call. *)
Begin(r) ==
  /\ req[r].at = "start"
  /\ req' = [req EXCEPT ![r] = Attempt([@ EXCEPT !.first = cursor])]
  /\ cursor' = Rotated

Becomes(r, q) == req' = [req EXCEPT ![r] = q] /\ UNCHANGED cursor

(* fetch() resolves; what awaits it runs in a step of its own. *)
FetchResolves(r) ==
  /\ req[r].at = "fetch" /\ ~req[r].aborted
  /\ \E status \in Statuses :
       Becomes(r, [req[r] EXCEPT !.at = "arrived", !.status = status])

(* fetch() rejects: of itself, or because the controller was aborted. *)
FetchRejects(r) ==
  /\ req[r].at = "fetch"
  /\ Becomes(r, AttemptFailed(req[r]))

Arrived(r) ==
  /\ req[r].at = "arrived"
  /\ IF req[r].status = "retryable"
     THEN Becomes(r, [req[r] EXCEPT !.at = "text"])
     ELSE Becomes(r, Wrapped(req[r])) \/ Becomes(r, Bodiless(req[r]))

(* The body of a retryable answer is read, or the read is aborted. *)
TextEnds(r) ==
  /\ req[r].at = "text"
  /\ Becomes(r, AttemptFailed(req[r]))

ReadEnds(r) ==
  /\ req[r].at = "stream"
  /\ Becomes(r, [Complete([req[r] EXCEPT !.whole = TRUE],
                          IF Left(req[r]) THEN "cancelled" ELSE "succeeded")
                   EXCEPT !.at = "done"])

ReadFails(r) ==
  /\ req[r].at = "stream"
  /\ Becomes(r, [Complete(req[r], IF Left(req[r]) THEN "cancelled" ELSE "failed")
                   EXCEPT !.at = "done"])

(* The consumer of the response cancels it. *)
ConsumerCancels(r) ==
  /\ req[r].at = "stream"
  /\ Becomes(r, [Complete(Abort([req[r] EXCEPT !.dropped = TRUE]), "cancelled")
                   EXCEPT !.at = "done"])

(* The client's signal: abortUpstream and onClientAbort, if they listen. *)
ClientAborts(r) ==
  /\ ~req[r].left
  /\ LET l == [req[r] EXCEPT !.left = TRUE]
         u == IF l.listening THEN Abort(l) ELSE l
     IN  Becomes(r, IF Streaming(u) THEN Complete(Abort(u), "cancelled") ELSE u)

(* The timeout of the attempt, streaming included. *)
TimesOut(r) ==
  /\ req[r].armed
  /\ Becomes(r, Abort([req[r] EXCEPT !.armed = FALSE]))

Next ==
  \E r \in Requests :
    \/ Begin(r) \/ FetchResolves(r) \/ FetchRejects(r) \/ Arrived(r)
    \/ TextEnds(r) \/ ReadEnds(r) \/ ReadFails(r) \/ ConsumerCancels(r)
    \/ ClientAborts(r) \/ TimesOut(r)

Spec == Init /\ [][Next]_vars

(***************************************************************************)
(* The timer fires, settled promises are seen and an aborted fetch or read *)
(* rejects.  Nothing is assumed of upstreams, clients and consumers.       *)
(***************************************************************************)
Fairness ==
  \A r \in Requests :
    /\ WF_vars(TimesOut(r))
    /\ WF_vars(Arrived(r))
    /\ WF_vars(req[r].aborted /\ FetchRejects(r))
    /\ WF_vars(req[r].aborted /\ TextEnds(r))

FairSpec == Spec /\ Fairness

-----------------------------------------------------------------------------
(* Properties *)

(* Every value stays in its type. *)
TypeOK == req \in [Requests -> Call] /\ cursor \in 0..N

(* A request counts as cancelled exactly when its client or the consumer of *)
(* its response had left as it completed: not for a timeout, an upstream    *)
(* that hangs up, or an abort between two attempts that comes too late.     *)
CancelledMeansLeft ==
  [][\A r \in Requests :
       /\ N > 0
       /\ req[r].outcome = "none"
       /\ req'[r].outcome # "none"
       => (req'[r].outcome = "cancelled" <=> req'[r].left \/ req'[r].dropped)
    ]_vars

(* A request counts as succeeded only when an upstream answered well and    *)
(* its whole body was read before any timeout or abort.                     *)
SucceededIsWhole ==
  \A r \in Requests :
    req[r].outcome = "succeeded" => req[r].status = "ok" /\ req[r].whole

(* No upstream is asked for a client that has left, and none after one has  *)
(* been handed on to the client.                                            *)
NothingSentInVain ==
  [][\A r \in Requests :
       req'[r].tried > req[r].tried => ~req[r].left /\ req[r].answer = "none"
    ]_vars

(* A completed request keeps no timer, and an unanswered one that waits for *)
(* an upstream has one: nothing waits without a limit.                      *)
TimerWhileWaiting ==
  \A r \in Requests :
    /\ req[r].outcome # "none" => ~req[r].armed
    /\ req[r].at \in {"fetch", "text"} => req[r].armed \/ req[r].aborted
    /\ req[r].at = "stream" => req[r].armed \/ req[r].completed

(* Every request completes, so every lease is returned: an upstream that    *)
(* never answers and a client that never reads cannot keep it.              *)
EveryRequestCompletes ==
  \A r \in Requests : req[r].at # "start" ~> req[r].outcome # "none"
==============================================================================
