----------------------------- MODULE OpenAiRoutes ----------------------------
(***************************************************************************)
(* What becomes of a request: the OpenAI routes (openai-routes.ts) and the *)
(* tools submit_job and wait_job (tools/index.ts), from the parsed body to *)
(* the status and body of the answer.  Jobs are those of JobPromise, which *)
(* GatewayJobs implements; the work items of proxied requests are here     *)
(* only their states (see GpuCoordinator and OpenAiProxy).                 *)
(*                                                                         *)
(* A definition marked "mutant" is the next one with a plausible bug.      *)
(***************************************************************************)
EXTENDS Naturals, FiniteSets, Sequences

CONSTANTS
  Requests,
  Managed,     \* models of gpuCoordinator.hasModel
  Audio,       \* those that also make speech
  Pooled,      \* models of upstreamPool.hasModel
  Local,       \* models served by jobs: LoRA aliases, or unknown
  Asks,        \* Asks[r]: the kinds of request r may be
  MaxQueue,    \* settings.maxQueue
  ListLimit    \* the rows cancelOpenAiRequests looks at

(* Chat stands for the chat and responses routes, tool for submit_job and  *)
(* wait_job. *)
Kinds == {"chat", "speech", "tool"}

ASSUME RoutesAssumption ==
  /\ IsFiniteSet(Requests)
  /\ Audio \subseteq Managed
  /\ Managed \cap Pooled = {} /\ (Managed \cup Pooled) \cap Local = {}
  /\ Managed \cup Pooled \cup Local # {}
  /\ Asks \in [Requests -> SUBSET Kinds]
  /\ MaxQueue \in Nat /\ ListLimit \in Nat

VARIABLES
  route,       \* route[r]: the locals of the handler of r
  item,        \* item[r]: the state of the work item of a proxied request
  created,     \* the requests with a work item, oldest first
  status, told \* JobPromise, one job of the same name for each request

vars == <<route, item, created, status, told>>

Job == INSTANCE JobPromise WITH Jobs <- Requests, answer <- told

Models == Managed \cup Pooled \cup Local
Live == {"queued", "running"}

(* What of a body decides: a stop command is never a stream here, and how  *)
(* a proxied answer streams is the subject of OpenAiProxy.                 *)
Form ==
  {f \in [kind : Kinds, model : Models, stop : BOOLEAN, stream : BOOLEAN] :
     /\ f.stop => f.kind = "chat" /\ ~f.stream
     /\ f.stream => f.kind = "chat" /\ f.model \in Local}

Places ==
  {"new", "proxied", "pooled", "start", "late", "end", "stream", "done"}
HttpStatuses == {200, 400, 404, 409, 429, 499, 500, 503, 504}
Bodies == {"none", "text", "error", "stopped", "pending"}

Route ==
  [at : Places, form : Form, http : {0} \cup HttpStatuses, body : Bodies]

AnyForm == CHOOSE f \in Form : TRUE

TypeOK ==
  /\ route \in [Requests -> Route]
  /\ \A r \in Requests : route[r].at = "done" => route[r].http # 0
  /\ item \in [Requests -> {"absent", "ended"} \cup Live]
  /\ created \in Seq(Requests)
  /\ status \in [Requests -> Job!Statuses]
  /\ told \in [Requests -> {"none"} \cup Job!Outcomes]

Init ==
  /\ route = [r \in Requests |->
       [at |-> "new", form |-> AnyForm, http |-> 0, body |-> "none"]]
  /\ item = [r \in Requests |-> "absent"]
  /\ created = <<>>
  /\ Job!Init

HasLiveItem(r) == item[r] \in Live \/ status[r] \in Live

(* The answer, or the first part of it, is given. *)
Answer(q, http, body) ==
  [q EXCEPT !.at = "done", !.http = http, !.body = body]

Goes(r, q) == route' = [route EXCEPT ![r] = q]

-----------------------------------------------------------------------------
(* Arrival: the first test that holds decides. *)

Arriving(r, f) == route[r].at = "new" /\ f.kind \in Asks[r]

Invalid(r, f) ==
  /\ Arriving(r, f) /\ f.kind # "tool"
  /\ Goes(r, Answer([route[r] EXCEPT !.form = f], 400, "error"))
  /\ UNCHANGED <<item, created, status, told>>

(* mutant: only what waits is cancelled *)
StoppedQueued(f) ==
  {r \in Requests : /\ item[r] = "queued" \/ status[r] = "queued"
                    /\ route[r].form.kind # "tool"
                    /\ route[r].form.model = f.model}

(* The items cancelOpenAiRequests finds among the newest rows. *)
Stopped(f) ==
  LET first == Len(created) - ListLimit
      listed == {created[k] : k \in {n \in DOMAIN created : n > first}} IN
  {r \in listed : /\ HasLiveItem(r)
                  /\ route[r].form.kind # "tool"
                  /\ route[r].form.model = f.model}

StopCommand(r, f) ==
  /\ Arriving(r, f) /\ f.kind = "chat" /\ f.stop
  /\ item' = [n \in Requests |->
                IF n \in Stopped(f) /\ item[n] \in Live THEN "ended"
                ELSE item[n]]
  /\ route' = [n \in Requests |->
       IF n = r THEN Answer([route[r] EXCEPT !.form = f], 200, "stopped")
       ELSE IF n \in Stopped(f) /\ item[n] \in Live
            THEN Answer(route[n], 499, "error")
            ELSE route[n]]
  /\ Job!End({n \in Stopped(f) : status[n] \in Live}, "cancelled")
  /\ UNCHANGED created

(* gpuCoordinator.proxyChatCompletions, proxyAudioSpeech: acquire. *)
Proxied(r, f) ==
  /\ Arriving(r, f) /\ f.kind # "tool"
  /\ ~(f.kind = "chat" /\ f.stop)
  /\ f.model \in IF f.kind = "speech" THEN Audio ELSE Managed
  /\ Goes(r, [route[r] EXCEPT !.at = "proxied", !.form = f])
  /\ item' = [item EXCEPT ![r] = "queued"]
  /\ created' = Append(created, r)
  /\ UNCHANGED <<status, told>>

NoSpeechModel(r, f) ==
  /\ Arriving(r, f) /\ f.kind = "speech" /\ f.model \notin Audio
  /\ Goes(r, Answer([route[r] EXCEPT !.form = f], 404, "error"))
  /\ UNCHANGED <<item, created, status, told>>

(* upstreamPool.proxyChatCompletions: no work item. *)
PoolProxied(r, f) ==
  /\ Arriving(r, f) /\ f.kind = "chat" /\ ~f.stop
  /\ f.model \in Pooled
  /\ Goes(r, [route[r] EXCEPT !.at = "pooled", !.form = f])
  /\ UNCHANGED <<item, created, status, told>>

(* submitJob: the queue is full, or a job is made and waited for.  A tool  *)
(* may name a managed model; its job runs there.                           *)
Submits(r, f) ==
  /\ Arriving(r, f)
  /\ f.kind = "tool" \/ (f.kind = "chat" /\ ~f.stop /\ f.model \in Local)
  /\ IF Cardinality({n \in Requests : HasLiveItem(n)}) >= MaxQueue
     THEN /\ Goes(r, Answer([route[r] EXCEPT !.form = f], 429, "error"))
          /\ UNCHANGED <<created, status, told>>
     ELSE /\ Goes(r, [route[r] EXCEPT !.form = f,
                        !.at = IF f.kind = "tool" THEN "end" ELSE "start"])
          /\ created' = Append(created, r)
          /\ Job!Accept(r)
  /\ UNCHANGED item

-----------------------------------------------------------------------------
(* Proxied requests: admitted, answered, refused or given up. *)

Admitted(r) ==
  /\ item[r] = "queued"
  /\ item' = [item EXCEPT ![r] = "running"]
  /\ UNCHANGED <<route, created, status, told>>

ProxyAnswers(r) ==
  /\ route[r].at = "proxied"
  /\ \/ item[r] = "running" /\ Goes(r, Answer(route[r], 200, "text"))
     \/ item[r] = "running" /\ \E s \in {409, 499, 503, 504} :
          Goes(r, Answer(route[r], s, "error"))
     \/ item[r] = "queued" /\ \E s \in {499, 503, 504} :
          Goes(r, Answer(route[r], s, "error"))
  /\ item' = [item EXCEPT ![r] = "ended"]
  /\ UNCHANGED <<created, status, told>>

PoolAnswers(r) ==
  /\ route[r].at = "pooled"
  /\ \/ Goes(r, Answer(route[r], 200, "text"))
     \/ Goes(r, Answer(route[r], 503, "error"))
  /\ UNCHANGED <<item, created, status, told>>

-----------------------------------------------------------------------------
(* Jobs: what the gateway does with them, and what the routes see. *)

JobRuns(r) == Job!Run(r) /\ UNCHANGED <<route, item, created>>

(* Only the routes' own queue wait times a job out. *)
JobEnds(r) ==
  /\ \E outcome \in {"succeeded", "failed", "cancelled"} :
       /\ outcome = "succeeded" => status[r] = "running"
       /\ status[r] \in Live
       /\ Job!End({r}, outcome)
  /\ UNCHANGED <<route, item, created>>

(* waitForOpenAiJobStart gives up a job that has not started. *)
QueueWaitExceeded(r) ==
  /\ route[r].at = "start" /\ status[r] = "queued"
  /\ Goes(r, [route[r] EXCEPT !.at = "late"])
  /\ Job!End({r}, "timed_out")
  /\ UNCHANGED <<item, created>>

(* mutant: a stream waits for the start only *)
StartSeenRunning(r) ==
  /\ route[r].at = "start"
  /\ status[r] = "running"
  /\ Goes(r, IF route[r].form.stream
             THEN [route[r] EXCEPT !.at = "stream", !.http = 200]
             ELSE [route[r] EXCEPT !.at = "end"])
  /\ UNCHANGED <<item, created, status, told>>

(* It started: the answer begins, or waitForJob goes on. *)
StartSeen(r) ==
  /\ route[r].at = "start"
  /\ status[r] = "running" \/ (status[r] = "succeeded" /\ route[r].form.stream)
  /\ Goes(r, IF route[r].form.stream
             THEN [route[r] EXCEPT !.at = "stream", !.http = 200]
             ELSE [route[r] EXCEPT !.at = "end"])
  /\ UNCHANGED <<item, created, status, told>>

(* ensureSuccessOrError *)
StatusOf(outcome) ==
  CASE outcome = "succeeded" -> 200
    [] outcome = "timed_out" -> 504
    [] OTHER -> 500

(* The job has ended before the answer began. *)
EndSeen(r) ==
  LET q == route[r]
      http == IF q.form.kind = "tool" THEN 200 ELSE StatusOf(status[r]) IN
  /\ q.at \in {"start", "late", "end"}
  /\ ~(q.at = "start" /\ q.form.stream /\ status[r] = "succeeded")
  /\ Job!Tell(r)
  /\ Goes(r, Answer(q, http, IF status[r] = "succeeded" THEN "text"
                             ELSE "error"))
  /\ UNCHANGED <<item, created>>

(* mutant: the stream sends what there is *)
StreamEndsUnchecked(r) ==
  /\ route[r].at = "stream"
  /\ Job!Tell(r)
  /\ Goes(r, Answer(route[r], 200, "text"))
  /\ UNCHANGED <<item, created>>

(* The stream has begun: an error is an event of it. *)
StreamEnds(r) ==
  /\ route[r].at = "stream"
  /\ Job!Tell(r)
  /\ Goes(r, Answer(route[r], 200,
                    IF status[r] = "succeeded" THEN "text" ELSE "error"))
  /\ UNCHANGED <<item, created>>

(* wait_job with a timeout: the client may ask again. *)
WaitGivesUp(r) ==
  /\ route[r].at = "end" /\ route[r].form.kind = "tool"
  /\ status[r] \in Live
  /\ Goes(r, Answer(route[r], 200, "pending"))
  /\ UNCHANGED <<item, created, status, told>>

Arrives(r, f) ==
  \/ Invalid(r, f) \/ StopCommand(r, f) \/ Proxied(r, f) \/ NoSpeechModel(r, f)
  \/ PoolProxied(r, f) \/ Submits(r, f)

Answers(r) ==
  \/ ProxyAnswers(r) \/ PoolAnswers(r) \/ StartSeen(r) \/ EndSeen(r)
  \/ StreamEnds(r)

Next ==
  \E r \in Requests :
    \/ \E f \in Form : Arrives(r, f)
    \/ Answers(r) \/ Admitted(r) \/ QueueWaitExceeded(r) \/ WaitGivesUp(r)
    \/ JobRuns(r) \/ JobEnds(r)

(* Proxied requests end (OpenAiProxy), jobs end (JobPromise!Prompt), an    *)
(* update or the poll interval wakes who waits.                            *)
Fairness ==
  \A r \in Requests : WF_vars(Answers(r)) /\ WF_vars(JobEnds(r))

Spec == Init /\ [][Next]_vars

FairSpec == Spec /\ Fairness

-----------------------------------------------------------------------------
(* An answer says what became of the job: text if it succeeded and only    *)
(* then, 504 if it was given up in the queue and only then, also when the  *)
(* status line was sent before the job ended, and when a stop command or a *)
(* cancellation fell between (waitForStartedThenTerminal, ReadableStream). *)
AnswersAreTrue ==
  \A r \in Requests :
    LET q == route[r] IN
    q.at = "done" /\ status[r] # "absent" /\ q.body # "pending" =>
      /\ told[r] = status[r]
      /\ q.body = "text" <=> status[r] = "succeeded"
      /\ q.http = 504 <=> status[r] = "timed_out" /\ q.form.kind # "tool"
      /\ q.http = 200 => \/ q.form.stream \/ q.form.kind = "tool"
                         \/ status[r] = "succeeded"

InFlight(r) == route[r].at \notin {"new", "done"}

Stops(r) == route[r].at = "new" /\ route'[r].body = "stopped"

(* A stop command ends the OpenAI requests of its model, waiting, loading  *)
(* or running, and no other request (README.md:88).  It knows of them what *)
(* the newest ListLimit work items say: a request proxied to an upstream   *)
(* that is not managed has none, and one older than those rows is missed.  *)
StopEndsRequests ==
  [][\A r \in Requests : Stops(r) =>
       \A n \in Requests \ {r} :
         IF /\ InFlight(n) /\ route[n].at # "pooled"
            /\ route[n].form.kind # "tool"
            /\ route[n].form.model = route'[r].form.model
         THEN route'[n].at = "done" \/ status'[n] \in Job!Outcomes
         ELSE UNCHANGED <<route[n], item[n], status[n]>>]_vars

(* Every request is answered, and what answers it is not held up by stops, *)
(* cancellations or a full queue.                                          *)
EveryRequestAnswered == \A r \in Requests : InFlight(r) ~> ~InFlight(r)

=============================================================================
