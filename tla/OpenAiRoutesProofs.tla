-------------------------- MODULE OpenAiRoutesProofs -------------------------
(***************************************************************************)
(* Proofs about OpenAiRoutes, for every set of requests and models and     *)
(* every limit.  The invariant says of each place a handler can be in what *)
(* its job and its work item may be, and that whoever has one is listed.   *)
(***************************************************************************)
EXTENDS OpenAiRoutes, SequenceTheorems, FunctionTheorems, FiniteSetTheorems,
        TLAPS

(* What the handler q of a request, the state s of its job, the outcome w  *)
(* its client was told and its work item i agree on.                       *)
Agrees(q, s, w, i) ==
  /\ q.at \in {"new", "proxied", "pooled"} => s = "absent"
  /\ q.at \in {"start", "late", "end", "stream"} =>
       s # "absent" /\ s # "pruned"
  /\ q.at = "start" => s # "timed_out"
  /\ q.at = "stream" => q.form.stream /\ s # "timed_out"
  /\ q.at \in {"start", "late"} => q.form.kind # "tool"
  /\ q.at = "late" => s = "timed_out"
  /\ s = "timed_out" => q.at \in {"late", "done"} /\ q.form.kind # "tool"
  /\ q.at = "done" /\ s # "absent" /\ q.body # "pending" =>
       /\ w = s /\ s \in Job!Outcomes
       /\ q.body = "text" <=> s = "succeeded"
       /\ q.http = 504 <=> s = "timed_out" /\ q.form.kind # "tool"
       /\ q.http = 200 =>
            q.form.stream \/ q.form.kind = "tool" \/ s = "succeeded"
  /\ i \in Live <=> q.at = "proxied"
  /\ q.at # "done" => q.body # "stopped"
  /\ q.at = "done" /\ q.body = "pending" => q.form.kind = "tool"

AllAgree ==
  \A r \in Requests : Agrees(route[r], status[r], told[r], item[r])

(* The list of work items has each request once, and all that have one.    *)
Listed ==
  /\ \A j, k \in DOMAIN created : created[j] = created[k] => j = k
  /\ \A k \in DOMAIN created : route[created[k]].at # "new"
  /\ \A r \in Requests :
       route[r].at \in {"proxied", "start", "late", "end", "stream"} =>
         \E k \in DOMAIN created : created[k] = r

IInv == TypeOK /\ AllAgree /\ Listed

-----------------------------------------------------------------------------
(* Types. *)

LEMMA FormsExist == AnyForm \in Form
<1>1. PICK m \in Models : TRUE
  BY RoutesAssumption DEF Models
<1>2. [kind |-> "chat", model |-> m, stop |-> FALSE, stream |-> FALSE] \in Form
  BY <1>1 DEF Form, Kinds
<1>3. QED  BY <1>2 DEF AnyForm

LEMMA AnswerType ==
  ASSUME NEW q \in Route, NEW c \in HttpStatuses, NEW b \in Bodies
  PROVE  /\ Answer(q, c, b) \in Route
         /\ Answer(q, c, b).at = "done"
         /\ Answer(q, c, b).http = c /\ c # 0
         /\ Answer(q, c, b).body = b
         /\ Answer(q, c, b).form = q.form
<1>1. "done" \in Places /\ c # 0
  BY DEF Places, HttpStatuses
<1>2. QED  BY <1>1 DEF Answer, Route

(* The route moves on, its answer still to come. *)
LEMMA MovedType ==
  ASSUME NEW q \in Route, NEW p \in Places
  PROVE  /\ [q EXCEPT !.at = p] \in Route
         /\ [q EXCEPT !.at = p].at = p
         /\ [q EXCEPT !.at = p].form = q.form
         /\ [q EXCEPT !.at = p].body = q.body
BY DEF Route

LEMMA FormedType ==
  ASSUME NEW q \in Route, NEW f \in Form
  PROVE  /\ [q EXCEPT !.form = f] \in Route
         /\ [q EXCEPT !.form = f].form = f
         /\ [q EXCEPT !.form = f].at = q.at
         /\ [q EXCEPT !.form = f].body = q.body
BY DEF Route

LEMMA FormFacts ==
  ASSUME NEW f \in Form
  PROVE  /\ f.kind \in Kinds /\ f.model \in Models
         /\ f.stream => f.kind = "chat"
         /\ f.stop => f.kind = "chat"
BY DEF Form

LEMMA StatusOfType ==
  ASSUME NEW o \in Job!Outcomes
  PROVE  /\ StatusOf(o) \in {200, 500, 504}
         /\ StatusOf(o) = 200 <=> o = "succeeded"
         /\ StatusOf(o) = 504 <=> o = "timed_out"
BY DEF StatusOf, Job!Outcomes

(* What of the type invariant a step of r alone has to show. *)
LEMMA TypeStays ==
  ASSUME TypeOK, NEW r \in Requests, NEW q \in Route,
         q.at = "done" => q.http # 0,
         route' = [route EXCEPT ![r] = q],
         item' \in [Requests -> {"absent", "ended"} \cup Live],
         created' \in Seq(Requests),
         status' \in [Requests -> Job!Statuses],
         told' \in [Requests -> {"none"} \cup Job!Outcomes]
  PROVE  TypeOK'
BY DEF TypeOK

-----------------------------------------------------------------------------
(* The list of work items. *)

Placed == {"proxied", "start", "late", "end", "stream"}

LEMMA ListedStays ==
  ASSUME TypeOK, Listed, created' = created,
         \A n \in Requests :
           /\ route'[n].at = "new" => route[n].at = "new"
           /\ route'[n].at \in Placed => route[n].at \in Placed
  PROVE  Listed'
<1>1. \A k \in DOMAIN created : created[k] \in Requests
  BY DEF TypeOK
<1>2. QED  BY <1>1 DEF Listed, Placed

LEMMA ListedGrows ==
  ASSUME TypeOK, Listed, NEW r \in Requests, route[r].at = "new",
         created' = Append(created, r),
         route'[r].at # "new",
         \A n \in Requests \ {r} : route'[n] = route[n]
  PROVE  Listed'
<1>1. /\ created \in Seq(Requests) /\ DOMAIN created = 1..Len(created)
      /\ Len(created) \in Nat
  BY DEF TypeOK
<1>2. /\ DOMAIN created' = 1..(Len(created) + 1)
      /\ \A k \in 1..Len(created) : created'[k] = created[k]
      /\ created'[Len(created) + 1] = r
  BY <1>1, AppendProperties
<1>3. \A k \in DOMAIN created : created[k] \in Requests \ {r}
  BY <1>1 DEF Listed
<1>4. \A k \in DOMAIN created' :
        k \in DOMAIN created \/ k = Len(created) + 1
  BY <1>1, <1>2
<1>5. \A j, k \in DOMAIN created' : created'[j] = created'[k] => j = k
  <2>1. SUFFICES ASSUME NEW j \in DOMAIN created', NEW k \in DOMAIN created',
                        created'[j] = created'[k]
                 PROVE  j = k
    OBVIOUS
  <2>2. CASE j \in DOMAIN created /\ k \in DOMAIN created
    BY <1>1, <1>2, <2>1, <2>2 DEF Listed
  <2>3. CASE j \in DOMAIN created /\ k = Len(created) + 1
    BY <1>1, <1>2, <1>3, <2>1, <2>3
  <2>4. CASE j = Len(created) + 1 /\ k \in DOMAIN created
    BY <1>1, <1>2, <1>3, <2>1, <2>4
  <2>5. QED  BY <1>4, <2>2, <2>3, <2>4
<1>6. \A k \in DOMAIN created' : route'[created'[k]].at # "new"
  <2>1. TAKE k \in DOMAIN created'
  <2>2. CASE k \in DOMAIN created
    BY <1>1, <1>2, <1>3, <2>2 DEF Listed
  <2>3. CASE k = Len(created) + 1
    BY <1>2, <2>3
  <2>4. QED  BY <1>4, <2>2, <2>3
<1>7. \A n \in Requests :
        route'[n].at \in Placed => \E k \in DOMAIN created' : created'[k] = n
  <2>1. SUFFICES ASSUME NEW n \in Requests, route'[n].at \in Placed
                 PROVE  \E k \in DOMAIN created' : created'[k] = n
    OBVIOUS
  <2>2. CASE n = r
    BY <1>1, <1>2, <2>2
  <2>3. CASE n # r
    <3>1. PICK k \in DOMAIN created : created[k] = n
      BY <2>1, <2>3 DEF Listed, Placed
    <3>2. QED  BY <1>1, <1>2, <3>1
  <2>4. QED  BY <2>2, <2>3
<1>8. QED  BY <1>5, <1>6, <1>7 DEF Listed, Placed

-----------------------------------------------------------------------------
(* Steps of one request. *)

(* What a step of r alone has to show of r. *)
LEMMA Frame ==
  ASSUME IInv, NEW r \in Requests, NEW q \in Route,
         route' = [route EXCEPT ![r] = q],
         q.at = "done" => q.http # 0,
         q.at # "new",
         \/ created' = created /\ (q.at \in Placed => route[r].at \in Placed)
         \/ created' = Append(created, r) /\ route[r].at = "new",
         item' \in [Requests -> {"absent", "ended"} \cup Live],
         status' \in [Requests -> Job!Statuses],
         told' \in [Requests -> {"none"} \cup Job!Outcomes],
         \A n \in Requests \ {r} :
           item'[n] = item[n] /\ status'[n] = status[n] /\ told'[n] = told[n],
         Agrees(q, status'[r], told'[r], item'[r])
  PROVE  IInv'
<1>1. TypeOK /\ AllAgree /\ Listed
  BY DEF IInv
<1>2. route'[r] = q /\ \A n \in Requests \ {r} : route'[n] = route[n]
  BY <1>1 DEF TypeOK
<1>3. created' \in Seq(Requests)
  BY <1>1, AppendProperties DEF TypeOK
<1>4. TypeOK'
  BY <1>1, <1>3, TypeStays
<1>5. AllAgree'
  BY <1>1, <1>2 DEF AllAgree
<1>6. Listed'
  <2>1. CASE created' = created /\ (q.at \in Placed => route[r].at \in Placed)
    <3>1. \A n \in Requests :
            /\ route'[n].at = "new" => route[n].at = "new"
            /\ route'[n].at \in Placed => route[n].at \in Placed
      BY <1>2, <2>1
    <3>2. QED  BY <1>1, <2>1, <3>1, ListedStays
  <2>2. CASE created' = Append(created, r) /\ route[r].at = "new"
    BY <1>1, <1>2, <2>2, ListedGrows
  <2>3. QED  BY <2>1, <2>2
<1>7. QED  BY <1>4, <1>5, <1>6 DEF IInv

LEMMA Types ==
  ASSUME IInv
  PROVE  /\ route \in [Requests -> Route]
         /\ item \in [Requests -> {"absent", "ended"} \cup Live]
         /\ status \in [Requests -> Job!Statuses]
         /\ told \in [Requests -> {"none"} \cup Job!Outcomes]
BY DEF IInv, TypeOK

LEMMA AgreesNow ==
  ASSUME IInv, NEW r \in Requests
  PROVE  Agrees(route[r], status[r], told[r], item[r])
BY DEF IInv, AllAgree

(* A request without a job or a live item is answered. *)
LEMMA RefusedAgrees ==
  ASSUME NEW q, NEW w, q.at = "done", q.body \in {"error", "text"}
  PROVE  /\ Agrees(q, "absent", w, "absent")
         /\ Agrees(q, "absent", w, "ended")
BY DEF Agrees, Live

LEMMA RefusedHolds ==
  ASSUME IInv, NEW r \in Requests, NEW f \in Form,
         Invalid(r, f) \/ NoSpeechModel(r, f)
  PROVE  IInv'
<1> DEFINE q0 == [route[r] EXCEPT !.form = f]
<1>1. PICK c \in {400, 404} :
        route' = [route EXCEPT ![r] = Answer(q0, c, "error")]
  BY DEF Invalid, NoSpeechModel, Goes
<1>2. UNCHANGED <<item, created, status, told>> /\ route[r].at = "new"
  BY DEF Invalid, NoSpeechModel, Arriving
<1> DEFINE q == Answer(q0, c, "error")
<1>3. q0 \in Route
  BY Types, FormedType
<1>4. /\ q \in Route /\ q.at = "done" /\ q.http # 0 /\ q.body = "error"
  <2>1. c \in HttpStatuses /\ "error" \in Bodies
    BY DEF HttpStatuses, Bodies
  <2>2. QED  BY <1>3, <2>1, AnswerType
<1>5. status[r] = "absent" /\ item[r] \notin Live
  BY <1>2, AgreesNow DEF Agrees
<1>6. item[r] \in {"absent", "ended"}
  BY <1>5, Types
<1>7. Agrees(q, status'[r], told'[r], item'[r])
  BY <1>2, <1>4, <1>5, <1>6, RefusedAgrees
<1>8. QED  BY <1>1, <1>2, <1>4, <1>7, Types, Frame DEF Placed

LEMMA ProxiedHolds ==
  ASSUME IInv, NEW r \in Requests, NEW f \in Form,
         Proxied(r, f) \/ PoolProxied(r, f)
  PROVE  IInv'
<1>1. PICK p \in {"proxied", "pooled"} :
        /\ route' = [route EXCEPT ![r] = [route[r] EXCEPT !.at = p, !.form = f]]
        /\ \/ /\ p = "proxied" /\ item' = [item EXCEPT ![r] = "queued"]
              /\ created' = Append(created, r)
           \/ p = "pooled" /\ item' = item /\ created' = created
  BY DEF Proxied, PoolProxied, Goes
<1>2. status' = status /\ told' = told /\ route[r].at = "new"
  BY DEF Proxied, PoolProxied, Arriving
<1>3. f.kind # "tool"
  BY DEF Proxied, PoolProxied
<1> DEFINE q == [route[r] EXCEPT !.at = p, !.form = f]
<1>4. /\ q \in Route /\ q.at = p /\ q.form = f /\ q.body = route[r].body
  BY Types DEF Route, Places
<1>5. /\ status[r] = "absent" /\ item[r] \notin Live
      /\ route[r].body # "stopped"
  BY <1>2, AgreesNow DEF Agrees
<1>6. /\ item' \in [Requests -> {"absent", "ended"} \cup Live]
      /\ item'[r] \in Live <=> p = "proxied"
      /\ \A n \in Requests \ {r} : item'[n] = item[n]
  BY <1>1, <1>5, Types DEF Live
<1>7. Agrees(q, status'[r], told'[r], item'[r])
  BY <1>2, <1>4, <1>5, <1>6 DEF Agrees
<1>8. QED  BY <1>1, <1>2, <1>4, <1>6, <1>7, Types, Frame DEF Placed

LEMMA SubmitHolds ==
  ASSUME IInv, NEW r \in Requests, NEW f \in Form, Submits(r, f)
  PROVE  IInv'
<1>1. route[r].at = "new" /\ item' = item
  BY DEF Submits, Arriving
<1>2. /\ status[r] = "absent" /\ item[r] \notin Live
      /\ route[r].body # "stopped"
  BY <1>1, AgreesNow DEF Agrees
<1>3. item[r] \in {"absent", "ended"}
  BY <1>2, Types
<1>4. CASE Cardinality({n \in Requests : HasLiveItem(n)}) >= MaxQueue
  <2> DEFINE q0 == [route[r] EXCEPT !.form = f]
             q == Answer(q0, 429, "error")
  <2>1. /\ route' = [route EXCEPT ![r] = q]
        /\ UNCHANGED <<created, status, told>>
    BY <1>4 DEF Submits, Goes
  <2>2. q0 \in Route
    BY Types, FormedType
  <2>3. /\ q \in Route /\ q.at = "done" /\ q.http # 0 /\ q.body = "error"
    <3>1. 429 \in HttpStatuses /\ "error" \in Bodies
      BY DEF HttpStatuses, Bodies
    <3>2. QED  BY <2>2, <3>1, AnswerType
  <2>4. Agrees(q, status'[r], told'[r], item'[r])
    BY <1>1, <1>2, <1>3, <2>1, <2>3, RefusedAgrees
  <2>5. q.at \notin Placed /\ q.at # "new"
    BY <2>3 DEF Placed
  <2> HIDE DEF q
  <2>6. QED  BY <1>1, <2>1, <2>3, <2>4, <2>5, Types, Frame
<1>5. CASE ~(Cardinality({n \in Requests : HasLiveItem(n)}) >= MaxQueue)
  <2> DEFINE p == IF f.kind = "tool" THEN "end" ELSE "start"
             q == [route[r] EXCEPT !.form = f, !.at = p]
  <2>1. /\ route' = [route EXCEPT ![r] = q]
        /\ created' = Append(created, r) /\ Job!Accept(r)
    BY <1>5 DEF Submits, Goes
  <2>2. status' = [status EXCEPT ![r] = "queued"] /\ told' = told
    BY <2>1 DEF Job!Accept
  <2>3. p \in {"start", "end"} /\ p \in Places
    BY DEF Places
  <2>4. q \in Route /\ q.at = p /\ q.form = f /\ q.body = route[r].body
    BY <2>3, Types DEF Route
  <2>5. /\ status' \in [Requests -> Job!Statuses] /\ status'[r] = "queued"
        /\ \A n \in Requests \ {r} : status'[n] = status[n]
    BY <2>2, Types DEF Job!Statuses
  <2>6. Agrees(q, status'[r], told'[r], item'[r])
    BY <1>1, <1>2, <2>3, <2>4, <2>5 DEF Agrees
  <2>7. QED
    BY <1>1, <2>1, <2>2, <2>3, <2>4, <2>5, <2>6, Types, Frame DEF Placed
<1>6. QED  BY <1>4, <1>5

(* Steps that answer the request. *)
LEMMA FrameAnswered ==
  ASSUME IInv, NEW r \in Requests, NEW q \in Route,
         route' = [route EXCEPT ![r] = q], created' = created,
         q.at = "done", q.http # 0,
         item' \in [Requests -> {"absent", "ended"} \cup Live],
         status' \in [Requests -> Job!Statuses],
         told' \in [Requests -> {"none"} \cup Job!Outcomes],
         \A n \in Requests \ {r} :
           item'[n] = item[n] /\ status'[n] = status[n] /\ told'[n] = told[n],
         Agrees(q, status'[r], told'[r], item'[r])
  PROVE  IInv'
<1>1. q.at # "new" /\ q.at \notin Placed
  BY DEF Placed
<1>2. QED  BY <1>1, Frame

(* Steps that leave the handler of r where it is. *)
LEMMA FrameStill ==
  ASSUME IInv, NEW r \in Requests, UNCHANGED <<route, created, told>>,
         route[r].at # "new",
         item' \in [Requests -> {"absent", "ended"} \cup Live],
         status' \in [Requests -> Job!Statuses],
         \A n \in Requests \ {r} : item'[n] = item[n] /\ status'[n] = status[n],
         Agrees(route[r], status'[r], told[r], item'[r])
  PROVE  IInv'
<1>1. route' = [route EXCEPT ![r] = route[r]] /\ route[r] \in Route
  BY Types
<1>2. route[r].at = "done" => route[r].http # 0
  BY DEF IInv, TypeOK
<1>3. QED  BY <1>1, <1>2, Types, Frame

LEMMA AdmittedHolds ==
  ASSUME IInv, NEW r \in Requests, Admitted(r)
  PROVE  IInv'
<1>1. /\ item[r] = "queued" /\ item' = [item EXCEPT ![r] = "running"]
      /\ UNCHANGED <<route, created, status, told>>
  BY DEF Admitted
<1>2. route[r].at = "proxied" /\ item[r] \in Live
  BY <1>1, AgreesNow DEF Agrees, Live
<1>3. /\ item' \in [Requests -> {"absent", "ended"} \cup Live]
      /\ item'[r] \in Live
      /\ \A n \in Requests \ {r} : item'[n] = item[n]
  BY <1>1, Types DEF Live
<1>4. Agrees(route[r], status'[r], told[r], item'[r])
  BY <1>1, <1>2, <1>3, AgreesNow DEF Agrees
<1>5. QED  BY <1>1, <1>2, <1>3, <1>4, Types, FrameStill

LEMMA JobRunsHolds ==
  ASSUME IInv, NEW r \in Requests, JobRuns(r)
  PROVE  IInv'
<1>1. /\ status[r] = "queued" /\ status' = [status EXCEPT ![r] = "running"]
      /\ UNCHANGED <<route, created, item, told>>
  BY DEF JobRuns, Job!Run
<1>2. /\ status' \in [Requests -> Job!Statuses] /\ status'[r] = "running"
      /\ \A n \in Requests \ {r} : status'[n] = status[n]
  BY <1>1, Types DEF Job!Statuses
<1>3. route[r].at # "new"
  BY <1>1, AgreesNow DEF Agrees
<1>4. Agrees(route[r], status'[r], told[r], item'[r])
  BY <1>1, <1>2, AgreesNow DEF Agrees, Job!Outcomes
<1>5. QED  BY <1>1, <1>2, <1>3, <1>4, Types, FrameStill

(* A job that ends, but not in the queue wait. *)
LEMMA EndAgrees ==
  ASSUME NEW q, NEW s \in Live, NEW w, NEW i, Agrees(q, s, w, i),
         NEW o \in {"succeeded", "failed", "cancelled"}
  PROVE  Agrees(q, o, w, i)
BY DEF Agrees, Live, Job!Outcomes

LEMMA JobEndsHolds ==
  ASSUME IInv, NEW r \in Requests, JobEnds(r)
  PROVE  IInv'
<1>1. PICK o \in {"succeeded", "failed", "cancelled"} :
        status[r] \in Live /\ Job!End({r}, o)
  BY DEF JobEnds
<1>2. /\ status' = [n \in Requests |-> IF n \in {r} THEN o ELSE status[n]]
      /\ UNCHANGED <<route, created, item, told>>
  BY <1>1 DEF Job!End, JobEnds
<1>3. /\ status' \in [Requests -> Job!Statuses] /\ status'[r] = o
      /\ \A n \in Requests \ {r} : status'[n] = status[n]
  BY <1>2, Types DEF Job!Statuses, Job!Outcomes
<1>4. route[r].at # "new"
  BY <1>1, AgreesNow DEF Agrees, Live
<1>5. Agrees(route[r], status'[r], told[r], item'[r])
  BY <1>1, <1>2, <1>3, AgreesNow, EndAgrees
<1>6. QED  BY <1>2, <1>3, <1>4, <1>5, Types, FrameStill

LEMMA QueueWaitHolds ==
  ASSUME IInv, NEW r \in Requests, QueueWaitExceeded(r)
  PROVE  IInv'
<1> DEFINE q == [route[r] EXCEPT !.at = "late"]
<1>1. /\ route[r].at = "start" /\ status[r] = "queued"
      /\ route' = [route EXCEPT ![r] = q]
      /\ UNCHANGED <<created, item, told>>
      /\ status' = [n \in Requests |->
                      IF n \in {r} THEN "timed_out" ELSE status[n]]
  BY DEF QueueWaitExceeded, Goes, Job!End
<1>2. /\ status' \in [Requests -> Job!Statuses] /\ status'[r] = "timed_out"
      /\ \A n \in Requests \ {r} : status'[n] = status[n]
  BY <1>1, Types DEF Job!Statuses, Job!Outcomes
<1>3. /\ q \in Route /\ q.at = "late"
      /\ q.form = route[r].form /\ q.body = route[r].body
  BY Types, MovedType DEF Places
<1>4. Agrees(q, status'[r], told'[r], item'[r])
  BY <1>1, <1>2, <1>3, AgreesNow DEF Agrees
<1>5. QED  BY <1>1, <1>2, <1>3, <1>4, Types, Frame DEF Placed

LEMMA StartSeenHolds ==
  ASSUME IInv, NEW r \in Requests, StartSeen(r)
  PROVE  IInv'
<1>1. /\ route[r].at = "start" /\ status[r] \in {"running", "succeeded"}
      /\ UNCHANGED <<created, item, status, told>>
  BY DEF StartSeen
<1>2. CASE route[r].form.stream
  <2> DEFINE q == [route[r] EXCEPT !.at = "stream", !.http = 200]
  <2>1. route' = [route EXCEPT ![r] = q]
    BY <1>2 DEF StartSeen, Goes
  <2>2. /\ q \in Route /\ q.at = "stream"
        /\ q.form = route[r].form /\ q.body = route[r].body
    <3>1. "stream" \in Places /\ 200 \in {0} \cup HttpStatuses
      BY DEF Places, HttpStatuses
    <3>2. QED  BY <3>1, Types DEF Route
  <2>3. Agrees(q, status'[r], told'[r], item'[r])
    BY <1>1, <1>2, <2>2, AgreesNow DEF Agrees
  <2>4. QED  BY <1>1, <2>1, <2>2, <2>3, Types, Frame DEF Placed
<1>3. CASE ~route[r].form.stream
  <2> DEFINE q == [route[r] EXCEPT !.at = "end"]
  <2>1. route' = [route EXCEPT ![r] = q]
    BY <1>3 DEF StartSeen, Goes
  <2>2. /\ q \in Route /\ q.at = "end"
        /\ q.form = route[r].form /\ q.body = route[r].body
    BY Types, MovedType DEF Places
  <2>3. Agrees(q, status'[r], told'[r], item'[r])
    BY <1>1, <2>2, AgreesNow DEF Agrees
  <2>4. QED  BY <1>1, <2>1, <2>2, <2>3, Types, Frame DEF Placed
<1>4. QED  BY <1>2, <1>3

LEMMA WaitGivesUpHolds ==
  ASSUME IInv, NEW r \in Requests, WaitGivesUp(r)
  PROVE  IInv'
<1> DEFINE q == Answer(route[r], 200, "pending")
<1>1. /\ route[r].at = "end" /\ route[r].form.kind = "tool"
      /\ status[r] \in Live /\ route' = [route EXCEPT ![r] = q]
      /\ UNCHANGED <<created, item, status, told>>
  BY DEF WaitGivesUp, Goes
<1>2. /\ q \in Route /\ q.at = "done" /\ q.http # 0
      /\ q.body = "pending" /\ q.form = route[r].form
  <2>1. 200 \in HttpStatuses /\ "pending" \in Bodies
    BY DEF HttpStatuses, Bodies
  <2>2. QED  BY <2>1, Types, AnswerType
<1>3. Agrees(q, status'[r], told'[r], item'[r])
  BY <1>1, <1>2, AgreesNow DEF Agrees
<1>4. QED  BY <1>1, <1>2, <1>3, Types, Frame DEF Placed

-----------------------------------------------------------------------------
(* Answers. *)

(* A request without a job is answered as its proxy answers. *)
LEMMA ProxyAnswersHolds ==
  ASSUME IInv, NEW r \in Requests, ProxyAnswers(r) \/ PoolAnswers(r)
  PROVE  IInv'
<1>1. route[r].at \in {"proxied", "pooled"}
  BY DEF ProxyAnswers, PoolAnswers
<1>2. PICK c \in HttpStatuses, b \in {"text", "error"} :
        route' = [route EXCEPT ![r] = Answer(route[r], c, b)]
  BY DEF ProxyAnswers, PoolAnswers, Goes, HttpStatuses
<1> DEFINE q == Answer(route[r], c, b)
<1>3. /\ UNCHANGED <<created, status, told>>
      /\ \/ item' = [item EXCEPT ![r] = "ended"]
         \/ route[r].at = "pooled" /\ item' = item
  BY DEF ProxyAnswers, PoolAnswers
<1>4. /\ q \in Route /\ q.at = "done" /\ q.http # 0 /\ q.body = b
  <2>1. c \in HttpStatuses /\ b \in Bodies
    BY DEF HttpStatuses, Bodies
  <2>2. QED  BY <2>1, Types, AnswerType
<1>5. status[r] = "absent" /\ (route[r].at = "pooled" => item[r] \notin Live)
  BY <1>1, AgreesNow DEF Agrees
<1>6. /\ item' \in [Requests -> {"absent", "ended"} \cup Live]
      /\ item'[r] \in {"absent", "ended"}
      /\ \A n \in Requests \ {r} : item'[n] = item[n]
  BY <1>3, <1>5, Types
<1>7. Agrees(q, status'[r], told'[r], item'[r])
  BY <1>3, <1>4, <1>5, <1>6, RefusedAgrees
<1>8. /\ route' = [route EXCEPT ![r] = q] /\ created' = created
      /\ status' = status /\ told' = told
  BY <1>2, <1>3
<1>9. told' \in [Requests -> {"none"} \cup Job!Outcomes]
  BY <1>8, Types
<1>10. \A n \in Requests \ {r} : item'[n] = item[n] /\ told'[n] = told[n]
  BY <1>6, <1>8
<1> HIDE DEF q
<1>11. status' \in [Requests -> Job!Statuses]
  BY <1>8, Types
<1>12. \A n \in Requests \ {r} :
         item'[n] = item[n] /\ status'[n] = status[n] /\ told'[n] = told[n]
  BY <1>8, <1>10
<1>13. item' \in [Requests -> {"absent", "ended"} \cup Live]
  BY <1>6
<1>14. QED
  BY <1>4, <1>7, <1>8, <1>9, <1>11, <1>12, <1>13, FrameAnswered

(* A handler that answers with the outcome it reads. *)
LEMMA ToldAgrees ==
  ASSUME NEW q, NEW p, NEW s \in Job!Outcomes, NEW w, NEW i,
         Agrees(q, s, w, i),
         q.at \in {"start", "late", "end", "stream"},
         p.at = "done", p.form = q.form,
         p.body = IF s = "succeeded" THEN "text" ELSE "error",
         p.http = 504 <=> s = "timed_out",
         p.http = 200 =>
           q.form.stream \/ q.form.kind = "tool" \/ s = "succeeded"
  PROVE  Agrees(p, s, s, i)
BY DEF Agrees, Job!Outcomes

LEMMA JobAnswersHolds ==
  ASSUME IInv, NEW r \in Requests, EndSeen(r) \/ StreamEnds(r)
  PROVE  IInv'
<1> DEFINE s == status[r]
           b == IF s = "succeeded" THEN "text" ELSE "error"
           c == IF route[r].at = "stream" \/ route[r].form.kind = "tool"
                THEN 200 ELSE StatusOf(s)
<1> HIDE DEF c
<1>1. /\ s \in Job!Outcomes /\ status' = status
      /\ told' = [told EXCEPT ![r] = s]
      /\ UNCHANGED <<item, created>>
  BY DEF EndSeen, StreamEnds, Job!Tell
<1>2. route[r].at \in {"start", "late", "end", "stream"}
  BY DEF EndSeen, StreamEnds
<1>3. /\ route' = [route EXCEPT ![r] = Answer(route[r], c, b)]
      /\ c \in {200, 500, 504}
      /\ c = 504 <=> s = "timed_out"
      /\ c = 200 =>
           \/ route[r].form.stream \/ route[r].form.kind = "tool"
           \/ s = "succeeded"
  <2>1. CASE StreamEnds(r)
    <3>1. s # "timed_out" /\ route[r].form.stream
      BY <2>1, AgreesNow DEF StreamEnds, Agrees
    <3>2. c = 200 /\ route' = [route EXCEPT ![r] = Answer(route[r], 200, b)]
      BY <2>1 DEF StreamEnds, Goes, c
    <3>3. QED  BY <3>1, <3>2
  <2>2. CASE EndSeen(r) /\ route[r].form.kind = "tool"
    <3>1. s # "timed_out"
      BY <2>2, AgreesNow DEF Agrees
    <3>2. c = 200 /\ route' = [route EXCEPT ![r] = Answer(route[r], 200, b)]
      BY <2>2 DEF EndSeen, Goes, c
    <3>3. QED  BY <2>2, <3>1, <3>2
  <2>3. CASE EndSeen(r) /\ route[r].form.kind # "tool"
    <3>1. /\ c = StatusOf(s)
          /\ route' = [route EXCEPT ![r] = Answer(route[r], StatusOf(s), b)]
      BY <2>3 DEF EndSeen, Goes, c
    <3>2. /\ StatusOf(s) \in {200, 500, 504}
          /\ StatusOf(s) = 200 <=> s = "succeeded"
          /\ StatusOf(s) = 504 <=> s = "timed_out"
      BY <1>1, StatusOfType
    <3>3. QED  BY <3>1, <3>2
  <2>4. QED  BY <2>1, <2>2, <2>3
<1> DEFINE q == Answer(route[r], c, b)
<1>4. /\ q \in Route /\ q.at = "done" /\ q.http = c /\ q.http # 0
      /\ q.body = b /\ q.form = route[r].form
  <2>1. c \in HttpStatuses /\ b \in Bodies
    BY <1>3 DEF HttpStatuses, Bodies
  <2>2. QED  BY <2>1, Types, AnswerType
<1>5. /\ told' \in [Requests -> {"none"} \cup Job!Outcomes] /\ told'[r] = s
      /\ \A n \in Requests \ {r} : told'[n] = told[n]
  BY <1>1, Types
<1>6. Agrees(q, status'[r], told'[r], item'[r])
  BY <1>1, <1>2, <1>3, <1>4, <1>5, AgreesNow, ToldAgrees
<1>7. /\ route' = [route EXCEPT ![r] = q] /\ created' = created
      /\ item' = item
  BY <1>1, <1>3
<1>8. /\ item' \in [Requests -> {"absent", "ended"} \cup Live]
      /\ \A n \in Requests \ {r} : item'[n] = item[n] /\ told'[n] = told[n]
  BY <1>5, <1>7, Types
<1>9. q.at # "new" /\ q.at \notin Placed
  BY <1>4 DEF Placed
<1> HIDE DEF q, s
<1>10. status' \in [Requests -> Job!Statuses]
  BY <1>1, Types
<1>11. \A n \in Requests \ {r} : status'[n] = status[n]
  BY <1>1
<1>12. QED
  BY <1>1, <1>4, <1>5, <1>6, <1>7, <1>8, <1>9, <1>10, <1>11, Frame

-----------------------------------------------------------------------------
(* The stop command ends several requests. *)

LEMMA StoppedFacts ==
  ASSUME IInv, NEW f \in Form, NEW n \in Stopped(f)
  PROVE  /\ n \in Requests /\ HasLiveItem(n)
         /\ route[n].form.kind # "tool" /\ route[n].form.model = f.model
<1>1. created \in Seq(Requests)
  BY DEF IInv, TypeOK
<1>2. PICK k \in DOMAIN created : created[k] = n
  BY DEF Stopped
<1>3. n \in Requests
  BY <1>1, <1>2
<1>4. QED  BY <1>3 DEF Stopped

LEMMA StopHolds ==
  ASSUME IInv, NEW r \in Requests, NEW f \in Form, StopCommand(r, f)
  PROVE  IInv'
<1> DEFINE q0 == [route[r] EXCEPT !.form = f]
           q == Answer(q0, 200, "stopped")
           Given(n) == n \in Stopped(f) /\ item[n] \in Live
           Ended(n) == n \in Stopped(f) /\ status[n] \in Live
<1>1. /\ route[r].at = "new" /\ f.kind = "chat"
      /\ UNCHANGED <<created, told>>
      /\ item' = [n \in Requests |-> IF Given(n) THEN "ended" ELSE item[n]]
      /\ route' = [n \in Requests |->
                     IF n = r THEN q
                     ELSE IF Given(n) THEN Answer(route[n], 499, "error")
                     ELSE route[n]]
  <2>1. /\ route[r].at = "new" /\ f.kind = "chat" /\ created' = created
    BY DEF StopCommand, Arriving
  <2>2. told' = told
    BY DEF StopCommand, Job!End
  <2>3. item' = [n \in Requests |-> IF Given(n) THEN "ended" ELSE item[n]]
    BY DEF StopCommand
  <2>4. route' = [n \in Requests |->
                   IF n = r THEN q
                   ELSE IF Given(n) THEN Answer(route[n], 499, "error")
                   ELSE route[n]]
    BY DEF StopCommand
  <2>5. QED  BY <2>1, <2>2, <2>3, <2>4
<1>2. status' = [n \in Requests |->
                   IF Ended(n) THEN "cancelled" ELSE status[n]]
  <2>1. status' = [n \in Requests |->
                     IF n \in {m \in Stopped(f) : status[m] \in Live}
                     THEN "cancelled" ELSE status[n]]
    BY DEF StopCommand, Job!End
  <2>2. QED  BY <2>1
<1>3. q \in Route /\ q.at = "done" /\ q.http # 0 /\ q.body = "stopped"
  <2>1. 200 \in HttpStatuses /\ "stopped" \in Bodies /\ q0 \in Route
    BY Types, FormedType DEF HttpStatuses, Bodies
  <2>2. QED  BY <2>1, AnswerType
<1>4. \A n \in Requests :
        /\ Answer(route[n], 499, "error") \in Route
        /\ Answer(route[n], 499, "error").at = "done"
        /\ Answer(route[n], 499, "error").http # 0
        /\ Answer(route[n], 499, "error").body = "error"
  <2>1. 499 \in HttpStatuses /\ "error" \in Bodies
    BY DEF HttpStatuses, Bodies
  <2>2. QED  BY <2>1, Types, AnswerType
<1>5. status[r] = "absent" /\ item[r] \notin Live
  BY <1>1, AgreesNow DEF Agrees
<1>6. TypeOK'
  <2>1. route' \in [Requests -> Route]
    BY <1>1, <1>3, <1>4, Types
  <2>2. \A n \in Requests : route'[n].at = "done" => route'[n].http # 0
    BY <1>1, <1>3, <1>4 DEF IInv, TypeOK
  <2>3. item' \in [Requests -> {"absent", "ended"} \cup Live]
    BY <1>1, Types
  <2>4. status' \in [Requests -> Job!Statuses]
    BY <1>2, Types DEF Job!Statuses, Job!Outcomes
  <2>5. QED  BY <1>1, <2>1, <2>2, <2>3, <2>4 DEF IInv, TypeOK
<1>7. AllAgree'
  <2>1. SUFFICES ASSUME NEW n \in Requests
                 PROVE  Agrees(route'[n], status'[n], told'[n], item'[n])
    BY DEF AllAgree
  <2>2. Agrees(route[n], status[n], told[n], item[n])
    BY AgreesNow
  <2>3. CASE n = r
    <3>1. route'[n] = q /\ status'[n] = "absent" /\ item'[n] = item[r]
      BY <1>1, <1>2, <1>5, <2>3 DEF Live
    <3>2. QED  BY <1>3, <1>5, <3>1 DEF Agrees
  <2>4. CASE n # r /\ Given(n)
    <3>1. status[n] = "absent"
      BY <2>2, <2>4 DEF Agrees
    <3>2. /\ route'[n] = Answer(route[n], 499, "error")
          /\ status'[n] = "absent" /\ item'[n] = "ended"
      BY <1>1, <1>2, <2>4, <3>1 DEF Live
    <3>3. QED  BY <1>4, <3>2, RefusedAgrees
  <2>5. CASE n # r /\ ~Given(n) /\ Ended(n)
    <3>1. /\ route'[n] = route[n] /\ told'[n] = told[n]
          /\ status'[n] = "cancelled" /\ item'[n] = item[n]
      BY <1>1, <1>2, <2>5
    <3>2. QED  BY <2>2, <2>5, <3>1, EndAgrees
  <2>6. CASE n # r /\ ~Given(n) /\ ~Ended(n)
    BY <1>1, <1>2, <2>2, <2>6
  <2>7. QED  BY <2>3, <2>4, <2>5, <2>6
<1>8. Listed'
  <2>1. \A n \in Requests :
          /\ route'[n].at = "new" => route[n].at = "new"
          /\ route'[n].at \in Placed => route[n].at \in Placed
    BY <1>1, <1>3, <1>4 DEF Placed
  <2>2. QED  BY <1>1, <2>1, ListedStays DEF IInv
<1>9. QED  BY <1>6, <1>7, <1>8 DEF IInv

-----------------------------------------------------------------------------
(* The invariant. *)

LEMMA InitHolds == Init => IInv
<1>1. SUFFICES ASSUME Init PROVE IInv
  OBVIOUS
<1> DEFINE q == [at |-> "new", form |-> AnyForm, http |-> 0, body |-> "none"]
<1>2. q \in Route
  BY FormsExist DEF Route, Places, Bodies
<1>3. /\ route = [r \in Requests |-> q]
      /\ item = [r \in Requests |-> "absent"] /\ created = <<>>
      /\ status = [r \in Requests |-> "absent"]
      /\ told = [r \in Requests |-> "none"]
  BY <1>1 DEF Init, Job!Init
<1>4. TypeOK
  BY <1>2, <1>3 DEF TypeOK, Job!Statuses
<1>5. AllAgree
  BY <1>3 DEF AllAgree, Agrees, Live
<1>6. Listed
  BY <1>3 DEF Listed
<1>7. QED  BY <1>4, <1>5, <1>6 DEF IInv

LEMMA StepHolds == IInv /\ [Next]_vars => IInv'
<1>1. SUFFICES ASSUME IInv, [Next]_vars PROVE IInv'
  OBVIOUS
<1>2. CASE UNCHANGED vars
  BY <1>1, <1>2
     DEF vars, IInv, TypeOK, AllAgree, Agrees, Listed
<1>3. CASE Next
  <2>1. PICK r \in Requests :
          \/ \E f \in Form : Arrives(r, f)
          \/ Answers(r) \/ Admitted(r) \/ QueueWaitExceeded(r)
          \/ WaitGivesUp(r) \/ JobRuns(r) \/ JobEnds(r)
    BY <1>3 DEF Next
  <2>2. CASE \E f \in Form : Arrives(r, f)
    <3>1. PICK f \in Form : Arrives(r, f)
      BY <2>2
    <3>2. CASE Invalid(r, f) \/ NoSpeechModel(r, f)
      BY <1>1, <3>2, RefusedHolds
    <3>3. CASE Proxied(r, f) \/ PoolProxied(r, f)
      BY <1>1, <3>3, ProxiedHolds
    <3>4. CASE StopCommand(r, f)
      BY <1>1, <3>4, StopHolds
    <3>5. CASE Submits(r, f)
      BY <1>1, <3>5, SubmitHolds
    <3>6. QED  BY <3>1, <3>2, <3>3, <3>4, <3>5 DEF Arrives
  <2>3. CASE Answers(r)
    <3>1. CASE ProxyAnswers(r) \/ PoolAnswers(r)
      BY <1>1, <3>1, ProxyAnswersHolds
    <3>2. CASE StartSeen(r)
      BY <1>1, <3>2, StartSeenHolds
    <3>3. CASE EndSeen(r) \/ StreamEnds(r)
      BY <1>1, <3>3, JobAnswersHolds
    <3>4. QED  BY <2>3, <3>1, <3>2, <3>3 DEF Answers
  <2>4. CASE Admitted(r)
    BY <1>1, <2>4, AdmittedHolds
  <2>5. CASE QueueWaitExceeded(r)
    BY <1>1, <2>5, QueueWaitHolds
  <2>6. CASE WaitGivesUp(r)
    BY <1>1, <2>6, WaitGivesUpHolds
  <2>7. CASE JobRuns(r)
    BY <1>1, <2>7, JobRunsHolds
  <2>8. CASE JobEnds(r)
    BY <1>1, <2>8, JobEndsHolds
  <2>9. QED  BY <2>1, <2>2, <2>3, <2>4, <2>5, <2>6, <2>7, <2>8
<1>4. QED  BY <1>1, <1>2, <1>3

LEMMA InvariantTells == IInv => AnswersAreTrue
BY DEF IInv, AllAgree, Agrees, AnswersAreTrue

-----------------------------------------------------------------------------
(* The routes stay in the states their code can name.                      *)
THEOREM RoutesTypeCorrect == Spec => []TypeOK
<1>1. Spec => []IInv
  BY InitHolds, StepHolds, PTL DEF Spec
<1>2. IInv => TypeOK
  BY DEF IInv
<1>3. QED  BY <1>1, <1>2, PTL

(* Whatever is cancelled, stopped or given up while a handler waits, the    *)
(* answer of a request with a job says what became of the job.             *)
THEOREM AnswersTell == Spec => []AnswersAreTrue
<1>1. Spec => []IInv
  BY InitHolds, StepHolds, PTL DEF Spec
<1>2. QED  BY <1>1, InvariantTells, PTL

-----------------------------------------------------------------------------
(* The stop command, once more: whom it ends. *)

(* The newest ListLimit rows hold every live item.                         *)
LiveListed ==
  \A k \in DOMAIN created :
    HasLiveItem(created[k]) => k > Len(created) - ListLimit

(* The action of StopEndsRequests.                                         *)
StopsAsTold ==
  \A r \in Requests : Stops(r) =>
    \A n \in Requests \ {r} :
      IF /\ InFlight(n) /\ route[n].at # "pooled"
         /\ route[n].form.kind # "tool"
         /\ route[n].form.model = route'[r].form.model
      THEN route'[n].at = "done" \/ status'[n] \in Job!Outcomes
      ELSE UNCHANGED <<route[n], item[n], status[n]>>

(* The body an answer has.                                                 *)
LEMMA AnswerBody ==
  ASSUME NEW q \in Route, NEW c, NEW b
  PROVE  Answer(q, c, b).body = b
BY DEF Answer, Route

(* Only a stop command is answered "stopped", and by its own step.         *)
LEMMA OnlyStopsStop ==
  ASSUME IInv, Next, NEW r \in Requests, Stops(r)
  PROVE  \E f \in Form : StopCommand(r, f)
<1>1. /\ route \in [Requests -> Route] /\ route[r].at = "new"
      /\ route[r].body # "stopped" /\ route'[r].body = "stopped"
  BY Types, AgreesNow DEF Stops, Agrees
<1>2. PICK o \in Requests :
        \/ \E f \in Form : Arrives(o, f)
        \/ Answers(o) \/ Admitted(o) \/ QueueWaitExceeded(o)
        \/ WaitGivesUp(o) \/ JobRuns(o) \/ JobEnds(o)
  BY DEF Next
<1>3. \A q : Goes(o, q) =>
              q.body \notin {route[o].body, "text", "error", "pending"}
  <2>1. SUFFICES ASSUME NEW q, Goes(o, q),
                        q.body \in {route[o].body, "text", "error", "pending"}
                 PROVE  FALSE
    OBVIOUS
  <2>2. route' = [route EXCEPT ![o] = q]
    BY <2>1 DEF Goes
  <2>3. CASE o = r
    BY <1>1, <2>1, <2>2, <2>3
  <2>4. CASE o # r
    BY <1>1, <2>2, <2>4
  <2>5. QED  BY <2>3, <2>4
<1>4. ~Admitted(o) /\ ~JobRuns(o) /\ ~JobEnds(o)
  BY <1>1 DEF Admitted, JobRuns, JobEnds
<1>5. \A p, h :
        /\ [route[o] EXCEPT !.at = p].body = route[o].body
        /\ [route[o] EXCEPT !.at = p, !.http = h].body = route[o].body
  BY <1>1 DEF Route
<1>6. \A c, b : Answer(route[o], c, b).body = b
  BY <1>1, AnswerBody
<1>7. ~QueueWaitExceeded(o) /\ ~StartSeen(o)
  <2>1. ~QueueWaitExceeded(o)
    BY <1>3, <1>5 DEF QueueWaitExceeded
  <2>2. ASSUME StartSeen(o) PROVE FALSE
    <3>1. \/ Goes(o, [route[o] EXCEPT !.at = "stream", !.http = 200])
          \/ Goes(o, [route[o] EXCEPT !.at = "end"])
      BY <2>2 DEF StartSeen
    <3> DEFINE s == [route[o] EXCEPT !.at = "stream", !.http = 200]
               e == [route[o] EXCEPT !.at = "end"]
    <3>2. s.body = route[o].body /\ e.body = route[o].body
      BY <1>5
    <3> HIDE DEF s, e
    <3>3. Goes(o, s) \/ Goes(o, e)
      BY <3>1 DEF s, e
    <3>4. QED  BY <1>3, <3>2, <3>3
  <2>3. QED  BY <2>1, <2>2
<1>8. ~WaitGivesUp(o) /\ ~ProxyAnswers(o) /\ ~PoolAnswers(o)
  BY <1>3, <1>6 DEF WaitGivesUp, ProxyAnswers, PoolAnswers
<1>9. ~EndSeen(o) /\ ~StreamEnds(o)
  BY <1>3, <1>6 DEF EndSeen, StreamEnds
<1>10. PICK f \in Form : Arrives(o, f)
  BY <1>2, <1>4, <1>7, <1>8, <1>9 DEF Answers
<1> DEFINE q0 == [route[o] EXCEPT !.form = f]
<1>11. q0 \in Route /\ q0.body = route[o].body
  BY <1>1, FormedType
<1>12. \A c, b : Answer(q0, c, b).body = b
  BY <1>11, AnswerBody
<1>13. \A p : [route[o] EXCEPT !.at = p, !.form = f].body = route[o].body
               /\ [route[o] EXCEPT !.form = f, !.at = p].body = route[o].body
  BY <1>1 DEF Route
<1>14. ~Invalid(o, f) /\ ~NoSpeechModel(o, f)
  BY <1>3, <1>12 DEF Invalid, NoSpeechModel
<1>15. ~Proxied(o, f) /\ ~PoolProxied(o, f)
  <2>1. ASSUME Proxied(o, f) \/ PoolProxied(o, f) PROVE FALSE
    <3>1. PICK p : Goes(o, [route[o] EXCEPT !.at = p, !.form = f])
      BY <2>1 DEF Proxied, PoolProxied
    <3>2. [route[o] EXCEPT !.at = p, !.form = f].body = route[o].body
      BY <1>13
    <3>3. QED  BY <1>3, <3>1, <3>2
  <2>2. QED  BY <2>1
<1>16. ~Submits(o, f)
  <2>1. ASSUME Submits(o, f) PROVE FALSE
    <3>1. PICK p : \/ Goes(o, Answer(q0, 429, "error"))
                   \/ Goes(o, [route[o] EXCEPT !.form = f, !.at = p])
      BY <2>1 DEF Submits
    <3>2. [route[o] EXCEPT !.form = f, !.at = p].body = route[o].body
      BY <1>13
    <3>3. Answer(q0, 429, "error").body = "error"
      BY <1>12
    <3> DEFINE a == Answer(q0, 429, "error")
               m == [route[o] EXCEPT !.form = f, !.at = p]
    <3> HIDE DEF a, m
    <3>4. Goes(o, a) \/ Goes(o, m)
      BY <3>1 DEF a, m
    <3>5. a.body = "error" /\ m.body = route[o].body
      BY <3>2, <3>3 DEF a, m
    <3>6. QED  BY <1>3, <3>4, <3>5
  <2>2. QED  BY <2>1
<1>17. StopCommand(o, f)
  BY <1>10, <1>14, <1>15, <1>16 DEF Arrives
<1>18. o = r
  <2>1. SUFFICES ASSUME o # r PROVE FALSE
    OBVIOUS
  <2>2. route'[r] = Answer(route[r], 499, "error") \/ route'[r] = route[r]
    BY <1>17, <2>1 DEF StopCommand
  <2>3. Answer(route[r], 499, "error").body = "error"
    BY <1>1, AnswerBody
  <2>4. QED  BY <1>1, <2>2, <2>3
<1>19. QED  BY <1>17, <1>18

(* Whom the list of live items names for a model.                          *)
LEMMA StoppedAre ==
  ASSUME IInv, LiveListed, NEW f \in Form, NEW n \in Requests
  PROVE  n \in Stopped(f) <=> /\ InFlight(n) /\ route[n].at # "pooled"
                              /\ route[n].form.kind # "tool"
                              /\ route[n].form.model = f.model
                              /\ HasLiveItem(n)
<1>1. Agrees(route[n], status[n], told[n], item[n])
  BY AgreesNow
<1>2. created \in Seq(Requests) /\ ListLimit \in Nat /\ route[n].at \in Places
  BY Types, RoutesAssumption DEF IInv, TypeOK, Route
<1>3. ASSUME n \in Stopped(f)
      PROVE  /\ InFlight(n) /\ route[n].at # "pooled"
             /\ route[n].form.kind # "tool"
             /\ route[n].form.model = f.model /\ HasLiveItem(n)
  <2>1. /\ HasLiveItem(n)
        /\ route[n].form.kind # "tool" /\ route[n].form.model = f.model
    BY <1>3, StoppedFacts
  <2>2. CASE item[n] \in Live
    BY <1>1, <2>1, <2>2 DEF Agrees, InFlight
  <2>3. CASE status[n] \in Live
    BY <1>1, <2>1, <2>3 DEF Agrees, InFlight, Live, Job!Outcomes
  <2>4. QED  BY <2>1, <2>2, <2>3 DEF HasLiveItem
<1>4. ASSUME /\ InFlight(n) /\ route[n].at # "pooled"
             /\ route[n].form.kind # "tool"
             /\ route[n].form.model = f.model
             /\ HasLiveItem(n)
      PROVE  n \in Stopped(f)
  <2>1. route[n].at \in {"proxied", "start", "late", "end", "stream"}
    BY <1>2, <1>4 DEF InFlight, Places
  <2>2. PICK k \in DOMAIN created : created[k] = n
    BY <2>1 DEF IInv, Listed
  <2>3. k > Len(created) - ListLimit
    BY <1>4, <2>2 DEF LiveListed
  <2>4. QED  BY <1>4, <2>2, <2>3 DEF Stopped
<1>5. QED  BY <1>3, <1>4

LEMMA StopStepAsTold ==
  ASSUME IInv, LiveListed, NEW r \in Requests, NEW f \in Form,
         StopCommand(r, f), NEW n \in Requests \ {r}
  PROVE  IF /\ InFlight(n) /\ route[n].at # "pooled"
            /\ route[n].form.kind # "tool"
            /\ route[n].form.model = route'[r].form.model
         THEN route'[n].at = "done" \/ status'[n] \in Job!Outcomes
         ELSE UNCHANGED <<route[n], item[n], status[n]>>
<1> DEFINE Given == n \in Stopped(f) /\ item[n] \in Live
           Ended == n \in Stopped(f) /\ status[n] \in Live
<1>1. /\ item'[n] = IF Given THEN "ended" ELSE item[n]
      /\ route'[n] = IF Given THEN Answer(route[n], 499, "error") ELSE route[n]
  BY Types DEF StopCommand
<1>2. status'[n] = IF Ended THEN "cancelled" ELSE status[n]
  <2>1. status' = [m \in Requests |->
                     IF m \in {k \in Stopped(f) : status[k] \in Live}
                     THEN "cancelled" ELSE status[m]]
    BY DEF StopCommand, Job!End
  <2>2. QED  BY <2>1
<1>3. route'[r].form.model = f.model
  <2>1. route'[r] = Answer([route[r] EXCEPT !.form = f], 200, "stopped")
    BY DEF StopCommand
  <2>2. [route[r] EXCEPT !.form = f] \in Route
        /\ [route[r] EXCEPT !.form = f].form = f
    BY Types, FormedType
  <2>3. 200 \in HttpStatuses /\ "stopped" \in Bodies
    BY DEF HttpStatuses, Bodies
  <2> DEFINE q0 == [route[r] EXCEPT !.form = f]
  <2> HIDE DEF q0
  <2>4. /\ q0 \in Route /\ q0.form = f
        /\ route'[r] = Answer(q0, 200, "stopped")
    BY <2>1, <2>2 DEF q0
  <2>5. Answer(q0, 200, "stopped").form = q0.form
    BY <2>3, <2>4, AnswerType
  <2>6. QED  BY <2>4, <2>5
<1>4. Agrees(route[n], status[n], told[n], item[n])
      /\ route[n] \in Route /\ status[n] \in Job!Statuses
  BY AgreesNow, Types
<1>5. CASE n \in Stopped(f)
  <2>1. HasLiveItem(n) /\ InFlight(n) /\ route[n].at # "pooled"
        /\ route[n].form.kind # "tool" /\ route[n].form.model = f.model
    BY <1>5, StoppedAre
  <2>2. CASE item[n] \in Live
    <3>1. 499 \in HttpStatuses /\ "error" \in Bodies
      BY DEF HttpStatuses, Bodies
    <3>2. Answer(route[n], 499, "error").at = "done"
      BY <1>4, <3>1, AnswerType
    <3>3. QED  BY <1>1, <1>3, <1>5, <2>1, <2>2, <3>2
  <2>3. CASE status[n] \in Live
    <3>1. status'[n] \in Job!Outcomes
      BY <1>2, <1>5, <2>3 DEF Job!Outcomes
    <3>2. QED  BY <1>3, <2>1, <3>1
  <2>4. QED  BY <2>1, <2>2, <2>3 DEF HasLiveItem
<1>6. CASE n \notin Stopped(f)
  <2>1. UNCHANGED <<route[n], item[n], status[n]>>
    BY <1>1, <1>2, <1>6
  <2>2. CASE /\ InFlight(n) /\ route[n].at # "pooled"
             /\ route[n].form.kind # "tool" /\ route[n].form.model = f.model
    <3>1. ~HasLiveItem(n)
      BY <1>6, <2>2, StoppedAre
    <3>2. route[n].at \in {"start", "late", "end", "stream"}
      BY <1>4, <2>2, <3>1 DEF InFlight, HasLiveItem, Agrees, Route, Places
    <3>3. status[n] \in Job!Outcomes
      BY <1>4, <3>1, <3>2 DEF HasLiveItem, Agrees, Job!Statuses, Live
    <3>4. QED  BY <1>2, <1>6, <3>3, <1>3, <2>2
  <2>3. QED  BY <1>3, <2>1, <2>2
<1>7. QED  BY <1>5, <1>6

LEMMA StepStopsAsTold == IInv /\ LiveListed /\ [Next]_vars => [StopsAsTold]_vars
<1>1. SUFFICES ASSUME IInv, LiveListed, Next PROVE StopsAsTold
  OBVIOUS
<1>2. SUFFICES ASSUME NEW r \in Requests, Stops(r), NEW n \in Requests \ {r}
      PROVE IF /\ InFlight(n) /\ route[n].at # "pooled"
               /\ route[n].form.kind # "tool"
               /\ route[n].form.model = route'[r].form.model
            THEN route'[n].at = "done" \/ status'[n] \in Job!Outcomes
            ELSE UNCHANGED <<route[n], item[n], status[n]>>
  BY DEF StopsAsTold
<1>3. PICK f \in Form : StopCommand(r, f)
  BY <1>1, <1>2, OnlyStopsStop
<1>4. QED  BY <1>1, <1>2, <1>3, StopStepAsTold

(* While no live item is older than the rows it lists, a stop command ends *)
(* the requests of its model and leaves all others alone.                  *)
THEOREM StopsReachAll == Spec /\ []LiveListed => StopEndsRequests
<1>1. Spec => []IInv
  BY InitHolds, StepHolds, PTL DEF Spec
<1>2. Spec /\ []LiveListed => [][StopsAsTold]_vars
  BY <1>1, StepStopsAsTold, PTL DEF Spec
<1>3. QED  BY <1>2, PTL DEF StopEndsRequests, StopsAsTold

(* The rows never get that old where the requests are no more than the     *)
(* rows listed: each has one row.                                          *)
LEMMA RoomForAll ==
  ASSUME IInv, Cardinality(Requests) <= ListLimit
  PROVE  LiveListed
<1>1. created \in Seq(Requests) /\ Len(created) \in Nat /\ ListLimit \in Nat
  BY RoutesAssumption DEF IInv, TypeOK
<1>2. created \in Injection(1..Len(created), Requests)
  <2>1. created \in [1..Len(created) -> Requests]
    BY <1>1
  <2>2. \A j, k \in 1..Len(created) : created[j] = created[k] => j = k
    BY <1>1 DEF IInv, Listed
  <2>3. QED  BY <2>1, <2>2, Fun_IsInj
<1>3. Cardinality(1..Len(created)) <= Cardinality(Requests)
  BY <1>2, RoutesAssumption, FS_Injection
<1>4. Cardinality(1..Len(created)) = Len(created)
  <2> DEFINE n == Len(created)
  <2>1. 1 \in Int /\ n \in Int /\ n \in Nat
    BY <1>1
  <2> HIDE DEF n
  <2>2. Cardinality(1..n) = IF 1 > n THEN 0 ELSE n - 1 + 1
    BY <2>1, FS_Interval
  <2>3. Cardinality(1..n) = n
    BY <2>1, <2>2
  <2>4. QED  BY <2>3 DEF n
<1>5. Cardinality(Requests) \in Nat
  BY RoutesAssumption, FS_CardinalityType
<1>6. Len(created) <= ListLimit
  BY <1>1, <1>3, <1>4, <1>5
<1>7. QED  BY <1>1, <1>6 DEF LiveListed

(* So a stop command misses nothing in a gateway that made at most         *)
(* ListLimit work items.                                                   *)
THEOREM FewStopAll ==
  ASSUME Cardinality(Requests) <= ListLimit
  PROVE  Spec => StopEndsRequests
<1>1. Spec => []IInv
  BY InitHolds, StepHolds, PTL DEF Spec
<1>2. IInv => LiveListed
  BY RoomForAll
<1>3. QED  BY <1>1, <1>2, StopsReachAll, PTL

=============================================================================
