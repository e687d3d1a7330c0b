-------------------------- MODULE GatewayJobsProofs --------------------------
(***************************************************************************)
(* Proofs about GatewayJobs, for every set of jobs and requests, queue     *)
(* limit and choice of outside events, crashes within a handler included.  *)
(*                                                                         *)
(* Between two statements of a handler the tables disagree.  The invariant *)
(* names every list of statements that may be left to do, with what the    *)
(* rows say at that point; a crash may then drop the list anywhere.        *)
(***************************************************************************)
EXTENDS GatewayJobs, SequenceTheorems, TLAPS

(* The statements a handler of j may have left, and what holds then. *)
ScriptOf(j) ==
  \/ todo = <<J(j, "queued"), W(j, "queued")>> /\ job[j] = "absent"
  \/ todo = <<W(j, "queued")>> /\ job[j] \in Live
  \/ todo = <<J(j, "queued"), J(j, "failed")>> /\ job[j] = "absent"
  \/ todo = <<J(j, "running")>>
  \/ \E o, p \in Final : todo = <<W(j, o), J(j, p)>>
  \/ \E o \in Final : todo = <<J(j, o)>> /\ work[j] \notin Live
  \/ /\ todo = <<W(j, "timed_out"), J(j, "timed_out"), J(j, "timed_out"),
                 Tell(j)>>
     /\ job[j] = "queued"
  \/ /\ todo = <<J(j, "timed_out"), J(j, "timed_out"), Tell(j)>>
     /\ job[j] = "queued" /\ work[j] \notin Live
  \/ /\ todo = <<J(j, "timed_out"), Tell(j)>>
     /\ job[j] \in {"queued", "timed_out"} /\ work[j] \notin Live
  \/ todo = <<Tell(j)>> /\ job[j] = "timed_out"

(* Those of a handler that writes a work item alone. *)
ItemScriptOf(i) ==
  \/ todo = <<W(i, "running")>>
  \/ i \in Direct /\ \E s \in {"queued"} \cup Final : todo = <<W(i, s)>>

Script ==
  \/ todo = <<>>
  \/ /\ Alive
     /\ \/ \E j \in Jobs : ScriptOf(j)
        \/ \E i \in Items : ItemScriptOf(i)

RecoveredIsQuiet ==
  phase = "recovered" => \A i \in Items : work[i] \notin Live

IInv ==
  /\ TypeOK /\ Script /\ RecoveredIsQuiet
  /\ LiveWorkHasLiveJob /\ AnswerStands

-----------------------------------------------------------------------------
(* Short sequences, and one statement. *)

LEMMA One ==
  ASSUME NEW a
  PROVE  <<a>> # <<>> /\ Head(<<a>>) = a /\ Tail(<<a>>) = <<>>
OBVIOUS

LEMMA Two ==
  ASSUME NEW a, NEW b
  PROVE  <<a, b>> # <<>> /\ Head(<<a, b>>) = a /\ Tail(<<a, b>>) = <<b>>
OBVIOUS

LEMMA Three ==
  ASSUME NEW a, NEW b, NEW c
  PROVE  /\ <<a, b, c>> # <<>> /\ Head(<<a, b, c>>) = a
         /\ Tail(<<a, b, c>>) = <<b, c>>
OBVIOUS

LEMMA Four ==
  ASSUME NEW a, NEW b, NEW c, NEW d
  PROVE  /\ <<a, b, c, d>> # <<>> /\ Head(<<a, b, c, d>>) = a
         /\ Tail(<<a, b, c, d>>) = <<b, c, d>>
OBVIOUS

LEMMA Joined ==
  ASSUME NEW a, NEW b, NEW c, NEW d
  PROVE  <<a, b>> \o <<c, d>> = <<a, b, c, d>>
<1> DEFINE S == {a, b, c, d}
           x == <<a, b>>
           y == <<c, d>>
           z == <<a, b, c, d>>
<1>1. /\ x \in Seq(S) /\ y \in Seq(S) /\ z \in Seq(S)
      /\ Len(x) = 2 /\ Len(y) = 2 /\ Len(z) = 4
      /\ x[1] = a /\ x[2] = b /\ y[1] = c /\ y[2] = d
      /\ z[1] = a /\ z[2] = b /\ z[3] = c /\ z[4] = d
  OBVIOUS
<1> HIDE DEF S, x, y, z
<1>2. /\ x \o y \in Seq(S) /\ Len(x \o y) = Len(x) + Len(y)
      /\ \A n \in 1..Len(x) + Len(y) :
           (x \o y)[n] = IF n <= Len(x) THEN x[n] ELSE y[n - Len(x)]
  BY <1>1, ConcatProperties
<1>3. /\ (x \o y)[1] = a /\ (x \o y)[2] = b
      /\ (x \o y)[3] = c /\ (x \o y)[4] = d
  BY <1>1, <1>2
<1>4. ASSUME NEW n \in 1..4
      PROVE  (x \o y)[n] = z[n]
  <2>1. n = 1 \/ n = 2 \/ n = 3 \/ n = 4
    OBVIOUS
  <2>2. QED  BY <1>1, <1>3, <2>1
<1>5. x \o y = z
  BY <1>1, <1>2, <1>4, SeqEqual
<1>6. QED  BY <1>5 DEF x, y, z

(* An UPDATE of the jobs table. *)
LEMMA JobWrite ==
  ASSUME Continue, NEW j, NEW s, Head(todo) = J(j, s)
  PROVE  /\ job' = IF StatesMove(job[j], s) THEN [job EXCEPT ![j] = s] ELSE job
         /\ UNCHANGED <<work, told, phase, run, waiter, awaited>>
         /\ todo' = Tail(todo) /\ Alive /\ Alive'
<1>1. /\ J(j, s).row = "job" /\ J(j, s).of = j /\ J(j, s).to = s
  BY DEF J
<1>2. QED  BY <1>1 DEF Continue, Alive

(* An UPDATE of gpu_work_items. *)
LEMMA WorkWrite ==
  ASSUME Continue, NEW i, NEW s, Head(todo) = W(i, s)
  PROVE  /\ work' = IF StatesMove(work[i], s)
                    THEN [work EXCEPT ![i] = s] ELSE work
         /\ UNCHANGED <<job, told, phase, run, waiter, awaited>>
         /\ todo' = Tail(todo) /\ Alive /\ Alive'
<1>1. /\ W(i, s).row = "work" /\ W(i, s).of = i /\ W(i, s).to = s
  BY DEF W
<1>2. QED  BY <1>1 DEF Continue, Alive

(* The answer of waitForOpenAiJobStart. *)
LEMMA TellWrite ==
  ASSUME Continue, NEW j, Head(todo) = Tell(j)
  PROVE  /\ told' = [told EXCEPT ![j] = "timed_out"]
         /\ UNCHANGED <<job, work, phase, run, waiter, awaited>>
         /\ todo' = Tail(todo) /\ Alive /\ Alive'
<1>1. /\ Tell(j).row = "answer" /\ Tell(j).of = j /\ Tell(j).to = "timed_out"
  BY DEF Tell
<1>2. QED  BY <1>1 DEF Continue, Alive

-----------------------------------------------------------------------------
(* What a statement does to the rows, whichever script it belongs to. *)

(* A job is ended only when its work item is not live. *)
LEMMA JobRow ==
  ASSUME IInv, Continue, NEW j \in Jobs, NEW s, Head(todo) = J(j, s),
         \/ s = "queued" \/ s = "running"
         \/ s \in Final /\ work[j] \notin Live
  PROVE  TypeOK' /\ RecoveredIsQuiet' /\ LiveWorkHasLiveJob' /\ AnswerStands'
<1>1. /\ job' = IF StatesMove(job[j], s) THEN [job EXCEPT ![j] = s] ELSE job
      /\ UNCHANGED <<work, told, phase, run, waiter, awaited>>
  BY JobWrite
<1>2. TypeOK /\ RecoveredIsQuiet /\ LiveWorkHasLiveJob /\ AnswerStands
  BY DEF IInv
<1>3. TypeOK'
  BY <1>1, <1>2 DEF TypeOK, RowStates, Live
<1>4. RecoveredIsQuiet'
  BY <1>1, <1>2 DEF RecoveredIsQuiet
<1>5. CASE ~StatesMove(job[j], s)
  <2>1. UNCHANGED <<job, work, told>>
    BY <1>1, <1>5
  <2>2. QED
    BY <1>2, <1>3, <1>4, <2>1 DEF LiveWorkHasLiveJob, AnswerStands
<1>6. CASE StatesMove(job[j], s)
  <2>1. job' = [job EXCEPT ![j] = s] /\ job \in [Jobs -> RowStates]
    BY <1>1, <1>2, <1>6 DEF TypeOK
  <2>2. job[j] \notin Final /\ job[j] # "pruned"
    BY <1>6 DEF StatesMove, Live, Final
  <2>3. told[j] = "none"
    BY <1>2, <2>2 DEF AnswerStands, TypeOK
  <2>4. AnswerStands'
    BY <1>1, <1>2, <2>1, <2>3 DEF AnswerStands
  <2>5. work[j] \in Live => s \in Live
    BY <1>2 DEF Live, Final
  <2>6. LiveWorkHasLiveJob'
    BY <1>1, <1>2, <2>1, <2>5 DEF LiveWorkHasLiveJob
  <2>7. QED  BY <1>3, <1>4, <2>4, <2>6
<1>7. QED  BY <1>5, <1>6

(* A work item starts only when its job is live. *)
LEMMA WorkRow ==
  ASSUME IInv, Continue, NEW i \in Items, NEW s, Head(todo) = W(i, s),
         \/ s = "running" \/ s \in Final
         \/ s = "queued" /\ (i \in Jobs => job[i] \in Live)
  PROVE  TypeOK' /\ RecoveredIsQuiet' /\ LiveWorkHasLiveJob' /\ AnswerStands'
<1>1. /\ work' = IF StatesMove(work[i], s)
                 THEN [work EXCEPT ![i] = s] ELSE work
      /\ UNCHANGED <<job, told, phase, run, waiter, awaited>>
      /\ Alive
  BY WorkWrite
<1>2. TypeOK /\ RecoveredIsQuiet /\ LiveWorkHasLiveJob /\ AnswerStands
  BY DEF IInv
<1>3. TypeOK'
  BY <1>1, <1>2 DEF TypeOK, RowStates, Live, Final
<1>4. RecoveredIsQuiet'
  BY <1>1 DEF RecoveredIsQuiet, Alive
<1>5. AnswerStands'
  BY <1>1, <1>2 DEF AnswerStands
<1>6. CASE ~StatesMove(work[i], s)
  BY <1>1, <1>2, <1>3, <1>4, <1>5, <1>6 DEF LiveWorkHasLiveJob
<1>7. CASE StatesMove(work[i], s)
  <2>1. work' = [work EXCEPT ![i] = s]
        /\ work \in [Items -> RowStates \ {"pruned"}]
    BY <1>1, <1>2, <1>7 DEF TypeOK
  <2>2. s = "running" => work[i] \in Live
    BY <1>7 DEF StatesMove, Live, Final
  <2>3. i \in Jobs /\ s \in Live => job[i] \in Live
    BY <1>2, <2>2 DEF LiveWorkHasLiveJob, Live, Final
  <2>4. LiveWorkHasLiveJob'
    BY <1>1, <1>2, <2>1, <2>3 DEF LiveWorkHasLiveJob, Items
  <2>5. QED  BY <1>3, <1>4, <1>5, <2>4
<1>8. QED  BY <1>6, <1>7

(* A statement that ends a row leaves it ended, or as it was. *)
LEMMA Moved ==
  ASSUME NEW from, NEW s
  PROVE  /\ s \in Final /\ from \in Live => StatesMove(from, s)
         /\ s = "queued" /\ from = "absent" => StatesMove(from, s)
         /\ s \in Final => s \notin Live
         /\ StatesMove(from, s) /\ s \in Final => from \in Live
BY DEF StatesMove, Final, Live

-----------------------------------------------------------------------------
(* Each list of statements, one statement on. *)

LEMMA ScriptContinues ==
  ASSUME IInv, Continue, NEW j \in Jobs, ScriptOf(j)
  PROVE  IInv'
<1> DEFINE Rest == TypeOK' /\ RecoveredIsQuiet' /\ LiveWorkHasLiveJob'
                     /\ AnswerStands'
<1>1. /\ job \in [Jobs -> RowStates] /\ work \in [Items -> RowStates]
      /\ told \in [Jobs -> {"none"} \cup Final]
      /\ j \in Items
  BY DEF IInv, TypeOK, Items
<1>2. SUFFICES Rest /\ Script'
  BY DEF IInv
<1>3. "timed_out" \in Final /\ "failed" \in Final
  BY DEF Final
<1>5. CASE todo = <<J(j, "queued"), W(j, "queued")>> /\ job[j] = "absent"
  <2>1. Head(todo) = J(j, "queued") /\ Tail(todo) = <<W(j, "queued")>>
    BY <1>5, Two
  <2>2. /\ job' = IF StatesMove(job[j], "queued")
                  THEN [job EXCEPT ![j] = "queued"] ELSE job
        /\ todo' = <<W(j, "queued")>> /\ Alive'
    BY <2>1, JobWrite
  <2>3. job'[j] \in Live
    BY <1>1, <1>5, <2>2, Moved DEF Live
  <2>4. ScriptOf(j)'
    BY <2>2, <2>3 DEF ScriptOf
  <2>5. Rest
    BY <2>1, JobRow
  <2>6. QED  BY <2>2, <2>4, <2>5 DEF Script
<1>6. CASE todo = <<W(j, "queued")>> /\ job[j] \in Live
  <2>1. Head(todo) = W(j, "queued") /\ Tail(todo) = <<>>
    BY <1>6, One
  <2>2. todo' = <<>>
    BY <2>1, WorkWrite
  <2>3. Rest
    BY <1>1, <1>6, <2>1, WorkRow
  <2>4. QED  BY <2>2, <2>3 DEF Script
<1>7. CASE todo = <<J(j, "queued"), J(j, "failed")>> /\ job[j] = "absent"
  <2>1. Head(todo) = J(j, "queued") /\ Tail(todo) = <<J(j, "failed")>>
    BY <1>7, Two
  <2>2. UNCHANGED work /\ todo' = <<J(j, "failed")>> /\ Alive'
    BY <2>1, JobWrite
  <2>3. work[j] \notin Live
    BY <1>7 DEF IInv, LiveWorkHasLiveJob, Live
  <2>4. ScriptOf(j)'
    BY <1>3, <2>2, <2>3 DEF ScriptOf
  <2>5. Rest
    BY <2>1, JobRow
  <2>6. QED  BY <2>2, <2>4, <2>5 DEF Script
<1>8. CASE todo = <<J(j, "running")>>
  <2>1. Head(todo) = J(j, "running") /\ Tail(todo) = <<>>
    BY <1>8, One
  <2>2. todo' = <<>>
    BY <2>1, JobWrite
  <2>3. Rest
    BY <2>1, JobRow
  <2>4. QED  BY <2>2, <2>3 DEF Script
<1>9. ASSUME NEW o \in Final, NEW p \in Final, todo = <<W(j, o), J(j, p)>>
      PROVE  Rest /\ Script'
  <2>1. Head(todo) = W(j, o) /\ Tail(todo) = <<J(j, p)>>
    BY <1>9, Two
  <2>2. /\ work' = IF StatesMove(work[j], o) THEN [work EXCEPT ![j] = o]
                   ELSE work
        /\ todo' = <<J(j, p)>> /\ Alive'
    BY <2>1, WorkWrite
  <2>3. work'[j] \notin Live
    BY <1>1, <2>2, Moved
  <2>4. ScriptOf(j)'
    BY <2>2, <2>3 DEF ScriptOf
  <2>5. Rest
    BY <1>1, <2>1, WorkRow
  <2>6. QED  BY <2>2, <2>4, <2>5 DEF Script
<1>10. ASSUME NEW o \in Final, todo = <<J(j, o)>>, work[j] \notin Live
       PROVE  Rest /\ Script'
  <2>1. Head(todo) = J(j, o) /\ Tail(todo) = <<>>
    BY <1>10, One
  <2>2. todo' = <<>>
    BY <2>1, JobWrite
  <2>3. Rest
    BY <1>10, <2>1, JobRow
  <2>4. QED  BY <2>2, <2>3 DEF Script
<1>11. CASE /\ todo = <<W(j, "timed_out"), J(j, "timed_out"),
                        J(j, "timed_out"), Tell(j)>>
            /\ job[j] = "queued"
  <2> DEFINE rest == <<J(j, "timed_out"), J(j, "timed_out"), Tell(j)>>
  <2>1. Head(todo) = W(j, "timed_out") /\ Tail(todo) = rest
    BY <1>11, Four
  <2>2. /\ work' = IF StatesMove(work[j], "timed_out")
                   THEN [work EXCEPT ![j] = "timed_out"] ELSE work
        /\ UNCHANGED job /\ todo' = rest /\ Alive'
    BY <2>1, WorkWrite
  <2>3. work'[j] \notin Live
    BY <1>1, <1>3, <2>2, Moved
  <2>4. ScriptOf(j)'
    BY <1>11, <2>2, <2>3 DEF ScriptOf
  <2>5. Rest
    BY <1>1, <1>3, <2>1, WorkRow
  <2>6. QED  BY <2>2, <2>4, <2>5 DEF Script
<1>12. CASE /\ todo = <<J(j, "timed_out"), J(j, "timed_out"), Tell(j)>>
            /\ job[j] = "queued" /\ work[j] \notin Live
  <2> DEFINE rest == <<J(j, "timed_out"), Tell(j)>>
  <2>1. Head(todo) = J(j, "timed_out") /\ Tail(todo) = rest
    BY <1>12, Three
  <2>2. /\ job' = IF StatesMove(job[j], "timed_out")
                  THEN [job EXCEPT ![j] = "timed_out"] ELSE job
        /\ UNCHANGED work /\ todo' = rest /\ Alive'
    BY <2>1, JobWrite
  <2>3. job'[j] \in {"queued", "timed_out"}
    BY <1>1, <1>12, <2>2
  <2>4. ScriptOf(j)'
    BY <1>12, <2>2, <2>3 DEF ScriptOf
  <2>5. Rest
    BY <1>3, <1>12, <2>1, JobRow
  <2>6. QED  BY <2>2, <2>4, <2>5 DEF Script
<1>13. CASE /\ todo = <<J(j, "timed_out"), Tell(j)>>
            /\ job[j] \in {"queued", "timed_out"} /\ work[j] \notin Live
  <2>1. Head(todo) = J(j, "timed_out") /\ Tail(todo) = <<Tell(j)>>
    BY <1>13, Two
  <2>2. /\ job' = IF StatesMove(job[j], "timed_out")
                  THEN [job EXCEPT ![j] = "timed_out"] ELSE job
        /\ UNCHANGED work /\ todo' = <<Tell(j)>> /\ Alive'
    BY <2>1, JobWrite
  <2>3. job'[j] = "timed_out"
    BY <1>1, <1>3, <1>13, <2>2, Moved DEF Live
  <2>4. ScriptOf(j)'
    BY <2>2, <2>3 DEF ScriptOf
  <2>5. Rest
    BY <1>3, <1>13, <2>1, JobRow
  <2>6. QED  BY <2>2, <2>4, <2>5 DEF Script
<1>14. CASE todo = <<Tell(j)>> /\ job[j] = "timed_out"
  <2>1. Head(todo) = Tell(j) /\ Tail(todo) = <<>>
    BY <1>14, One
  <2>2. /\ told' = [told EXCEPT ![j] = "timed_out"]
        /\ UNCHANGED <<job, work, phase, run, waiter, awaited>>
        /\ todo' = <<>>
    BY <2>1, TellWrite
  <2>3. AnswerStands'
    BY <1>1, <1>14, <2>2 DEF IInv, AnswerStands
  <2>4. TypeOK' /\ RecoveredIsQuiet' /\ LiveWorkHasLiveJob'
    BY <1>3, <2>2 DEF IInv, TypeOK, RecoveredIsQuiet, LiveWorkHasLiveJob
  <2>5. QED  BY <2>2, <2>3, <2>4 DEF Script
<1> HIDE DEF Rest
<1>15. QED
  BY <1>5, <1>6, <1>7, <1>8, <1>9, <1>10, <1>11, <1>12, <1>13, <1>14
  DEF ScriptOf

LEMMA ItemScriptContinues ==
  ASSUME IInv, Continue, NEW i \in Items, ItemScriptOf(i)
  PROVE  IInv'
<1>1. PICK s : /\ todo = <<W(i, s)>>
               /\ \/ s = "running" \/ s \in Final
                  \/ s = "queued" /\ i \in Direct
  BY DEF ItemScriptOf
<1>2. i \in Direct => i \notin Jobs
  BY JobsAssumption
<1>3. Head(todo) = W(i, s) /\ Tail(todo) = <<>>
  BY <1>1, One
<1>4. todo' = <<>>
  BY <1>3, WorkWrite
<1>5. TypeOK' /\ RecoveredIsQuiet' /\ LiveWorkHasLiveJob' /\ AnswerStands'
  BY <1>1, <1>2, <1>3, WorkRow
<1>6. QED  BY <1>4, <1>5 DEF IInv, Script

LEMMA ContinueHolds == IInv /\ Continue => IInv'
<1>1. SUFFICES ASSUME IInv, Continue PROVE IInv'
  OBVIOUS
<1>2. \/ \E j \in Jobs : ScriptOf(j)
      \/ \E i \in Items : ItemScriptOf(i)
  BY <1>1 DEF IInv, Script, Continue
<1>3. QED  BY <1>1, <1>2, ScriptContinues, ItemScriptContinues

-----------------------------------------------------------------------------
(* The handlers, which leave the tables to their statements. *)

(* What a handler that writes no row has to show. *)
LEMMA Handler ==
  ASSUME IInv, UNCHANGED <<job, work, told>>, phase' \in Phases \ {"recovered"},
         run' \in [Items -> {"none", "done"} \cup Active],
         waiter' \in [Jobs -> {"none", "start", "end"}],
         awaited' \subseteq Jobs, Script'
  PROVE  IInv'
<1>1. TypeOK'
  BY DEF IInv, TypeOK
<1>2. RecoveredIsQuiet'
  BY DEF RecoveredIsQuiet
<1>3. LiveWorkHasLiveJob' /\ AnswerStands'
  BY DEF IInv, LiveWorkHasLiveJob, AnswerStands
<1>4. QED  BY <1>1, <1>2, <1>3 DEF IInv

(* The same of a handler of j or i while the gateway runs. *)
LEMMA HandlerOf ==
  ASSUME IInv, Idle, UNCHANGED <<job, work, told, phase, awaited>>,
         run' \in [Items -> {"none", "done"} \cup Active],
         waiter' \in [Jobs -> {"none", "start", "end"}],
         \/ todo' = <<>>
         \/ \E j \in Jobs : ScriptOf(j)'
         \/ \E i \in Items : ItemScriptOf(i)'
  PROVE  IInv'
<1>1. Alive' /\ phase' \in Phases \ {"recovered"}
  BY DEF Idle, Alive, Phases
<1>2. Script'
  BY <1>1 DEF Script
<1>3. awaited' \subseteq Jobs
  BY DEF IInv, TypeOK
<1>4. QED  BY <1>1, <1>2, <1>3, Handler

LEMMA SubmitHolds ==
  ASSUME IInv, NEW j \in Jobs, Submit(j)
  PROVE  IInv'
<1>1. PICK known \in BOOLEAN :
        /\ todo' = Submission(j, known)
        /\ run' = [run EXCEPT ![j] = IF known THEN "waiting" ELSE "done"]
  BY DEF Submit
<1>2. ScriptOf(j)'
  BY <1>1 DEF Submit, Submission, ScriptOf
<1>3. /\ run' \in [Items -> {"none", "done"} \cup Active]
      /\ waiter' \in [Jobs -> {"none", "start", "end"}]
  BY <1>1 DEF Submit, IInv, TypeOK, Active
<1>4. QED  BY <1>2, <1>3, HandlerOf DEF Submit

(* The lists of the handlers that end an item or cancel it. *)
LEMMA EndedScript ==
  ASSUME NEW i \in Items, NEW o \in Final, NEW p \in Final,
         todo' = IF i \in Jobs THEN <<W(i, o), J(i, p)>> ELSE <<W(i, o)>>
  PROVE  \/ \E j \in Jobs : ScriptOf(j)'
         \/ \E k \in Items : ItemScriptOf(k)'
<1>1. CASE i \in Jobs
  <2>1. ScriptOf(i)'
    BY <1>1 DEF ScriptOf
  <2>2. QED  BY <1>1, <2>1
<1>2. CASE i \notin Jobs
  <2>1. ItemScriptOf(i)'
    BY <1>2 DEF ItemScriptOf, Items
  <2>2. QED  BY <2>1
<1>3. QED  BY <1>1, <1>2

LEMMA DroppedType ==
  ASSUME IInv, NEW i \in Items
  PROVE  Dropped(i) \in [Items -> {"none", "done"} \cup Active]
BY DEF IInv, TypeOK, Dropped

(* The steps of an item: begun, admitted, refused or ended. *)
LEMMA ItemHolds ==
  ASSUME IInv, NEW i \in Items, ItemStep(i)
  PROVE  IInv'
<1>1. "failed" \in Final /\ "succeeded" \in Final /\ "cancelled" \in Final
  BY DEF Final
<1>2. /\ Idle /\ UNCHANGED <<job, work, told, phase, awaited>>
      /\ waiter' \in [Jobs -> {"none", "start", "end"}]
      /\ run' \in [Items -> {"none", "done"} \cup Active]
  BY DEF ItemStep, Begin, Admitted, AdmissionFails, CallEnds, IInv, TypeOK,
         Active
<1>3. CASE Begin(i)
  <2>1. ItemScriptOf(i)'
    BY <1>3 DEF Begin, ItemScriptOf
  <2>2. QED  BY <1>2, <2>1, HandlerOf
<1>4. CASE Admitted(i)
  <2>1. CASE i \in Jobs
    <3>1. ScriptOf(i)'
      BY <1>4, <2>1 DEF Admitted, ScriptOf
    <3>2. QED  BY <1>2, <2>1, <3>1, HandlerOf
  <2>2. CASE i \notin Jobs
    BY <1>2, <1>4, <2>2, HandlerOf DEF Admitted
  <2>3. QED  BY <2>1, <2>2
<1>5. CASE AdmissionFails(i)
  <2>1. \/ \E j \in Jobs : ScriptOf(j)'
        \/ \E k \in Items : ItemScriptOf(k)'
    BY <1>1, <1>5, EndedScript DEF AdmissionFails, Refused, Ended
  <2>2. QED  BY <1>2, <2>1, HandlerOf
<1>6. CASE CallEnds(i)
  <2>1. PICK ok \in BOOLEAN : todo' = CallEnded(i, ok)
    BY <1>6 DEF CallEnds
  <2>2. \/ \E j \in Jobs : ScriptOf(j)'
        \/ \E k \in Items : ItemScriptOf(k)'
    <3> DEFINE o == IF ok THEN "succeeded"
                    ELSE IF work[i] \in Final THEN "cancelled" ELSE "failed"
               p == IF ok THEN "succeeded" ELSE "failed"
    <3>1. o \in Final /\ p \in Final
      BY <1>1
    <3>2. todo' = IF i \in Jobs THEN <<W(i, o), J(i, p)>> ELSE <<W(i, o)>>
      BY <2>1 DEF CallEnded
    <3> HIDE DEF o, p
    <3>3. QED  BY <3>1, <3>2, EndedScript
  <2>3. QED  BY <1>2, <2>2, HandlerOf
<1>7. QED  BY <1>3, <1>4, <1>5, <1>6 DEF ItemStep

LEMMA CancelHolds ==
  ASSUME IInv, NEW i \in Items, NEW o \in Final, Idle,
         todo' = Cancelled(i, o), run' = Dropped(i),
         UNCHANGED <<phase, job, work, waiter, told, awaited>>
  PROVE  IInv'
<1>1. \/ \E j \in Jobs : ScriptOf(j)'
      \/ \E k \in Items : ItemScriptOf(k)'
  BY EndedScript DEF Cancelled, Ended
<1>2. /\ run' \in [Items -> {"none", "done"} \cup Active]
      /\ waiter' \in [Jobs -> {"none", "start", "end"}]
  BY DroppedType DEF IInv, TypeOK
<1>3. QED  BY <1>1, <1>2, HandlerOf

LEMMA QueueWaitHolds ==
  ASSUME IInv, NEW j \in Jobs, QueueWaitTimeout(j)
  PROVE  IInv'
<1>1. /\ Idle /\ job[j] = "queued"
      /\ todo' = QueueWaitEnded(j)
      /\ waiter' = [waiter EXCEPT ![j] = "none"]
      /\ run' = IF work[j] = "absent" THEN run ELSE Dropped(j)
      /\ UNCHANGED <<phase, job, work, told, awaited>>
  BY DEF QueueWaitTimeout, QueueWaitExceeded
<1>2. ScriptOf(j)'
  <2>1. CASE work[j] = "absent"
    <3>1. todo' = <<>> \o <<J(j, "timed_out"), Tell(j)>>
      BY <1>1, <2>1 DEF QueueWaitEnded
    <3>2. todo' = <<J(j, "timed_out"), Tell(j)>>
      BY <3>1
    <3>3. work[j] \notin Live
      BY <2>1 DEF Live
    <3>4. QED  BY <1>1, <3>2, <3>3 DEF ScriptOf
  <2>2. CASE work[j] # "absent"
    <3>1. todo' = <<W(j, "timed_out"), J(j, "timed_out")>>
                    \o <<J(j, "timed_out"), Tell(j)>>
      BY <1>1, <2>2 DEF QueueWaitEnded, Cancelled, Ended
    <3>2. todo' = <<W(j, "timed_out"), J(j, "timed_out"), J(j, "timed_out"),
                    Tell(j)>>
      BY <3>1, Joined
    <3>3. QED  BY <1>1, <3>2 DEF ScriptOf
  <2>3. QED  BY <2>1, <2>2
<1>3. /\ run' \in [Items -> {"none", "done"} \cup Active]
      /\ waiter' \in [Jobs -> {"none", "start", "end"}]
  BY <1>1, DroppedType DEF IInv, TypeOK, Items
<1>4. QED  BY <1>1, <1>2, <1>3, HandlerOf

(* The answer of waitForJob is the row's. *)
LEMMA EndSeenHolds ==
  ASSUME IInv, NEW j \in Jobs, EndSeen(j)
  PROVE  IInv'
<1>1. /\ Idle /\ job[j] \in Final
      /\ waiter' = [waiter EXCEPT ![j] = "none"]
      /\ told' = [told EXCEPT ![j] = job[j]]
      /\ UNCHANGED <<phase, job, work, todo, run, awaited>>
  BY DEF EndSeen, IsTerminal
<1>2. TypeOK' /\ AnswerStands'
  BY <1>1 DEF IInv, TypeOK, AnswerStands
<1>3. RecoveredIsQuiet' /\ LiveWorkHasLiveJob' /\ Script'
  BY <1>1 DEF IInv, RecoveredIsQuiet, LiveWorkHasLiveJob, Idle, Script
<1>4. QED  BY <1>2, <1>3 DEF IInv

LEMMA PruneHolds ==
  ASSUME IInv, NEW j \in Jobs, Prune(j)
  PROVE  IInv'
<1>1. /\ Idle /\ job[j] \in Final
      /\ job' = [job EXCEPT ![j] = "pruned"]
      /\ UNCHANGED <<phase, work, todo, run, waiter, told, awaited>>
  BY DEF Prune
<1>2. TypeOK' /\ AnswerStands'
  BY <1>1 DEF IInv, TypeOK, RowStates, AnswerStands
<1>3. work[j] \notin Live
  BY <1>1 DEF IInv, LiveWorkHasLiveJob, Live, Final
<1>4. LiveWorkHasLiveJob'
  BY <1>1, <1>3 DEF IInv, TypeOK, LiveWorkHasLiveJob
<1>5. RecoveredIsQuiet' /\ Script'
  BY <1>1 DEF IInv, RecoveredIsQuiet, Idle, Script
<1>6. QED  BY <1>2, <1>4, <1>5 DEF IInv

-----------------------------------------------------------------------------
(* The process. *)

LEMMA DiesHolds == IInv /\ Dies => IInv'
<1>1. SUFFICES ASSUME IInv, Dies PROVE IInv'
  OBVIOUS
<1>2. /\ UNCHANGED <<job, work, told>>
      /\ phase' \in Phases \ {"recovered"}
      /\ waiter' \in [Jobs -> {"none", "start", "end"}]
      /\ awaited' \subseteq Jobs
  BY <1>1 DEF Dies, Phases
<1>3. run' \in [Items -> {"none", "done"} \cup Active]
  BY <1>1 DEF Dies
<1>4. Script'
  BY <1>1 DEF Dies, Script
<1>5. QED  BY <1>1, <1>2, <1>3, <1>4, Handler

(* The first transaction of a start leaves no live item. *)
LEMMA RecoverHolds == IInv /\ RecoverGpuWork => IInv'
<1>1. SUFFICES ASSUME IInv, RecoverGpuWork PROVE IInv'
  OBVIOUS
<1>2. /\ phase = "down" /\ phase' = "recovered"
      /\ work' = [i \in Items |->
                    IF i \in Interrupted THEN "failed" ELSE work[i]]
      /\ job' = [j \in Jobs |-> IF j \in Interrupted /\ job[j] \in Live
                                THEN "failed" ELSE job[j]]
      /\ UNCHANGED <<todo, run, waiter, told, awaited>>
  BY <1>1 DEF RecoverGpuWork
<1>3. TypeOK'
  BY <1>1, <1>2 DEF IInv, TypeOK, RowStates, Final, Phases
<1>4. \A i \in Items : work'[i] \notin Live
  BY <1>2 DEF Interrupted, Live
<1>5. RecoveredIsQuiet' /\ LiveWorkHasLiveJob'
  BY <1>4 DEF RecoveredIsQuiet, LiveWorkHasLiveJob, Items
<1>6. AnswerStands'
  <2>1. ASSUME NEW j \in Jobs, told[j] # "none"
        PROVE  job'[j] \in {told[j], "pruned"}
    <3>1. job[j] \in {told[j], "pruned"} /\ told[j] \in Final
      BY <1>1, <2>1 DEF IInv, AnswerStands, TypeOK
    <3>2. job[j] \notin Live
      BY <3>1 DEF Live, Final
    <3>3. QED  BY <1>2, <3>1, <3>2
  <2>2. QED  BY <1>2, <2>1 DEF AnswerStands
<1>7. Script'
  BY <1>1, <1>2 DEF IInv, Script, Alive
<1>8. QED  BY <1>3, <1>5, <1>6, <1>7 DEF IInv

(* The second ends the jobs that say they run. *)
LEMMA FailRunningHolds == IInv /\ FailRunningJobs => IInv'
<1>1. SUFFICES ASSUME IInv, FailRunningJobs PROVE IInv'
  OBVIOUS
<1>2. /\ phase = "recovered" /\ phase' = "up"
      /\ job' = [j \in Jobs |->
                   IF j \in FailedOnStartup THEN "failed" ELSE job[j]]
      /\ UNCHANGED <<work, todo, run, waiter, told, awaited>>
  BY <1>1 DEF FailRunningJobs
<1>3. TypeOK'
  BY <1>1, <1>2 DEF IInv, TypeOK, RowStates, Final, Phases
<1>4. \A i \in Items : work[i] \notin Live
  BY <1>1, <1>2 DEF IInv, RecoveredIsQuiet
<1>5. RecoveredIsQuiet' /\ LiveWorkHasLiveJob'
  BY <1>2, <1>4 DEF RecoveredIsQuiet, LiveWorkHasLiveJob, Items
<1>6. AnswerStands'
  <2>1. ASSUME NEW j \in Jobs, told[j] # "none"
        PROVE  job'[j] \in {told[j], "pruned"}
    <3>1. job[j] \in {told[j], "pruned"} /\ told[j] \in Final
      BY <1>1, <2>1 DEF IInv, AnswerStands, TypeOK
    <3>2. j \notin FailedOnStartup
      BY <3>1 DEF FailedOnStartup, Final
    <3>3. QED  BY <1>2, <3>1, <3>2
  <2>2. QED  BY <1>2, <2>1 DEF AnswerStands
<1>7. Script'
  BY <1>1, <1>2 DEF IInv, Script, Alive
<1>8. QED  BY <1>3, <1>5, <1>6, <1>7 DEF IInv

LEMMA InitHolds == Init => IInv
<1>1. SUFFICES ASSUME Init PROVE IInv
  OBVIOUS
<1>2. TypeOK
  BY <1>1 DEF Init, TypeOK, Phases, RowStates
<1>3. RecoveredIsQuiet /\ LiveWorkHasLiveJob /\ AnswerStands /\ Script
  BY <1>1
  DEF Init, RecoveredIsQuiet, LiveWorkHasLiveJob, AnswerStands, Script, Live,
      Items
<1>4. QED  BY <1>2, <1>3 DEF IInv

LEMMA StepHolds == IInv /\ [Next]_vars => IInv'
<1>1. SUFFICES ASSUME IInv, [Next]_vars PROVE IInv'
  OBVIOUS
<1>2. CASE Continue
  BY <1>1, <1>2, ContinueHolds
<1>3. ASSUME NEW j \in Jobs, Submit(j) PROVE IInv'
  BY <1>1, <1>3, SubmitHolds
<1>4. ASSUME NEW j \in Jobs, Wait(j) \/ StartSeen(j) PROVE IInv'
  <2>1. /\ Idle /\ UNCHANGED <<job, work, told, phase, awaited, todo, run>>
        /\ waiter' \in [Jobs -> {"none", "start", "end"}]
    BY <1>1, <1>4 DEF Wait, StartSeen, IInv, TypeOK
  <2>2. todo' = <<>> /\ run' \in [Items -> {"none", "done"} \cup Active]
    BY <1>1, <2>1 DEF Idle, IInv, TypeOK
  <2>3. QED  BY <1>1, <2>1, <2>2, HandlerOf
<1>5. ASSUME NEW j \in Jobs, EndSeen(j) PROVE IInv'
  BY <1>1, <1>5, EndSeenHolds
<1>6. ASSUME NEW j \in Jobs, QueueWaitTimeout(j) PROVE IInv'
  BY <1>1, <1>6, QueueWaitHolds
<1>7. ASSUME NEW j \in Jobs, Prune(j) PROVE IInv'
  BY <1>1, <1>7, PruneHolds
<1>8. ASSUME NEW i \in Items, ItemStep(i) PROVE IInv'
  BY <1>1, <1>8, ItemHolds
<1>9. ASSUME NEW i \in Items, Cancel(i) PROVE IInv'
  <2>1. PICK o \in {"cancelled", "failed"} : todo' = Cancelled(i, o)
    BY <1>9 DEF Cancel
  <2>2. o \in Final
    BY DEF Final
  <2>3. QED  BY <1>1, <1>9, <2>1, <2>2, CancelHolds DEF Cancel
<1>10. ASSUME NEW i \in Direct, Request(i) PROVE IInv'
  <2>1. i \in Items /\ ItemScriptOf(i)'
    BY <1>10 DEF Request, ItemScriptOf, Items
  <2>2. /\ Idle /\ UNCHANGED <<job, work, told, phase, awaited>>
        /\ run' \in [Items -> {"none", "done"} \cup Active]
        /\ waiter' \in [Jobs -> {"none", "start", "end"}]
    BY <1>1, <1>10 DEF Request, IInv, TypeOK, Active
  <2>3. QED  BY <1>1, <2>1, <2>2, HandlerOf
<1>11. ASSUME NEW i \in Direct, QueueTimeout(i) PROVE IInv'
  <2>1. i \in Items /\ "timed_out" \in Final
    BY DEF Items, Final
  <2>2. QED  BY <1>1, <1>11, <2>1, CancelHolds DEF QueueTimeout
<1>12. CASE Stop
  <2>1. /\ UNCHANGED <<job, work, told, run, waiter>>
        /\ phase' \in Phases \ {"recovered"} /\ awaited' \subseteq Jobs
    BY <1>12 DEF Stop, Phases, Executing
  <2>2. Script'
    BY <1>12 DEF Stop, Idle, Script
  <2>3. /\ run' \in [Items -> {"none", "done"} \cup Active]
        /\ waiter' \in [Jobs -> {"none", "start", "end"}]
    BY <1>1, <2>1 DEF IInv, TypeOK
  <2>4. QED  BY <1>1, <2>1, <2>2, <2>3, Handler
<1>13. CASE Exit \/ Crash
  BY <1>1, <1>13, DiesHolds DEF Exit, Crash
<1>14. CASE RecoverGpuWork
  BY <1>1, <1>14, RecoverHolds
<1>15. CASE FailRunningJobs
  BY <1>1, <1>15, FailRunningHolds
<1>16. CASE UNCHANGED vars
  <2>1. UNCHANGED state
    BY <1>16 DEF vars
  <2>2. TypeOK' /\ RecoveredIsQuiet'
    BY <1>1, <2>1 DEF state, IInv, TypeOK, RecoveredIsQuiet
  <2>3. LiveWorkHasLiveJob' /\ AnswerStands'
    BY <1>1, <2>1 DEF state, IInv, LiveWorkHasLiveJob, AnswerStands
  <2>4. Script'
    BY <1>1, <2>1 DEF state, IInv, Script, ScriptOf, ItemScriptOf, Alive
  <2>5. QED  BY <2>2, <2>3, <2>4 DEF IInv
<1>17. QED
  BY <1>1, <1>2, <1>3, <1>4, <1>5, <1>6, <1>7, <1>8, <1>9, <1>10, <1>11,
     <1>12, <1>13, <1>14, <1>15, <1>16
  DEF Next, Step, WaiterStep

-----------------------------------------------------------------------------
(* The refinement. *)

LEMMA StatesOfRows ==
  /\ Promise!Outcomes = Final
  /\ \A s : s \in {"queued", "running"} <=> s \in Live
BY DEF Promise!Outcomes, Final, Live

LEMMA InitPromised == Init => Promise!Init
BY DEF Init, Promise!Init

(* One job that ends. *)
LEMMA EndsOne ==
  ASSUME TypeOK, NEW j \in Jobs, NEW o \in Final, job[j] \in Live,
         job' = [job EXCEPT ![j] = o], UNCHANGED told
  PROVE  Promise!EndSome
<1>1. job' = [k \in Jobs |-> IF k \in {j} THEN o ELSE job[k]]
  BY DEF TypeOK
<1>2. \A k \in {j} : job[k] \in {"queued", "running"}
  BY StatesOfRows
<1>3. Promise!End({j}, o)
  BY <1>1, <1>2 DEF Promise!End
<1>4. {j} \in SUBSET Jobs /\ o \in Promise!Outcomes
  BY StatesOfRows
<1>5. QED  BY <1>3, <1>4 DEF Promise!EndSome

(* Jobs that a start fails. *)
LEMMA EndsFailed ==
  ASSUME NEW ended \in SUBSET Jobs, \A j \in ended : job[j] \in Live,
         job' = [j \in Jobs |-> IF j \in ended THEN "failed" ELSE job[j]],
         UNCHANGED told
  PROVE  Promise!EndSome
<1>1. \A j \in ended : job[j] \in {"queued", "running"}
  BY StatesOfRows
<1>2. Promise!End(ended, "failed")
  BY <1>1 DEF Promise!End
<1>3. "failed" \in Promise!Outcomes
  BY DEF Promise!Outcomes
<1>4. QED  BY <1>2, <1>3 DEF Promise!EndSome

(* A statement on a job's row is a step of the promise, or changes nothing. *)
LEMMA JobWritePromised ==
  ASSUME IInv, Continue, NEW j \in Jobs, NEW s \in Final \cup Live,
         Head(todo) = J(j, s)
  PROVE  Promise!Next \/ UNCHANGED <<job, told>>
<1>1. /\ job' = IF StatesMove(job[j], s) THEN [job EXCEPT ![j] = s] ELSE job
      /\ UNCHANGED told
  BY JobWrite
<1>2. CASE StatesMove(job[j], s)
  <2>1. job' = [job EXCEPT ![j] = s]
    BY <1>1, <1>2
  <2>2. CASE s = "queued"
    <3>1. job[j] = "absent"
      BY <1>2, <2>2 DEF StatesMove, Final
    <3>2. Promise!Accept(j)
      BY <1>1, <2>1, <2>2, <3>1 DEF Promise!Accept
    <3>3. QED  BY <3>2 DEF Promise!Next
  <2>3. CASE s = "running"
    <3>1. job[j] = "queued"
      BY <1>2, <2>3 DEF StatesMove, Final
    <3>2. Promise!Run(j)
      BY <1>1, <2>1, <2>3, <3>1 DEF Promise!Run
    <3>3. QED  BY <3>2 DEF Promise!Next
  <2>4. CASE s \in Final
    <3>1. job[j] \in Live
      BY <1>2, <2>4, Moved
    <3>2. Promise!EndSome
      BY <1>1, <2>1, <2>4, <3>1, EndsOne DEF IInv
    <3>3. QED  BY <3>2 DEF Promise!Next
  <2>5. QED  BY <2>2, <2>3, <2>4 DEF Live
<1>3. QED  BY <1>1, <1>2

LEMMA ContinuePromised ==
  ASSUME IInv, Continue
  PROVE  Promise!Next \/ UNCHANGED <<job, told>>
<1>1. ASSUME NEW i \in Items, ItemScriptOf(i)
      PROVE  UNCHANGED <<job, told>>
  <2>1. PICK s : todo = <<W(i, s)>>
    BY <1>1 DEF ItemScriptOf
  <2>2. Head(todo) = W(i, s)
    BY <2>1, One
  <2>3. QED  BY <2>2, WorkWrite
<1>2. ASSUME NEW j \in Jobs, ScriptOf(j)
      PROVE  Promise!Next \/ UNCHANGED <<job, told>>
  <2>1. \/ \E s \in Final \cup Live : Head(todo) = J(j, s)
        \/ \E s : Head(todo) = W(j, s)
        \/ Head(todo) = Tell(j) /\ job[j] = "timed_out"
    <3>1. {"queued", "running", "failed", "timed_out"} \subseteq Final \cup Live
      BY DEF Final, Live
    <3>2. QED  BY <1>2, <3>1, One, Two, Three, Four DEF ScriptOf
  <2>2. ASSUME NEW s, Head(todo) = W(j, s)
        PROVE  UNCHANGED <<job, told>>
    BY <2>2, WorkWrite
  <2>3. ASSUME Head(todo) = Tell(j), job[j] = "timed_out"
        PROVE  Promise!Next
    <3>1. told' = [told EXCEPT ![j] = job[j]] /\ UNCHANGED job
      BY <2>3, TellWrite
    <3>2. job[j] \in Promise!Outcomes
      BY <2>3 DEF Promise!Outcomes
    <3>3. Promise!Tell(j)
      BY <3>1, <3>2 DEF Promise!Tell
    <3>4. QED  BY <3>3 DEF Promise!Next
  <2>4. QED  BY <2>1, <2>2, <2>3, JobWritePromised
<1>3. \/ \E j \in Jobs : ScriptOf(j)
      \/ \E i \in Items : ItemScriptOf(i)
  BY DEF IInv, Script, Continue
<1>4. QED  BY <1>1, <1>2, <1>3

LEMMA StepPromised == IInv /\ [Next]_vars => [Promise!Next]_<<job, told>>
<1>1. SUFFICES ASSUME IInv, [Next]_vars
               PROVE  Promise!Next \/ UNCHANGED <<job, told>>
  OBVIOUS
<1>2. CASE Continue
  BY <1>1, <1>2, ContinuePromised
<1>3. ASSUME NEW j \in Jobs, EndSeen(j)
      PROVE  Promise!Next
  <2>1. Promise!Tell(j)
    BY <1>3, StatesOfRows DEF EndSeen, IsTerminal, Promise!Tell
  <2>2. QED  BY <2>1 DEF Promise!Next
<1>4. ASSUME NEW j \in Jobs, Prune(j)
      PROVE  Promise!Next
  <2>1. Promise!Forget(j)
    BY <1>4, StatesOfRows DEF Prune, Promise!Forget
  <2>2. QED  BY <2>1 DEF Promise!Next
<1>5. CASE RecoverGpuWork
  <2> DEFINE ended == {j \in Jobs : j \in Interrupted /\ job[j] \in Live}
  <2>1. /\ job' = [j \in Jobs |-> IF j \in ended THEN "failed" ELSE job[j]]
        /\ UNCHANGED told
    BY <1>5 DEF RecoverGpuWork
  <2>2. ended \in SUBSET Jobs /\ \A j \in ended : job[j] \in Live
    OBVIOUS
  <2> HIDE DEF ended
  <2>3. Promise!EndSome
    BY <2>1, <2>2, EndsFailed
  <2>4. QED  BY <2>3 DEF Promise!Next
<1>6. CASE FailRunningJobs
  <2>1. /\ job' = [j \in Jobs |->
                     IF j \in FailedOnStartup THEN "failed" ELSE job[j]]
        /\ UNCHANGED told
    BY <1>6 DEF FailRunningJobs
  <2>2. FailedOnStartup \in SUBSET Jobs
    BY DEF FailedOnStartup
  <2>3. \A j \in FailedOnStartup : job[j] \in Live
    BY DEF FailedOnStartup, Live
  <2>4. Promise!EndSome
    BY <2>1, <2>2, <2>3, EndsFailed
  <2>5. QED  BY <2>4 DEF Promise!Next
<1>7. ASSUME NEW j \in Jobs,
             Submit(j) \/ Wait(j) \/ StartSeen(j) \/ QueueWaitTimeout(j)
      PROVE  UNCHANGED <<job, told>>
  BY <1>7 DEF Submit, Wait, StartSeen, QueueWaitTimeout
<1>8. ASSUME NEW i \in Items, ItemStep(i) \/ Cancel(i)
      PROVE  UNCHANGED <<job, told>>
  BY <1>8 DEF ItemStep, Begin, Admitted, AdmissionFails, CallEnds, Cancel
<1>9. ASSUME NEW i \in Direct, Request(i) \/ QueueTimeout(i)
      PROVE  UNCHANGED <<job, told>>
  BY <1>9 DEF Request, QueueTimeout
<1>10. CASE Stop \/ Exit \/ Crash
  BY <1>10 DEF Stop, Exit, Crash, Dies
<1>11. CASE UNCHANGED vars
  BY <1>11 DEF vars, state
<1>12. QED
  BY <1>1, <1>2, <1>3, <1>4, <1>5, <1>6, <1>7, <1>8, <1>9, <1>10, <1>11
  DEF Next, Step, WaiterStep

-----------------------------------------------------------------------------
(* Theorems *)

(* The rows, the callers and the clients stay in the states the code can
   name, wherever a crash falls. *)
THEOREM JobsTypeCorrect == Spec => []TypeOK
<1>1. IInv => TypeOK
  BY DEF IInv
<1>2. QED  BY InitHolds, StepHolds, <1>1, PTL DEF Spec

(* No order of statements, crash or start leaves a live work item whose job
   has ended (gpu-coordinator.ts 1541, scheduler.ts 254, db.ts 791-848). *)
THEOREM LiveItemsHaveLiveJobs == Spec => []LiveWorkHasLiveJob
<1>1. IInv => LiveWorkHasLiveJob
  BY DEF IInv
<1>2. QED  BY InitHolds, StepHolds, <1>1, PTL DEF Spec

(* A client told an outcome was told the truth, for good: also by the queue
   wait, which tells it before the caller of the item knows
   (scheduler.ts 175-227). *)
THEOREM AnswersStand == Spec => []AnswerStands
<1>1. IInv => AnswerStands
  BY DEF IInv
<1>2. QED  BY InitHolds, StepHolds, <1>1, PTL DEF Spec

(* The gateway implements the promise made of a job: queues, work items, the
   statements of handlers, crashes between them and starts are invisible in
   the job's row and its answer but as the steps the promise allows. *)
THEOREM GatewayKeepsPromise == Spec => Implements
BY InitHolds, StepHolds, InitPromised, StepPromised, PTL
DEF Spec, Implements, Promise!Safety

-----------------------------------------------------------------------------
(* The rows agree with each other and with the executions in memory when   *)
(* no handler is between two statements.                                   *)
(*                                                                         *)
(* The invariant says where the rows of an item and its execution stand:   *)
(* at rest (Settled), while a handler of it has statements left (Written), *)
(* and after the process died (Left).                                      *)

Torn == "torn" \in events

(* A work item and its execution. *)
ItemAt(w, r) ==
  \/ w = "absent" /\ r \in {"none", "done"}
  \/ w = "queued" /\ r = "waiting"
  \/ w = "running" /\ r \in {"loading", "executing"}
  \/ w \in Final /\ r # "none"

(* A job that ended, with its work item. *)
EndedAt(s, w, r) ==
  /\ s \in Final \cup {"pruned"}
  /\ (w \in Final /\ r # "none") \/ (w = "absent" /\ r = "done")
  /\ s \in Final /\ w \in Final => s = w \/ Torn

(* A job that lost its work item to a crash. *)
StuckAt(s, w, r) ==
  Torn /\ s = "queued" /\ w \in Final \cup {"absent"} /\ r = "done"

JobAt(s, w, r) ==
  \/ s = "absent" /\ w = "absent"
  \/ s = "queued" /\ w = "queued"
  \/ s = "queued" /\ w = "running" /\ r = "loading"
  \/ s = "running" /\ w = "running" /\ r = "executing"
  \/ EndedAt(s, w, r)
  \/ StuckAt(s, w, r)

Settled(i) ==
  /\ ItemAt(work[i], run[i])
  /\ i \in Jobs => JobAt(job[i], work[i], run[i])

(* What is true of j while a handler of it is under way. *)
Written(j) ==
  \/ /\ todo = <<J(j, "queued"), W(j, "queued")>>
     /\ job[j] = "absent" /\ work[j] = "absent" /\ run[j] = "waiting"
  \/ /\ todo = <<W(j, "queued")>>
     /\ job[j] = "queued" /\ work[j] = "absent" /\ run[j] = "waiting"
  \/ /\ todo = <<J(j, "queued"), J(j, "failed")>>
     /\ job[j] = "absent" /\ work[j] = "absent" /\ run[j] = "done"
  \/ /\ todo = <<W(j, "running")>>
     /\ job[j] = "queued" /\ work[j] = "queued" /\ run[j] = "loading"
  \/ /\ todo = <<J(j, "running")>>
     /\ job[j] = "queued" /\ work[j] = "running" /\ run[j] = "executing"
  \/ \E o, p \in Final :
       /\ todo = <<W(j, o), J(j, p)>> /\ run[j] # "none"
       /\ \/ work[j] \in Live /\ job[j] \in Live /\ o = p
          \/ /\ work[j] \in Final
             /\ \/ EndedAt(job[j], work[j], run[j])
                \/ StuckAt(job[j], work[j], run[j])
  \/ \E p \in Final :
       /\ todo = <<J(j, p)>> /\ run[j] # "none"
       /\ \/ /\ job[j] \in Live
             /\ \/ work[j] = p
                \/ work[j] = "absent" /\ run[j] = "done"
                \/ Torn /\ work[j] \in Final
          \/ EndedAt(job[j], work[j], run[j])
  \/ /\ todo = <<W(j, "timed_out"), J(j, "timed_out"), J(j, "timed_out"),
                 Tell(j)>>
     /\ job[j] = "queued" /\ run[j] # "none"
     /\ work[j] \in Live \/ (Torn /\ work[j] \in Final)
  \/ /\ todo = <<J(j, "timed_out"), J(j, "timed_out"), Tell(j)>>
     /\ job[j] = "queued" /\ run[j] # "none"
     /\ work[j] = "timed_out" \/ (Torn /\ work[j] \in Final)
  \/ /\ todo = <<J(j, "timed_out"), Tell(j)>>
     /\ job[j] \in {"queued", "timed_out"} /\ run[j] # "none"
     /\ \/ work[j] = "timed_out"
        \/ work[j] = "absent" /\ run[j] = "done"
        \/ Torn /\ work[j] \in Final
  \/ todo = <<Tell(j)>> /\ Settled(j)

(* The same of a proxied request. *)
ItemWritten(i) ==
  \/ todo = <<W(i, "queued")>> /\ work[i] = "absent" /\ run[i] = "waiting"
  \/ todo = <<W(i, "running")>> /\ work[i] = "queued" /\ run[i] = "loading"
  \/ /\ \E o \in Final : todo = <<W(i, o)>>
     /\ work[i] \in Live \cup Final /\ run[i] # "none"

OthersSettled(i) == \A k \in Items \ {i} : Settled(k)

Placed ==
  \/ todo = <<>> /\ \A i \in Items : Settled(i)
  \/ \E j \in Jobs : Written(j) /\ OthersSettled(j)
  \/ \E i \in Direct : ItemWritten(i) /\ OthersSettled(i)

(* What a dead process leaves of an item. *)
Left(i) ==
  /\ run[i] \in {"none", "done"}
  /\ work[i] # "absent" => run[i] = "done"
  /\ i \in Jobs =>
       \/ job[i] = "absent" /\ work[i] = "absent"
       \/ job[i] \in Live /\ work[i] \in Live
       \/ EndedAt(job[i], work[i], run[i])
       \/ /\ Torn /\ job[i] \in Live /\ run[i] = "done"
          /\ work[i] \in Final \cup {"absent"}

StopAwaits ==
  phase = "stopping" /\ "late" \notin events =>
    \A j \in Jobs : run[j] \in Active => j \in awaited

RInv ==
  /\ IInv
  /\ Alive => Placed
  /\ ~Alive => todo = <<>> /\ \A i \in Items : Left(i)
  /\ StopAwaits

-----------------------------------------------------------------------------
(* Facts about one item. *)

LEMMA StateNames ==
  /\ "timed_out" \in Final /\ "failed" \in Final
  /\ "absent" \notin Final \cup Live /\ "pruned" \notin Final \cup Live
  /\ \A s \in Live : s \notin Final
  /\ Live = {"queued", "running"}
  /\ Active = {"waiting", "loading", "executing"}
  /\ {"none", "done"} \cap Active = {}
BY DEF Final, Live, Active

(* An item that no step touches stays where it was. *)
LEMMA Untouched ==
  ASSUME NEW k \in Items, Settled(k), events' = events,
         work'[k] = work[k], run'[k] = run[k],
         k \in Jobs => job'[k] = job[k]
  PROVE  Settled(k)'
BY DEF Settled, ItemAt, JobAt, EndedAt, StuckAt, Torn

LEMMA UntouchedOthers ==
  ASSUME NEW i \in Items, OthersSettled(i), events' = events,
         \A k \in Items \ {i} :
           /\ work'[k] = work[k] /\ run'[k] = run[k]
           /\ k \in Jobs => job'[k] = job[k]
  PROVE  OthersSettled(i)'
BY Untouched DEF OthersSettled

(* The rows that a statement of i does not write. *)
LEMMA RowFrame ==
  ASSUME IInv, Continue, events' = events, NEW i \in Items, NEW s,
         \/ i \in Jobs /\ Head(todo) = J(i, s)
         \/ Head(todo) = W(i, s)
         \/ Head(todo) = Tell(i),
         OthersSettled(i)
  PROVE  /\ OthersSettled(i)'
         /\ run' = run /\ phase' = phase /\ todo' = Tail(todo)
         /\ awaited' = awaited /\ Alive'
<1>1. job \in [Jobs -> RowStates] /\ work \in [Items -> RowStates]
  BY DEF IInv, TypeOK
<1>2. CASE i \in Jobs /\ Head(todo) = J(i, s)
  BY <1>1, <1>2, JobWrite, UntouchedOthers
<1>3. CASE Head(todo) = W(i, s)
  BY <1>1, <1>3, WorkWrite, UntouchedOthers
<1>4. CASE Head(todo) = Tell(i)
  BY <1>1, <1>4, TellWrite, UntouchedOthers
<1>5. QED  BY <1>2, <1>3, <1>4

-----------------------------------------------------------------------------
(* A statement of a job's handler. *)

LEMMA WrittenContinues ==
  ASSUME IInv, Continue, events' = events, NEW j \in Jobs, Written(j),
         OthersSettled(j)
  PROVE  Placed'
<1>1. /\ job \in [Jobs -> RowStates] /\ work \in [Items -> RowStates]
      /\ j \in Items
  BY DEF IInv, TypeOK, Items
<1>2. ASSUME NEW s, \/ Head(todo) = J(j, s) \/ Head(todo) = W(j, s)
                    \/ Head(todo) = Tell(j)
      PROVE  /\ OthersSettled(j)' /\ run' = run /\ todo' = Tail(todo)
             /\ Written(j)' \/ (Settled(j)' /\ Tail(todo) = <<>>) => Placed'
  <2>1. /\ OthersSettled(j)' /\ run' = run /\ todo' = Tail(todo)
    BY <1>1, <1>2, RowFrame
  <2>2. Settled(j)' => \A i \in Items : Settled(i)'
    BY <2>1 DEF OthersSettled
  <2>3. QED  BY <2>1, <2>2 DEF Placed
<1>3. ASSUME NEW s, Head(todo) = J(j, s)
      PROVE  /\ job' = IF StatesMove(job[j], s) THEN [job EXCEPT ![j] = s]
                       ELSE job
             /\ work' = work
  BY <1>3, JobWrite
<1>4. ASSUME NEW s, Head(todo) = W(j, s)
      PROVE  /\ work' = IF StatesMove(work[j], s) THEN [work EXCEPT ![j] = s]
                        ELSE work
             /\ job' = job
  BY <1>4, WorkWrite
<1>5. CASE /\ todo = <<J(j, "queued"), W(j, "queued")>>
           /\ job[j] = "absent" /\ work[j] = "absent" /\ run[j] = "waiting"
  <2>1. Head(todo) = J(j, "queued") /\ Tail(todo) = <<W(j, "queued")>>
    BY <1>5, Two
  <2>2. job'[j] = "queued" /\ work'[j] = "absent" /\ run' = run
        /\ todo' = <<W(j, "queued")>>
    BY <1>1, <1>2, <1>3, <1>5, <2>1, Moved
  <2>3. Written(j)'
    BY <1>5, <2>2 DEF Written
  <2>4. QED  BY <1>2, <2>1, <2>3
<1>6. CASE /\ todo = <<W(j, "queued")>>
           /\ job[j] = "queued" /\ work[j] = "absent" /\ run[j] = "waiting"
  <2>1. Head(todo) = W(j, "queued") /\ Tail(todo) = <<>>
    BY <1>6, One
  <2>2. job'[j] = "queued" /\ work'[j] = "queued" /\ run' = run
    BY <1>1, <1>2, <1>4, <1>6, <2>1, Moved
  <2>3. Settled(j)'
    BY <1>6, <2>2 DEF Settled, ItemAt, JobAt
  <2>4. QED  BY <1>2, <2>1, <2>3
<1>7. CASE /\ todo = <<J(j, "queued"), J(j, "failed")>>
           /\ job[j] = "absent" /\ work[j] = "absent" /\ run[j] = "done"
  <2>1. Head(todo) = J(j, "queued") /\ Tail(todo) = <<J(j, "failed")>>
    BY <1>7, Two
  <2>2. job'[j] = "queued" /\ work'[j] = "absent" /\ run' = run
        /\ todo' = <<J(j, "failed")>>
    BY <1>1, <1>2, <1>3, <1>7, <2>1, Moved
  <2>3. Written(j)'
    BY <1>7, <2>2, StateNames DEF Written
  <2>4. QED  BY <1>2, <2>1, <2>3
<1>8. CASE /\ todo = <<W(j, "running")>>
           /\ job[j] = "queued" /\ work[j] = "queued" /\ run[j] = "loading"
  <2>1. Head(todo) = W(j, "running") /\ Tail(todo) = <<>>
    BY <1>8, One
  <2>2. job'[j] = "queued" /\ work'[j] = "running" /\ run' = run
    BY <1>1, <1>2, <1>4, <1>8, <2>1 DEF StatesMove
  <2>3. Settled(j)'
    BY <1>8, <2>2 DEF Settled, ItemAt, JobAt
  <2>4. QED  BY <1>2, <2>1, <2>3
<1>9. CASE /\ todo = <<J(j, "running")>>
           /\ job[j] = "queued" /\ work[j] = "running"
           /\ run[j] = "executing"
  <2>1. Head(todo) = J(j, "running") /\ Tail(todo) = <<>>
    BY <1>9, One
  <2>2. job'[j] = "running" /\ work'[j] = "running" /\ run' = run
    BY <1>1, <1>2, <1>3, <1>9, <2>1 DEF StatesMove
  <2>3. Settled(j)'
    BY <1>9, <2>2 DEF Settled, ItemAt, JobAt
  <2>4. QED  BY <1>2, <2>1, <2>3
<1>10. ASSUME NEW o \in Final, NEW p \in Final, todo = <<W(j, o), J(j, p)>>,
              run[j] # "none",
              \/ work[j] \in Live /\ job[j] \in Live /\ o = p
              \/ /\ work[j] \in Final
                 /\ \/ EndedAt(job[j], work[j], run[j])
                    \/ StuckAt(job[j], work[j], run[j])
       PROVE  Placed'
  <2>1. Head(todo) = W(j, o) /\ Tail(todo) = <<J(j, p)>>
    BY <1>10, Two
  <2>2. /\ job' = job /\ run' = run /\ todo' = <<J(j, p)>>
        /\ work' = IF StatesMove(work[j], o) THEN [work EXCEPT ![j] = o]
                   ELSE work
    BY <1>2, <1>4, <2>1
  <2>3. CASE work[j] \in Live /\ job[j] \in Live /\ o = p
    <3>1. work'[j] = p
      BY <1>1, <2>2, <2>3, Moved
    <3>2. Written(j)'
      BY <1>10, <2>2, <2>3, <3>1 DEF Written
    <3>3. QED  BY <1>2, <2>1, <3>2
  <2>4. CASE /\ work[j] \in Final
             /\ \/ EndedAt(job[j], work[j], run[j])
                \/ StuckAt(job[j], work[j], run[j])
    <3>1. work' = work
      BY <2>2, <2>4, Moved, StateNames
    <3>2. CASE EndedAt(job[j], work[j], run[j])
      <4>1. EndedAt(job[j], work[j], run[j])'
        BY <2>2, <3>1, <3>2 DEF EndedAt, Torn
      <4>2. Written(j)'
        BY <1>10, <2>2, <4>1 DEF Written
      <4>3. QED  BY <1>2, <2>1, <4>2
    <3>3. CASE StuckAt(job[j], work[j], run[j])
      <4>1. Torn' /\ job'[j] \in Live /\ work'[j] \in Final
        BY <2>2, <2>4, <3>1, <3>3, StateNames DEF StuckAt, Torn
      <4>2. Written(j)'
        BY <1>10, <2>2, <4>1 DEF Written
      <4>3. QED  BY <1>2, <2>1, <4>2
    <3>4. QED  BY <2>4, <3>2, <3>3
  <2>5. QED  BY <1>10, <2>3, <2>4
<1>11. ASSUME NEW p \in Final, todo = <<J(j, p)>>, run[j] # "none",
              \/ /\ job[j] \in Live
                 /\ \/ work[j] = p
                    \/ work[j] = "absent" /\ run[j] = "done"
                    \/ Torn /\ work[j] \in Final
              \/ EndedAt(job[j], work[j], run[j])
       PROVE  Placed'
  <2>1. Head(todo) = J(j, p) /\ Tail(todo) = <<>>
    BY <1>11, One
  <2>2. /\ work' = work /\ run' = run
        /\ job' = IF StatesMove(job[j], p) THEN [job EXCEPT ![j] = p]
                  ELSE job
    BY <1>2, <1>3, <2>1
  <2>3. EndedAt(job[j], work[j], run[j])'
    <3>1. CASE job[j] \in Live
      <4>1. job'[j] = p
        BY <1>1, <2>2, <3>1, Moved
      <4>2. ~EndedAt(job[j], work[j], run[j])
        BY <3>1, StateNames DEF EndedAt
      <4>3. QED
        BY <1>11, <2>2, <4>1, <4>2, StateNames DEF EndedAt, Torn
    <3>2. CASE job[j] \notin Live
      <4>1. job' = job
        BY <1>11, <2>2, <3>2, Moved
      <4>2. QED  BY <1>11, <2>2, <3>2, <4>1 DEF EndedAt, Torn
    <3>3. QED  BY <3>1, <3>2
  <2>4. Settled(j)'
    BY <2>3 DEF EndedAt, Settled, ItemAt, JobAt
  <2>5. QED  BY <1>2, <2>1, <2>4
<1>12. CASE /\ todo = <<W(j, "timed_out"), J(j, "timed_out"),
                        J(j, "timed_out"), Tell(j)>>
            /\ job[j] = "queued" /\ run[j] # "none"
            /\ work[j] \in Live \/ (Torn /\ work[j] \in Final)
  <2>1. /\ Head(todo) = W(j, "timed_out")
        /\ Tail(todo) = <<J(j, "timed_out"), J(j, "timed_out"), Tell(j)>>
    BY <1>12, Four
  <2>2. /\ job' = job /\ run' = run /\ todo' = Tail(todo)
        /\ work' = IF StatesMove(work[j], "timed_out")
                   THEN [work EXCEPT ![j] = "timed_out"] ELSE work
    BY <1>2, <1>4, <2>1
  <2>3. work'[j] = "timed_out" \/ (Torn' /\ work'[j] \in Final)
    BY <1>1, <1>12, <2>2, Moved, StateNames DEF Torn
  <2>4. Written(j)'
    BY <1>12, <2>1, <2>2, <2>3 DEF Written
  <2>5. QED  BY <1>2, <2>1, <2>4
<1>13. CASE /\ todo = <<J(j, "timed_out"), J(j, "timed_out"), Tell(j)>>
            /\ job[j] = "queued" /\ run[j] # "none"
            /\ work[j] = "timed_out" \/ (Torn /\ work[j] \in Final)
  <2>1. /\ Head(todo) = J(j, "timed_out")
        /\ Tail(todo) = <<J(j, "timed_out"), Tell(j)>>
    BY <1>13, Three
  <2>2. /\ work' = work /\ run' = run /\ todo' = Tail(todo)
        /\ job' = IF StatesMove(job[j], "timed_out")
                  THEN [job EXCEPT ![j] = "timed_out"] ELSE job
    BY <1>2, <1>3, <2>1
  <2>3. job'[j] \in {"queued", "timed_out"}
    BY <1>1, <1>13, <2>2
  <2>4. Written(j)'
    BY <1>13, <2>1, <2>2, <2>3 DEF Written, Torn
  <2>5. QED  BY <1>2, <2>1, <2>4
<1>14. CASE /\ todo = <<J(j, "timed_out"), Tell(j)>>
            /\ job[j] \in {"queued", "timed_out"} /\ run[j] # "none"
            /\ \/ work[j] = "timed_out"
               \/ work[j] = "absent" /\ run[j] = "done"
               \/ Torn /\ work[j] \in Final
  <2>1. Head(todo) = J(j, "timed_out") /\ Tail(todo) = <<Tell(j)>>
    BY <1>14, Two
  <2>2. /\ work' = work /\ run' = run /\ todo' = Tail(todo)
        /\ job' = IF StatesMove(job[j], "timed_out")
                  THEN [job EXCEPT ![j] = "timed_out"] ELSE job
    BY <1>2, <1>3, <2>1
  <2>3. job'[j] = "timed_out"
    BY <1>1, <1>14, <2>2, Moved, StateNames
  <2>4. EndedAt(job[j], work[j], run[j])'
    BY <1>14, <2>2, <2>3, StateNames DEF EndedAt, Torn
  <2>5. Settled(j)'
    BY <1>14, <2>2, <2>4, StateNames DEF Settled, ItemAt, JobAt
  <2>6. Written(j)'
    BY <2>1, <2>2, <2>5 DEF Written
  <2>7. QED  BY <1>2, <2>1, <2>6
<1>15. CASE todo = <<Tell(j)>> /\ Settled(j)
  <2>1. Head(todo) = Tell(j) /\ Tail(todo) = <<>>
    BY <1>15, One
  <2>2. UNCHANGED <<job, work, run>>
    BY <2>1, TellWrite
  <2>3. Settled(j)'
    BY <1>1, <1>15, <2>2, Untouched
  <2>4. QED  BY <1>2, <2>1, <2>3
<1>16. QED
  BY <1>5, <1>6, <1>7, <1>8, <1>9, <1>10, <1>11, <1>12, <1>13, <1>14, <1>15
  DEF Written

(* A statement of a proxied request's handler. *)
LEMMA ItemWrittenContinues ==
  ASSUME IInv, Continue, events' = events, NEW i \in Direct, ItemWritten(i),
         OthersSettled(i)
  PROVE  Placed'
<1>1. work \in [Items -> RowStates] /\ i \in Items /\ i \notin Jobs
  BY JobsAssumption DEF IInv, TypeOK, Items
<1>2. PICK s : /\ todo = <<W(i, s)>>
               /\ \/ /\ s = "queued" /\ work[i] = "absent"
                     /\ run[i] = "waiting"
                  \/ /\ s = "running" /\ work[i] = "queued"
                     /\ run[i] = "loading"
                  \/ /\ s \in Final /\ work[i] \in Live \cup Final
                     /\ run[i] # "none"
  BY DEF ItemWritten
<1>3. Head(todo) = W(i, s) /\ Tail(todo) = <<>>
  BY <1>2, One
<1>4. /\ work' = IF StatesMove(work[i], s) THEN [work EXCEPT ![i] = s]
                 ELSE work
      /\ run' = run
  BY <1>3, WorkWrite
<1>5. OthersSettled(i)' /\ todo' = <<>>
  BY <1>1, <1>3, RowFrame
<1>6. \/ s = "queued" /\ work'[i] = "queued"
      \/ s = "running" /\ work'[i] = "running"
      \/ s \in Final /\ work'[i] \in Final
  BY <1>1, <1>2, <1>4, Moved DEF StatesMove
<1>7. Settled(i)'
  BY <1>1, <1>2, <1>4, <1>6, StateNames DEF Settled, ItemAt
<1>8. QED  BY <1>5, <1>7 DEF Placed, OthersSettled

LEMMA ContinueStays ==
  ASSUME RInv, Continue, events' = events
  PROVE  RInv'
<1>1. IInv'
  BY ContinueHolds DEF RInv
<1>2. Alive /\ Alive' /\ todo # <<>>
  BY DEF Continue, Alive
<1>3. Placed'
  BY <1>2, WrittenContinues, ItemWrittenContinues DEF RInv, Placed
<1>4. StopAwaits'
  BY DEF Continue, RInv, StopAwaits
<1>5. QED  BY <1>1, <1>2, <1>3, <1>4 DEF RInv

-----------------------------------------------------------------------------
(* The handlers of one item. *)

(* Between two handlers every item is settled. *)
LEMMA IdleSettles ==
  ASSUME RInv, Idle
  PROVE  Alive /\ \A i \in Items : Settled(i)
<1>1. Alive /\ todo = <<>> /\ Placed
  BY DEF Idle, RInv
<1>2. ASSUME NEW j \in Jobs PROVE ~Written(j)
  BY <1>1, One, Two, Three, Four DEF Written
<1>3. ASSUME NEW i \in Direct PROVE ~ItemWritten(i)
  BY <1>1, One DEF ItemWritten
<1>4. QED  BY <1>1, <1>2, <1>3 DEF Placed

(* What a handler of i has to show: where it leaves i, and that an execution
   that starts was there when the gateway began to stop. *)
LEMMA HandlerStays ==
  ASSUME RInv, IInv', Idle, events' = events,
         UNCHANGED <<job, work, phase, awaited>>, NEW i \in Items,
         \A k \in Items \ {i} : run'[k] = run[k],
         \/ todo' = <<>> /\ Settled(i)'
         \/ i \in Jobs /\ Written(i)'
         \/ i \in Direct /\ ItemWritten(i)',
         i \in Jobs /\ run'[i] \in Active =>
           run[i] \in Active \/ phase = "up" \/ "late" \in events
  PROVE  RInv'
<1>1. Alive /\ Alive' /\ \A k \in Items : Settled(k)
  BY IdleSettles DEF Alive
<1>2. OthersSettled(i)'
  BY <1>1, UntouchedOthers DEF OthersSettled
<1>3. Placed'
  BY <1>2 DEF Placed, OthersSettled
<1>4. StopAwaits'
  BY DEF RInv, StopAwaits, Items
<1>5. QED  BY <1>1, <1>3, <1>4 DEF RInv

(* A handler that starts, ends or writes nothing of an execution. *)
LEMMA QuietStays ==
  ASSUME RInv, IInv', Idle, events' = events, NEW j \in Jobs,
         UNCHANGED <<job, work, phase, awaited, run, todo>>
  PROVE  RInv'
<1>1. j \in Items
  BY DEF Items
<1>2. todo' = <<>> /\ Settled(j)'
  BY <1>1, IdleSettles, Untouched DEF Idle
<1>3. QED  BY <1>1, <1>2, HandlerStays

LEMMA SubmitStays ==
  ASSUME RInv, IInv', events' = events, NEW j \in Jobs, Submit(j)
  PROVE  RInv'
<1>1. /\ Idle /\ job[j] = "absent" /\ (phase = "up" \/ "late" \in events)
      /\ UNCHANGED <<phase, job, work, told, awaited>>
  BY DEF Submit
<1>2. PICK known \in BOOLEAN :
        /\ todo' = Submission(j, known)
        /\ run' = [run EXCEPT ![j] = IF known THEN "waiting" ELSE "done"]
  BY DEF Submit
<1>3. j \in Items /\ run \in [Items -> {"none", "done"} \cup Active]
  BY DEF Items, RInv, IInv, TypeOK
<1>4. work[j] = "absent"
  BY <1>1, <1>3, IdleSettles, StateNames
  DEF Settled, JobAt, EndedAt, StuckAt
<1>5. Written(j)'
  BY <1>1, <1>2, <1>3, <1>4 DEF Written, Submission
<1>6. QED  BY <1>1, <1>2, <1>3, <1>5, HandlerStays

LEMMA BeginStays ==
  ASSUME RInv, IInv', events' = events, NEW i \in Items, Begin(i)
  PROVE  RInv'
<1>1. /\ Idle /\ run[i] = "waiting" /\ work[i] = "queued"
      /\ todo' = <<W(i, "running")>>
      /\ run' = [run EXCEPT ![i] = "loading"]
      /\ UNCHANGED <<phase, job, work, waiter, told, awaited>>
  BY DEF Begin
<1>2. run \in [Items -> {"none", "done"} \cup Active]
  BY DEF RInv, IInv, TypeOK
<1>3. i \in Jobs => job[i] = "queued"
  BY <1>1, IdleSettles, StateNames DEF Settled, JobAt, EndedAt, StuckAt
<1>4. i \in Jobs => Written(i)'
  BY <1>1, <1>2, <1>3 DEF Written
<1>5. i \in Direct => ItemWritten(i)'
  BY <1>1, <1>2 DEF ItemWritten
<1>6. QED  BY <1>1, <1>2, <1>4, <1>5, HandlerStays, StateNames DEF Items

LEMMA AdmittedStays ==
  ASSUME RInv, IInv', events' = events, NEW i \in Items, Admitted(i)
  PROVE  RInv'
<1>1. /\ Idle /\ run[i] = "loading" /\ work[i] = "running"
      /\ run' = [run EXCEPT ![i] = "executing"]
      /\ todo' = IF i \in Jobs THEN <<J(i, "running")>> ELSE <<>>
      /\ UNCHANGED <<phase, job, work, waiter, told, awaited>>
  BY DEF Admitted
<1>2. run \in [Items -> {"none", "done"} \cup Active]
  BY DEF RInv, IInv, TypeOK
<1>3. CASE i \in Jobs
  <2>1. job[i] = "queued"
    BY <1>1, <1>3, IdleSettles, StateNames
    DEF Settled, JobAt, EndedAt, StuckAt
  <2>2. Written(i)'
    BY <1>1, <1>2, <1>3, <2>1 DEF Written
  <2>3. QED  BY <1>1, <1>2, <1>3, <2>2, HandlerStays, StateNames
<1>4. CASE i \notin Jobs
  <2>1. todo' = <<>> /\ Settled(i)'
    BY <1>1, <1>2, <1>4 DEF Settled, ItemAt
  <2>2. QED  BY <1>1, <1>2, <1>4, <2>1, HandlerStays
<1>5. QED  BY <1>3, <1>4

(* A handler that writes the end of an item, and of its job: o and p are the
   same unless the item has already ended. *)
LEMMA EndingStays ==
  ASSUME RInv, IInv', Idle, events' = events, NEW i \in Items,
         NEW o \in Final, NEW p \in Final,
         work[i] \in Live => o = p, work[i] # "absent",
         todo' = IF i \in Jobs THEN <<W(i, o), J(i, p)>> ELSE <<W(i, o)>>,
         run' = run \/ run' = [run EXCEPT ![i] = "done"],
         UNCHANGED <<phase, job, work, awaited>>
  PROVE  RInv'
<1>1. /\ run \in [Items -> {"none", "done"} \cup Active]
      /\ ItemAt(work[i], run[i])
      /\ i \in Jobs => JobAt(job[i], work[i], run[i])
  BY IdleSettles DEF RInv, IInv, TypeOK, Settled
<1>2. run'[i] \in {run[i], "done"} /\ run[i] # "none" /\ run'[i] # "none"
  BY <1>1 DEF ItemAt, Final
<1>3. work[i] \in Live \cup Final
  BY <1>1 DEF ItemAt, Live
<1>4. CASE i \in Jobs
  <2>1. \/ work[i] \in Live /\ job[i] \in Live
        \/ /\ work[i] \in Final
           /\ \/ EndedAt(job[i], work[i], run[i])
              \/ StuckAt(job[i], work[i], run[i])
    BY <1>1, <1>3, <1>4, StateNames DEF JobAt, EndedAt, StuckAt
  <2>2. \/ work'[i] \in Live /\ job'[i] \in Live /\ o = p
        \/ /\ work'[i] \in Final
           /\ \/ EndedAt(job[i], work[i], run[i])'
              \/ StuckAt(job[i], work[i], run[i])'
    BY <1>2, <2>1, StateNames DEF EndedAt, StuckAt, Torn
  <2>3. Written(i)'
    BY <1>2, <1>4, <2>2 DEF Written
  <2>4. QED  BY <1>1, <1>2, <1>4, <2>3, HandlerStays, StateNames
<1>5. CASE i \notin Jobs
  <2>1. ItemWritten(i)' /\ i \in Direct
    BY <1>2, <1>3, <1>5 DEF ItemWritten, Items
  <2>2. QED  BY <1>1, <1>5, <2>1, HandlerStays
<1>6. QED  BY <1>4, <1>5

LEMMA EndStays ==
  ASSUME RInv, IInv', events' = events, NEW i \in Items,
         AdmissionFails(i) \/ CallEnds(i)
  PROVE  RInv'
<1>1. /\ Idle /\ run[i] \in {"loading", "executing"}
      /\ run' = [run EXCEPT ![i] = "done"]
      /\ UNCHANGED <<phase, job, work, waiter, told, awaited>>
  BY DEF AdmissionFails, CallEnds
<1>2. work[i] # "absent"
  BY <1>1, IdleSettles, StateNames DEF Settled, ItemAt
<1>3. CASE AdmissionFails(i)
  BY <1>1, <1>2, <1>3, EndingStays, StateNames
  DEF AdmissionFails, Refused, Ended
<1>4. CASE CallEnds(i)
  <2>1. PICK ok \in BOOLEAN : todo' = CallEnded(i, ok)
    BY <1>4 DEF CallEnds
  <2> DEFINE o == IF ok THEN "succeeded"
                  ELSE IF work[i] \in Final THEN "cancelled" ELSE "failed"
             p == IF ok THEN "succeeded" ELSE "failed"
  <2>2. o \in Final /\ p \in Final /\ (work[i] \in Live => o = p)
    BY DEF Final, Live
  <2>3. todo' = IF i \in Jobs THEN <<W(i, o), J(i, p)>> ELSE <<W(i, o)>>
    BY <2>1 DEF CallEnded
  <2> HIDE DEF o, p
  <2>4. QED  BY <1>1, <1>2, <2>2, <2>3, EndingStays
<1>5. QED  BY <1>3, <1>4

LEMMA DroppedRun ==
  ASSUME NEW i \in Items, RInv
  PROVE  Dropped(i) = run \/ Dropped(i) = [run EXCEPT ![i] = "done"]
<1>1. run \in [Items -> {"none", "done"} \cup Active]
  BY DEF RInv, IInv, TypeOK
<1>2. QED  BY <1>1 DEF Dropped

LEMMA CancelStays ==
  ASSUME RInv, IInv', events' = events, NEW i \in Items, NEW o \in Final,
         Idle, work[i] # "absent",
         todo' = Cancelled(i, o), run' = Dropped(i),
         UNCHANGED <<phase, job, work, waiter, told, awaited>>
  PROVE  RInv'
<1>1. todo' = IF i \in Jobs THEN <<W(i, o), J(i, o)>> ELSE <<W(i, o)>>
  BY DEF Cancelled, Ended
<1>2. QED  BY <1>1, DroppedRun, EndingStays

LEMMA QueueWaitStays ==
  ASSUME RInv, IInv', events' = events, NEW j \in Jobs, QueueWaitTimeout(j)
  PROVE  RInv'
<1>1. /\ Idle /\ job[j] = "queued"
      /\ todo' = QueueWaitEnded(j)
      /\ run' = IF work[j] = "absent" THEN run ELSE Dropped(j)
      /\ UNCHANGED <<phase, job, work, told, awaited>>
  BY DEF QueueWaitTimeout, QueueWaitExceeded
<1>2. /\ j \in Items /\ run \in [Items -> {"none", "done"} \cup Active]
      /\ ItemAt(work[j], run[j]) /\ JobAt(job[j], work[j], run[j])
  BY <1>1, IdleSettles DEF Items, RInv, IInv, TypeOK, Settled
<1>3. run' = run \/ run' = [run EXCEPT ![j] = "done"]
  BY <1>1, <1>2, DroppedRun
<1>4. CASE work[j] = "absent"
  <2>1. todo' = <<>> \o <<J(j, "timed_out"), Tell(j)>>
    BY <1>1, <1>4 DEF QueueWaitEnded
  <2>2. todo' = <<J(j, "timed_out"), Tell(j)>>
    BY <2>1
  <2>3. run[j] = "done" /\ run' = run
    BY <1>1, <1>2, <1>4, StateNames DEF JobAt, EndedAt, StuckAt
  <2>4. Written(j)'
    BY <1>1, <1>4, <2>2, <2>3 DEF Written
  <2>5. QED  BY <1>1, <1>2, <2>3, <2>4, HandlerStays
<1>5. CASE work[j] # "absent"
  <2>1. todo' = <<W(j, "timed_out"), J(j, "timed_out")>>
                  \o <<J(j, "timed_out"), Tell(j)>>
    BY <1>1, <1>5 DEF QueueWaitEnded, Cancelled, Ended
  <2>2. todo' = <<W(j, "timed_out"), J(j, "timed_out"), J(j, "timed_out"),
                  Tell(j)>>
    BY <2>1, Joined
  <2>3. work[j] \in Live \/ (Torn /\ work[j] \in Final)
    BY <1>1, <1>2, <1>5, StateNames DEF JobAt, EndedAt, StuckAt
  <2>4. run'[j] # "none" /\ run'[j] \in {run[j], "done"}
    BY <1>2, <1>3, <1>5, StateNames DEF ItemAt
  <2>5. Written(j)'
    BY <1>1, <2>2, <2>3, <2>4 DEF Written, Torn
  <2>6. QED  BY <1>1, <1>2, <1>3, <2>4, <2>5, HandlerStays, StateNames
<1>6. QED  BY <1>4, <1>5

LEMMA RequestStays ==
  ASSUME RInv, IInv', events' = events, NEW i \in Direct, Request(i)
  PROVE  RInv'
<1>1. /\ i \in Items /\ i \notin Jobs
      /\ run \in [Items -> {"none", "done"} \cup Active]
  BY JobsAssumption DEF Items, RInv, IInv, TypeOK
<1>2. ItemWritten(i)'
  BY <1>1 DEF Request, ItemWritten
<1>3. QED  BY <1>1, <1>2, HandlerStays DEF Request

LEMMA PruneStays ==
  ASSUME RInv, IInv', events' = events, NEW j \in Jobs, Prune(j)
  PROVE  RInv'
<1>1. /\ Idle /\ job[j] \in Final
      /\ job' = [job EXCEPT ![j] = "pruned"]
      /\ UNCHANGED <<phase, work, todo, run, waiter, told, awaited>>
  BY DEF Prune
<1>2. j \in Items /\ job \in [Jobs -> RowStates]
  BY DEF Items, RInv, IInv, TypeOK
<1>3. Alive /\ \A k \in Items : Settled(k)
  BY <1>1, IdleSettles
<1>4. ItemAt(work[j], run[j]) /\ EndedAt(job[j], work[j], run[j])
  BY <1>1, <1>2, <1>3, StateNames DEF Settled, JobAt, StuckAt
<1>5. Settled(j)'
  BY <1>1, <1>2, <1>4, StateNames DEF Settled, ItemAt, JobAt, EndedAt
<1>6. OthersSettled(j)'
  BY <1>1, <1>2, <1>3, UntouchedOthers DEF OthersSettled
<1>7. Placed' /\ Alive'
  BY <1>1, <1>5, <1>6 DEF Placed, OthersSettled, Idle, Alive
<1>8. StopAwaits'
  BY <1>1 DEF RInv, StopAwaits
<1>9. QED  BY <1>7, <1>8 DEF RInv

-----------------------------------------------------------------------------
(* The process. *)

LEMMA StopStays ==
  ASSUME RInv, IInv', events' = events, Stop
  PROVE  RInv'
<1>1. Alive /\ \A k \in Items : Settled(k)
  BY IdleSettles DEF Stop
<1>2. \A k \in Items : Settled(k)'
  BY <1>1, Untouched DEF Stop
<1>3. Placed' /\ Alive'
  BY <1>2 DEF Stop, Idle, Alive, Placed
<1>4. StopAwaits'
  BY DEF Stop, StopAwaits, Executing
<1>5. QED  BY <1>3, <1>4 DEF RInv

(* What the death of the process makes of an item at rest ... *)
LEMMA SettledIsLeft ==
  ASSUME NEW i \in Items, Settled(i), events' = events,
         UNCHANGED <<job, work>>,
         run'[i] = IF run[i] = "none" THEN "none" ELSE "done"
  PROVE  Left(i)'
<1>1. ItemAt(work[i], run[i])
  BY DEF Settled
<1>2. /\ run'[i] \in {"none", "done"}
      /\ work[i] # "absent" => run'[i] = "done"
  BY <1>1 DEF ItemAt
<1>3. CASE i \in Jobs
  <2>1. CASE EndedAt(job[i], work[i], run[i])
    <3>1. EndedAt(job[i], work[i], run[i])'
      BY <2>1 DEF EndedAt, Torn
    <3>2. QED  BY <1>2, <3>1 DEF Left
  <2>2. CASE StuckAt(job[i], work[i], run[i])
    BY <1>2, <2>2, StateNames DEF StuckAt, Left, Torn
  <2>3. CASE ~EndedAt(job[i], work[i], run[i])
             /\ ~StuckAt(job[i], work[i], run[i])
    BY <1>2, <1>3, <2>3, StateNames DEF Settled, JobAt, Left
  <2>4. QED  BY <2>1, <2>2, <2>3
<1>4. CASE i \notin Jobs
  BY <1>2, <1>4 DEF Left
<1>5. QED  BY <1>3, <1>4

(* ... and of one whose handler it interrupts. *)
LEMMA WrittenIsLeft ==
  ASSUME NEW j \in Jobs, Written(j), Torn, events' = events,
         UNCHANGED <<job, work>>,
         run'[j] = IF run[j] = "none" THEN "none" ELSE "done"
  PROVE  Left(j)'
<1>1. j \in Items /\ Torn'
  BY DEF Items, Torn
<1>2. CASE Settled(j)
  BY <1>1, <1>2, SettledIsLeft
<1>3. CASE EndedAt(job[j], work[j], run[j]) /\ run[j] # "none"
  <2>1. EndedAt(job[j], work[j], run[j])' /\ run'[j] = "done"
    BY <1>3 DEF EndedAt, Torn
  <2>2. QED  BY <1>1, <2>1 DEF Left
<1>4. CASE /\ run[j] # "none" /\ job[j] \in Live
           /\ work[j] \in Live \cup Final \cup {"absent"}
  BY <1>1, <1>4 DEF Left
<1>5. CASE job[j] = "absent" /\ work[j] = "absent"
  BY <1>1, <1>5 DEF Left
<1>6. CASE /\ run[j] # "none" /\ job[j] = "timed_out"
           /\ \/ work[j] \in Final
              \/ work[j] = "absent" /\ run[j] = "done"
  <2>1. EndedAt(job[j], work[j], run[j])' /\ run'[j] = "done"
    BY <1>1, <1>6, StateNames DEF EndedAt
  <2>2. QED  BY <1>1, <2>1 DEF Left
<1>7. QED
  <2>1. {"waiting", "loading", "executing", "done"} \cap {"none"} = {}
    OBVIOUS
  <2>2. QED
    BY <1>2, <1>3, <1>4, <1>5, <1>6, <2>1, StateNames
    DEF Written, StuckAt

LEMMA DiesStays ==
  ASSUME RInv, IInv', events' = events, Dies,
         \/ Alive /\ (todo = <<>> \/ Torn)
         \/ phase = "recovered"
  PROVE  RInv'
<1>1. /\ phase' = "down" /\ todo' = <<>>
      /\ \A i \in Items :
           run'[i] = IF run[i] = "none" THEN "none" ELSE "done"
      /\ UNCHANGED <<job, work, told>>
  BY DEF Dies
<1>2. \A i \in Items : Left(i)'
  <2>1. CASE Alive
    <3>1. CASE todo = <<>>
      BY <1>1, <2>1, <3>1, IdleSettles, SettledIsLeft DEF Idle
    <3>2. CASE todo # <<>> /\ Torn
      <4>1. Placed
        BY <2>1 DEF RInv
      <4>2. ASSUME NEW j \in Jobs, Written(j), OthersSettled(j)
            PROVE  \A i \in Items : Left(i)'
        BY <1>1, <3>2, <4>2, WrittenIsLeft, SettledIsLeft
        DEF OthersSettled, Items
      <4>3. ASSUME NEW i \in Direct, ItemWritten(i), OthersSettled(i)
            PROVE  \A k \in Items : Left(k)'
        <5>1. i \notin Jobs
          BY JobsAssumption
        <5>2. run'[i] = "done"
          BY <1>1, <4>3 DEF ItemWritten, Items
        <5>3. Left(i)'
          BY <1>1, <5>1, <5>2 DEF Left
        <5>4. QED  BY <1>1, <4>3, <5>3, SettledIsLeft DEF OthersSettled
      <4>4. QED  BY <3>2, <4>1, <4>2, <4>3 DEF Placed
    <3>3. QED  BY <2>1, <3>1, <3>2 DEF Alive
  <2>2. CASE phase = "recovered"
    <3>1. \A i \in Items : Left(i)
      BY <2>2 DEF RInv, Alive
    <3>2. \A i \in Items : run'[i] = run[i]
      BY <1>1, <3>1 DEF Left
    <3>3. QED  BY <1>1, <3>1, <3>2 DEF Left, EndedAt, Torn
  <2>3. QED  BY <2>1, <2>2
<1>3. ~Alive' /\ StopAwaits'
  BY <1>1 DEF Alive, StopAwaits
<1>4. QED  BY <1>1, <1>2, <1>3 DEF RInv

LEMMA RecoverStays ==
  ASSUME RInv, IInv', events' = events, RecoverGpuWork
  PROVE  RInv'
<1>1. /\ phase = "down" /\ phase' = "recovered"
      /\ work' = [i \in Items |->
                    IF i \in Interrupted THEN "failed" ELSE work[i]]
      /\ job' = [j \in Jobs |-> IF j \in Interrupted /\ job[j] \in Live
                                THEN "failed" ELSE job[j]]
      /\ UNCHANGED <<todo, run, waiter, told, awaited>>
  BY DEF RecoverGpuWork
<1>2. todo = <<>> /\ \A i \in Items : Left(i)
  BY <1>1 DEF RInv, Alive
<1>3. ASSUME NEW i \in Items PROVE Left(i)'
  <2>1. Left(i)
    BY <1>2
  <2>2. CASE work[i] \in Live
    <3>1. work'[i] = "failed" /\ run'[i] = "done"
      BY <1>1, <2>1, <2>2, StateNames DEF Interrupted, Left
    <3>2. i \in Jobs => job[i] \in Live
      BY <2>1, <2>2, StateNames DEF Left, EndedAt
    <3>3. i \in Jobs => job'[i] = "failed"
      BY <1>1, <2>2, <3>2 DEF Interrupted
    <3>4. QED  BY <3>1, <3>3, StateNames DEF Left, EndedAt
  <2>3. CASE work[i] \notin Live
    <3>1. work'[i] = work[i] /\ run'[i] = run[i]
      BY <1>1, <2>3 DEF Interrupted
    <3>2. i \in Jobs => job'[i] = job[i]
      BY <1>1, <2>3 DEF Interrupted
    <3>3. QED  BY <2>1, <3>1, <3>2 DEF Left, EndedAt, Torn
  <2>4. QED  BY <2>2, <2>3
<1>4. ~Alive' /\ StopAwaits'
  BY <1>1 DEF Alive, StopAwaits
<1>5. QED  BY <1>1, <1>2, <1>3, <1>4 DEF RInv

LEMMA FailRunningStays ==
  ASSUME RInv, IInv', events' = events, FailRunningJobs
  PROVE  RInv'
<1>1. /\ phase = "recovered" /\ phase' = "up"
      /\ job' = [j \in Jobs |->
                   IF j \in FailedOnStartup THEN "failed" ELSE job[j]]
      /\ UNCHANGED <<work, todo, run, waiter, told, awaited>>
  BY DEF FailRunningJobs
<1>2. /\ todo = <<>> /\ \A i \in Items : Left(i)
      /\ \A i \in Items : work[i] \notin Live
      /\ work \in [Items -> RowStates \ {"pruned"}]
  BY <1>1 DEF RInv, Alive, IInv, RecoveredIsQuiet, TypeOK
<1>3. ASSUME NEW i \in Items PROVE Settled(i)'
  <2>1. Left(i) /\ work[i] \in Final \cup {"absent"}
    BY <1>2 DEF RowStates
  <2>2. ItemAt(work[i], run[i])'
    BY <1>1, <2>1 DEF Left, ItemAt
  <2>3. CASE i \in Jobs
    <3>1. job'[i] = IF job[i] = "running" THEN "failed" ELSE job[i]
      BY <1>1, <2>3 DEF FailedOnStartup
    <3>2. CASE EndedAt(job[i], work[i], run[i])
      <4>1. job'[i] = job[i]
        BY <3>1, <3>2, StateNames DEF EndedAt
      <4>2. EndedAt(job[i], work[i], run[i])'
        BY <1>1, <3>2, <4>1 DEF EndedAt, Torn
      <4>3. QED  BY <2>2, <4>2 DEF Settled, JobAt
    <3>3. CASE job[i] = "absent" /\ work[i] = "absent"
      BY <1>1, <2>2, <3>1, <3>3 DEF Settled, JobAt
    <3>4. CASE /\ Torn /\ job[i] \in Live /\ run[i] = "done"
               /\ work[i] \in Final \cup {"absent"}
      <4>1. job[i] = "queued" \/ job'[i] = "failed"
        BY <3>1, <3>4, StateNames
      <4>2. \/ StuckAt(job[i], work[i], run[i])'
            \/ EndedAt(job[i], work[i], run[i])'
        BY <1>1, <3>1, <3>4, <4>1, StateNames DEF StuckAt, EndedAt, Torn
      <4>3. QED  BY <2>2, <4>2 DEF Settled, JobAt
    <3>5. QED  BY <1>2, <2>1, <2>3, <3>2, <3>3, <3>4 DEF Left
  <2>4. QED  BY <2>2, <2>3 DEF Settled
<1>4. Alive' /\ Placed' /\ StopAwaits'
  BY <1>1, <1>2, <1>3 DEF Alive, Placed, StopAwaits
<1>5. QED  BY <1>4 DEF RInv

LEMMA InitStays == Init => RInv
<1>1. SUFFICES ASSUME Init PROVE RInv
  OBVIOUS
<1>2. IInv
  BY <1>1, InitHolds
<1>3. \A i \in Items : Settled(i)
  BY <1>1 DEF Init, Settled, ItemAt, JobAt
<1>4. Alive /\ Placed /\ StopAwaits
  BY <1>1, <1>3 DEF Init, Alive, Placed, StopAwaits
<1>5. QED  BY <1>2, <1>4 DEF RInv

LEMMA StepStays == RInv /\ [Next]_vars => RInv'
<1>1. SUFFICES ASSUME RInv, [Next]_vars PROVE RInv'
  OBVIOUS
<1>2. IInv' /\ events' = events
  BY <1>1, StepHolds DEF RInv, Next, vars
<1>3. CASE Continue
  BY <1>1, <1>2, <1>3, ContinueStays
<1>4. ASSUME NEW j \in Jobs,
             \/ Submit(j) \/ Wait(j) \/ WaiterStep(j) \/ QueueWaitTimeout(j)
             \/ Prune(j)
      PROVE  RInv'
  <2>1. CASE Wait(j) \/ WaiterStep(j)
    BY <1>1, <1>2, <2>1, QuietStays DEF Wait, WaiterStep, StartSeen, EndSeen
  <2>2. QED
    BY <1>1, <1>2, <1>4, <2>1, SubmitStays, QueueWaitStays, PruneStays
<1>5. ASSUME NEW i \in Items, ItemStep(i) \/ Cancel(i)
      PROVE  RInv'
  <2>1. CASE ItemStep(i)
    BY <1>1, <1>2, <2>1, BeginStays, AdmittedStays, EndStays DEF ItemStep
  <2>2. CASE Cancel(i)
    <3>1. PICK o \in {"cancelled", "failed"} : todo' = Cancelled(i, o)
      BY <2>2 DEF Cancel
    <3>2. o \in Final
      BY DEF Final
    <3>3. QED  BY <1>1, <1>2, <2>2, <3>1, <3>2, CancelStays DEF Cancel
  <2>3. QED  BY <1>5, <2>1, <2>2
<1>6. ASSUME NEW i \in Direct, Request(i) \/ QueueTimeout(i)
      PROVE  RInv'
  <2>1. CASE QueueTimeout(i)
    <3>1. i \in Items
      BY DEF Items
    <3>2. QED  BY <1>1, <1>2, <2>1, <3>1, CancelStays, StateNames DEF QueueTimeout
  <2>2. QED  BY <1>1, <1>2, <1>6, <2>1, RequestStays
<1>7. CASE Stop
  BY <1>1, <1>2, <1>7, StopStays
<1>8. CASE Exit
  BY <1>1, <1>2, <1>8, DiesStays DEF Exit, Idle
<1>9. CASE Crash
  <2>1. \/ Alive /\ (todo = <<>> \/ Torn)
        \/ phase = "recovered"
    BY <1>1, <1>9 DEF Crash, Torn, Alive, RInv, IInv, TypeOK, Phases
  <2>2. QED  BY <1>1, <1>2, <1>9, <2>1, DiesStays DEF Crash
<1>10. CASE RecoverGpuWork
  BY <1>1, <1>2, <1>10, RecoverStays
<1>11. CASE FailRunningJobs
  BY <1>1, <1>2, <1>11, FailRunningStays
<1>12. CASE UNCHANGED vars
  <2>1. UNCHANGED <<events, phase, job, work, todo, run, awaited>>
    BY <1>12 DEF vars, state
  <2>2. \A i \in Items : Settled(i)' = Settled(i) /\ Left(i)' = Left(i)
    BY <2>1 DEF Settled, ItemAt, JobAt, EndedAt, StuckAt, Left, Torn
  <2>3. ASSUME NEW j \in Jobs PROVE Written(j)' = Written(j)
    BY <2>1, <2>2 DEF Written, EndedAt, StuckAt, Torn, Items
  <2>4. \A i \in Direct : ItemWritten(i)' = ItemWritten(i)
    BY <2>1 DEF ItemWritten
  <2>5. \A i \in Items : OthersSettled(i)' = OthersSettled(i)
    BY <2>2 DEF OthersSettled
  <2>6. Placed' = Placed
    BY <2>1, <2>2, <2>3, <2>4, <2>5 DEF Placed, Items
  <2>7. StopAwaits' = StopAwaits /\ Alive' = Alive
    BY <2>1 DEF StopAwaits, Alive
  <2>8. QED  BY <1>1, <1>2, <2>1, <2>2, <2>6, <2>7 DEF RInv
<1>13. QED
  BY <1>1, <1>3, <1>4, <1>5, <1>6, <1>7, <1>8, <1>9, <1>10, <1>11, <1>12
  DEF Next, Step

-----------------------------------------------------------------------------
(* What the invariant gives. *)

LEMMA InvariantExecutes == RInv => LiveJobsAreExecuted
<1>1. SUFFICES ASSUME RInv, Idle, ~Torn, NEW j \in Jobs, job[j] \in Live
               PROVE  run[j] \in Active
  BY DEF LiveJobsAreExecuted, Torn
<1>2. Settled(j)
  BY <1>1, IdleSettles DEF Items
<1>3. QED
  BY <1>1, <1>2, StateNames DEF Settled, ItemAt, JobAt, EndedAt, StuckAt

LEMMA InvariantAgrees == RInv => OutcomesAgree
<1>1. SUFFICES ASSUME RInv, Idle, ~Torn, NEW j \in Jobs,
                      job[j] \in Final, work[j] \in Final
               PROVE  job[j] = work[j]
  BY DEF OutcomesAgree, Torn
<1>2. Settled(j)
  BY <1>1, IdleSettles DEF Items
<1>3. QED
  BY <1>1, <1>2, StateNames DEF Settled, JobAt, EndedAt, StuckAt

LEMMA InvariantRuns == RInv => RunningIsExecuted
<1>1. SUFFICES ASSUME RInv, Idle PROVE RunningIsExecuted
  BY DEF RunningIsExecuted
<1>2. \A i \in Items : Settled(i)
  BY <1>1, IdleSettles
<1>3. \A j \in Jobs : job[j] = "running" => run[j] = "executing"
  BY <1>2, StateNames DEF Settled, JobAt, EndedAt, StuckAt, Items
<1>4. \A i \in Items : work[i] \in Live => run[i] # "done"
  BY <1>2, StateNames DEF Settled, ItemAt
<1>5. QED  BY <1>3, <1>4 DEF RunningIsExecuted

LEMMA InvariantStops ==
  RInv /\ Exit /\ {"late", "torn"} \cap events = {} =>
    \A j \in Jobs : job[j] \notin Live
<1>1. SUFFICES ASSUME RInv, Exit, {"late", "torn"} \cap events = {},
                      NEW j \in Jobs, job[j] \in Live
               PROVE  FALSE
  OBVIOUS
<1>2. run[j] \in Active
  BY <1>1, InvariantExecutes DEF LiveJobsAreExecuted, Exit
<1>3. j \in awaited
  BY <1>1, <1>2 DEF RInv, StopAwaits, Exit
<1>4. run[j] = "done"
  BY <1>1, <1>3 DEF Exit, AwaitedSettled
<1>5. QED  BY <1>2, <1>4, StateNames

(* Between handlers every live job has an execution that will end it, unless
   the process died within a handler (scheduler.ts 98-104, db.ts 791). *)
THEOREM LiveJobsExecuted == Spec => []LiveJobsAreExecuted
BY InitStays, StepStays, InvariantExecutes, PTL DEF Spec

(* A job and its item, written by different statements of different modules,
   end with one outcome (gpu-coordinator.ts 1541, scheduler.ts 254). *)
THEOREM OutcomesAgreeAtRest == Spec => []OutcomesAgree
BY InitStays, StepStays, InvariantAgrees, PTL DEF Spec

(* No row says "running" of a call that nobody makes, wherever the process
   died (db.ts 791-848). *)
THEOREM RunningRowsRun == Spec => []RunningIsExecuted
BY InitStays, StepStays, InvariantRuns, PTL DEF Spec

(* Rows and executions agree, wherever the process died: what a row says of
   a live job somebody does, and nobody is said to do what he does not
   (scheduler.ts 98-104, 238-317, db.ts 791-848). *)
THEOREM RowsTellExecutions == Spec => []RowsAreExecuted
<1>1. RInv => RowsAreExecuted
  BY InvariantExecutes, InvariantRuns DEF RowsAreExecuted
<1>2. QED  BY InitStays, StepStays, <1>1, PTL DEF Spec

(* A job and its item agree: while the item is live the job is, and they end
   with one outcome (gpu-coordinator.ts 1541, db.ts 824). *)
THEOREM JobsAndItemsAgree == Spec => []RowsAgree
<1>1. RInv => OutcomesAgree
  BY InvariantAgrees
<1>2. (LiveWorkHasLiveJob /\ OutcomesAgree) => RowsAgree
  BY DEF RowsAgree
<1>3. QED
  BY InitStays, StepStays, LiveItemsHaveLiveJobs, <1>1, <1>2, PTL DEF Spec

(* A stop waits for all that will write: it leaves no live job unless jobs
   were submitted while it waited (scheduler.ts 57-66). *)
THEOREM StopIsClean == Spec => StopLeavesNothing
<1>1. RInv /\ [Next]_vars =>
        [Exit /\ {"late", "torn"} \cap events = {} =>
           \A j \in Jobs : job[j] \notin Live]_vars
  BY InvariantStops
<1>2. QED  BY InitStays, StepStays, <1>1, PTL DEF Spec, StopLeavesNothing

=============================================================================
