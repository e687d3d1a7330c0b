------------------------------ MODULE JobPromise ------------------------------
(***************************************************************************)
(* What the gateway promises about a submitted job, with no word of work   *)
(* items, queues or crashes: an accepted job runs at most once, ends once, *)
(* is answered with the outcome it ended with, and an accepted job ends.   *)
(* GatewayJobs implements it.                                              *)
(***************************************************************************)
CONSTANT Jobs

VARIABLES
  status,   \* status[j]: what the row of j says
  answer    \* answer[j]: the outcome its client was told, or "none"

Outcomes == {"succeeded", "failed", "cancelled", "timed_out"}
Statuses == {"absent", "queued", "running", "pruned"} \cup Outcomes

Init ==
  /\ status = [j \in Jobs |-> "absent"]
  /\ answer = [j \in Jobs |-> "none"]

Accept(j) ==
  /\ status[j] = "absent"
  /\ status' = [status EXCEPT ![j] = "queued"]
  /\ UNCHANGED answer

Run(j) ==
  /\ status[j] = "queued"
  /\ status' = [status EXCEPT ![j] = "running"]
  /\ UNCHANGED answer

(* Several jobs may end in one step: a restart fails all it finds. *)
End(ended, outcome) ==
  /\ \A j \in ended : status[j] \in {"queued", "running"}
  /\ status' = [j \in Jobs |-> IF j \in ended THEN outcome ELSE status[j]]
  /\ UNCHANGED answer

Tell(j) ==
  /\ status[j] \in Outcomes
  /\ answer' = [answer EXCEPT ![j] = status[j]]
  /\ UNCHANGED status

Forget(j) ==
  /\ status[j] \in Outcomes
  /\ status' = [status EXCEPT ![j] = "pruned"]
  /\ UNCHANGED answer

EndSome == \E ended \in SUBSET Jobs, outcome \in Outcomes : End(ended, outcome)

Next ==
  \/ \E j \in Jobs : Accept(j) \/ Run(j) \/ Tell(j) \/ Forget(j)
  \/ EndSome

Safety == Init /\ [][Next]_<<status, answer>>

(* Every accepted job ends. *)
Prompt ==
  \A j \in Jobs :
    status[j] \in {"queued", "running"} ~> status[j] \notin {"queued", "running"}

Spec == Safety /\ Prompt
=============================================================================
