---------------------------- MODULE MCGatewayJobs ----------------------------
(* An instance of GatewayJobs for TLC. *)
EXTENDS GatewayJobs

CONSTANTS jobA, jobB, req

TwoJobs == {jobA, jobB}
OneJob == {jobA}
OneRequest == {req}

(* A gateway that dies between handlers or stops, one that dies within them,*)
(* one that forgets old jobs and to which jobs still come while it stops,   *)
(* and one that also proxies.                                               *)
MCWorlds ==
  { {"cancel", "crash", "stop"},
    {"cancel", "torn"},
    {"prune", "stop", "late"},
    {"proxied"} }
==============================================================================
