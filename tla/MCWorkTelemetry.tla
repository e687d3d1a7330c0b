-------------------------- MODULE MCWorkTelemetry --------------------------
(* An instance of WorkTelemetry for TLC. *)
EXTENDS WorkTelemetry

CONSTANTS p1, t1, s1
=============================================================================
