---------------------------- MODULE MCOpenAiProxy ----------------------------
(* An instance of OpenAiProxy for TLC. *)
EXTENDS OpenAiProxy

CONSTANTS reqA, reqB

TwoRequests == {reqA, reqB}
==============================================================================
