--------------------------- MODULE MCOpenAiRoutes ---------------------------
(* An instance of OpenAiRoutes for TLC. *)
EXTENDS OpenAiRoutes

CONSTANTS r1, r2, r3

(* Two requests of any kind beside one for speech, which is proxied. *)
MCAsks == [r \in {r1, r2, r3} |-> IF r = r3 THEN {"speech"} ELSE Kinds]
=============================================================================
