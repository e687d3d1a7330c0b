--------------------------- MODULE MCModelRegistry --------------------------
(* An instance of ModelRegistry for TLC. *)
EXTENDS ModelRegistry, TLC

CONSTANTS aliasA, fileA, fileB, adapter

OneStartup == [a \in {aliasA} |-> fileA]

(* The two sources, in two directories, have the same name. *)
SameName == [f \in Sources |-> adapter]

(* Workers and contents are all alike. *)
Alike == Permutations(Workers) \cup Permutations(Contents)
=============================================================================
