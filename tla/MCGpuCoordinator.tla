--------------------------- MODULE MCGpuCoordinator ---------------------------
(* Instances of GpuCoordinator for TLC. *)
EXTENDS GpuCoordinator, TLC

CONSTANTS q1, q2, q3, q4, m1, x1

(* The items q share runtime 1, m1 needs runtime 2, x1 is a one-shot. *)
SharedModel ==
  [i \in Items |-> CASE i \in {q1, q2, q3, q4} -> 1
                     [] i = m1 -> 2
                     [] i = x1 -> OneShot]
SharedPriority == [i \in Items |-> IF i \in {q2, x1} THEN 2 ELSE 1]
SharedCap == <<2, 1>>
SingleCap == [r \in Runtimes |-> 1]
FlatPriority == [i \in Items |-> 1]

(* Requests that differ in nothing. *)
Alike == Permutations({q1, q3, q4})
=============================================================================
