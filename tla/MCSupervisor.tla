----------------------------- MODULE MCSupervisor -----------------------------
(* The instances of Supervisor that TLC checks. *)
EXTENDS Supervisor, TLC

\* Operations and worker slots are interchangeable.
Symmetry == Permutations(Ops) \cup Permutations(Workers)
===============================================================================
