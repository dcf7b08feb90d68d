---------------------------- MODULE MCLoungeStore ----------------------------
(* The instances of LoungeStore that TLC checks. *)
EXTENDS LoungeStore, TLC

\* Agents (none of whom is a manager), sessions and keys are interchangeable.
Symmetry == Permutations(Agents) \cup Permutations(Sessions) \cup Permutations(Keys)

\* With a manager only sessions and keys are.
SessionSymmetry == Permutations(Sessions) \cup Permutations(Keys)
===============================================================================
