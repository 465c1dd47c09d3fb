----------------------------- MODULE MCDecisionApi -----------------------------
(* DecisionApi with interchangeable requests and refresh attempts. *)
EXTENDS DecisionApi, TLC

Symmetry == Permutations(Requests) \cup Permutations(Attempts)

===============================================================================
