------------------------------ MODULE MCTasks -------------------------------
(* Tasks on small instances: task ids and requests are interchangeable.     *)
EXTENDS Tasks, TLC

Symmetry == Permutations(Requests) \cup Permutations(Ids)
=============================================================================
