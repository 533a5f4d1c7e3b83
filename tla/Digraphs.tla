------------------------------ MODULE Digraphs ------------------------------
(***************************************************************************)
(* Task graphs: a function from the ids of the tasks to the sets of ids    *)
(* they depend on.  An id that names no task depends on nothing.           *)
(***************************************************************************)

Deps(graph, id) == IF id \in DOMAIN graph THEN graph[id] ELSE {}

(* A finite graph has a cycle if and only if some non-empty set of its     *)
(* nodes has no way out: every member depends on a member.                 *)
Closed(graph, S) == \A t \in S : Deps(graph, t) \cap S # {}
Acyclic(graph) == \A S \in SUBSET DOMAIN graph : S # {} => ~Closed(graph, S)
=============================================================================
