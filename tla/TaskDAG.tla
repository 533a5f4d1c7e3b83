------------------------------ MODULE TaskDAG -------------------------------
(***************************************************************************)
(* TaskService.ValidateDAG: the recursive search for a cycle in the        *)
(* dependency graph, one action per turn of one of its loops or per return *)
(* of visit.  Go iterates over a map in any order; the dependencies of a   *)
(* task are taken in any order as well, which includes the one they have.  *)
(***************************************************************************)
EXTENDS Digraphs, Naturals, Sequences

CONSTANT Ids      \* the ids of tasks, also those that dependencies name

VARIABLES
    graph,        \* the map built from the tasks
    visited,      \* the two maps of the search, as sets of ids
    stack,
    calls,        \* the active calls of visit, by their argument, innermost last
    rest,         \* per active call: dependencies its loop has still to visit
    todo,         \* keys of graph the outer loop has still to visit
    verdict       \* "none" while the search runs, then "ok" or "cycle"

vars == <<graph, visited, stack, calls, rest, todo, verdict>>

TypeOK ==
    /\ DOMAIN graph \subseteq Ids
    /\ \A id \in DOMAIN graph : graph[id] \subseteq Ids
    /\ visited \subseteq Ids
    /\ stack \subseteq Ids
    /\ calls \in Seq(Ids)
    /\ rest \in [Ids -> SUBSET Ids]
    /\ todo \subseteq DOMAIN graph
    /\ verdict \in {"none", "ok", "cycle"}

TaskGraphs == UNION {[tasks -> SUBSET Ids] : tasks \in SUBSET Ids}

Init ==
    /\ graph \in TaskGraphs
    /\ visited = {}
    /\ stack = {}
    /\ calls = <<>>
    /\ rest = [id \in Ids |-> {}]
    /\ todo = DOMAIN graph
    /\ verdict = "none"

Running == verdict = "none"
Top == calls[Len(calls)]

\* Slip: an id is not marked before its loop.
EnterUnmarked(id) ==
    /\ calls' = Append(calls, id)
    /\ UNCHANGED <<visited, stack>>

(* The body of visit(id) up to its loop. *)
Enter(id) ==
    /\ visited' = visited \cup {id}
    /\ stack' = stack \cup {id}
    /\ calls' = Append(calls, id)

(* The outer loop comes to id: no call is active, so id is not on the stack. *)
Root(id) ==
    /\ Running /\ calls = <<>> /\ id \in todo
    /\ todo' = todo \ {id}
    /\ \/ id \in visited /\ UNCHANGED <<visited, stack, calls, rest>>
       \/ id \notin visited /\ Enter(id) /\ rest' = [rest EXCEPT ![id] = Deps(graph, id)]
    /\ UNCHANGED <<graph, verdict>>

(* The innermost call visits dep: dep is on the stack, has been visited    *)
(* before, or is entered.                                                  *)
CycleFound(dep) ==
    /\ dep \in stack
    /\ verdict' = "cycle"
    /\ UNCHANGED <<visited, stack, calls, rest>>

\* Slip: the loop does not get past such a dependency.
AlreadyVisitedKept(dep) ==
    /\ dep \notin stack /\ dep \in visited
    /\ UNCHANGED <<visited, stack, calls, rest, verdict>>

AlreadyVisited(dep) ==
    /\ dep \notin stack /\ dep \in visited
    /\ rest' = [rest EXCEPT ![Top] = @ \ {dep}]
    /\ UNCHANGED <<visited, stack, calls, verdict>>

Descend(dep) ==
    /\ dep \notin stack /\ dep \notin visited
    /\ Enter(dep)
    /\ rest' = [rest EXCEPT ![Top] = @ \ {dep}, ![dep] = Deps(graph, dep)]
    /\ UNCHANGED verdict

Visit(dep) ==
    /\ Running /\ calls # <<>> /\ dep \in rest[Top]
    /\ CycleFound(dep) \/ AlreadyVisited(dep) \/ Descend(dep)
    /\ UNCHANGED <<graph, todo>>

\* Slip: an id stays on the stack.
ReturnOnStack ==
    /\ Running /\ calls # <<>> /\ rest[Top] = {}
    /\ calls' = SubSeq(calls, 1, Len(calls) - 1)
    /\ UNCHANGED <<graph, visited, stack, rest, todo, verdict>>

(* The loop of the innermost call is over: it returns false. *)
Return ==
    /\ Running /\ calls # <<>> /\ rest[Top] = {}
    /\ stack' = stack \ {Top}
    /\ calls' = SubSeq(calls, 1, Len(calls) - 1)
    /\ UNCHANGED <<graph, visited, rest, todo, verdict>>

Finish ==
    /\ Running /\ calls = <<>> /\ todo = {}
    /\ verdict' = "ok"
    /\ UNCHANGED <<graph, visited, stack, calls, rest, todo>>

Next ==
    \/ \E id \in Ids : Root(id) \/ Visit(id)
    \/ Return
    \/ Finish

Spec == Init /\ [][Next]_vars /\ WF_vars(Next)

-----------------------------------------------------------------------------
(* ValidateDAG reports a cycle if and only if the graph has one.           *)
VerdictRight ==
    /\ verdict = "ok" => Acyclic(graph)
    /\ verdict = "cycle" => ~Acyclic(graph)

(* The search ends: visit does not recurse, and the loops do not turn,     *)
(* for ever, whatever the graph.                                           *)
Terminates == <>(verdict # "none")

-----------------------------------------------------------------------------
(* An id is finished when its call has returned. *)
Finished == visited \ stack

\* Dependencies that no loop has come to yet.
Unread ==
    {edge \in Ids \X Ids :
        edge[2] \in IF edge[1] \in visited THEN rest[edge[1]] ELSE Deps(graph, edge[1])}

(* The search takes linear time: with every step but the last, a task is   *)
(* off the outer loop, a dependency has been looked at or a call of visit  *)
(* has returned, for good.  A task that many others depend on is not       *)
(* searched again from each of them.                                       *)
WorkShrinks ==
    [][verdict' = "none" =>
          /\ todo' \subseteq todo /\ Unread' \subseteq Unread /\ Finished \subseteq Finished'
          /\ todo' # todo \/ Unread' # Unread \/ Finished' # Finished]_vars

-----------------------------------------------------------------------------
(* The inductive invariant.                                                *)

\* The stack holds the active calls, each once and each a dependency of the last.
StackOK ==
    /\ stack \subseteq visited
    /\ stack = {calls[i] : i \in 1 .. Len(calls)}
    /\ \A i, j \in 1 .. Len(calls) : calls[i] = calls[j] => i = j
    /\ \A i \in 1 .. Len(calls) - 1 : calls[i + 1] \in Deps(graph, calls[i])

\* A call has dealt with its dependencies but for those of its loop that are
\* left and the one whose call is active.
LoopOK ==
    \A i \in 1 .. Len(calls) :
        \A dep \in Deps(graph, calls[i]) :
            \/ dep \in rest[calls[i]]
            \/ dep \in Finished
            \/ i < Len(calls) /\ dep = calls[i + 1]

RestOK == \A i \in 1 .. Len(calls) : rest[calls[i]] \subseteq Deps(graph, calls[i])

\* The finished ids depend on finished ids only, and have no cycle.
FinishedOK ==
    /\ \A id \in Finished : Deps(graph, id) \subseteq Finished
    /\ \A S \in SUBSET Finished : S # {} => ~Closed(graph, S)

OutcomeOK ==
    /\ DOMAIN graph \ todo \subseteq visited
    /\ verdict = "ok" => todo = {} /\ calls = <<>>
    /\ verdict = "cycle" => \E S \in SUBSET Ids : S # {} /\ Closed(graph, S)

(* What the proof of VerdictRight carries from step to step of visit.      *)
SearchInv == TypeOK /\ StackOK /\ LoopOK /\ RestOK /\ FinishedOK /\ OutcomeOK
=============================================================================
