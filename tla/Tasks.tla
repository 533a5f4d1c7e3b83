-------------------------------- MODULE Tasks --------------------------------
(***************************************************************************)
(* Tasks of a tenant: TaskHandler, TaskService and the task statements of  *)
(* the store.  No handler opens a transaction, so other requests may write *)
(* between any two statements of one.  One action is one statement with    *)
(* the Go code that follows it; ValidateDAG is what TaskDAG shows it to be, *)
(* the question whether the graph is acyclic.                              *)
(***************************************************************************)
EXTENDS Digraphs, Integers

CONSTANTS
    Requests,     \* slots for requests in flight
    Ids,          \* task ids
    Ops,          \* the kinds of request that arrive
    MaxVersion,   \* bound on the version a request starts from
    MaxRequests,  \* bound on the requests that arrive
    MaxFaults     \* bound on failing statements

ASSUME TaskConstants ==
    /\ MaxVersion \in Nat
    /\ MaxRequests \in Nat
    /\ MaxFaults \in Nat
    /\ Ops \subseteq {"create", "update", "delete", "depend"}

VARIABLES
    rows,         \* table tasks: version (0: no such row) and dependency_ids
    issued,       \* ids given out by newUUIDString
    req,          \* requests in flight
    arrived,
    faults

vars == <<rows, issued, req, arrived, faults>>

NoRow == [version |-> 0, deps |-> {}]
Idle == [op |-> "none", pc |-> "idle"]

(* A request in flight: the statement it executes next, the task, the new  *)
(* dependencies, the version the new one is counted from (what the client  *)
(* expects, or what GetTask returned) and whether ValidateDAG has seen all *)
(* tasks.                                                                  *)
Active == [op : {"create", "update", "delete", "depend"},
           pc : {"get", "recheck", "list", "upsert", "delete"},
           id : Ids, deps : SUBSET Ids, base : Nat, checked : BOOLEAN]

TypeOK ==
    /\ rows \in [Ids -> [version : Nat, deps : SUBSET Ids]]
    /\ issued \subseteq Ids
    /\ req \in [Requests -> Active \cup {Idle}]
    /\ arrived \in 0 .. MaxRequests
    /\ faults \in 0 .. MaxFaults

Init ==
    /\ rows = [t \in Ids |-> NoRow]
    /\ issued = {}
    /\ req = [p \in Requests |-> Idle]
    /\ arrived = 0
    /\ faults = 0

Exists(t) == rows[t].version > 0
Listed == {t \in Ids : Exists(t)}
Graph == [t \in Listed |-> rows[t].deps]

At(p, pc) == req[p].pc = pc

Goto(p, pc) == req' = [req EXCEPT ![p].pc = pc]
End(p) == req' = [req EXCEPT ![p] = Idle]

-----------------------------------------------------------------------------
(* Arrivals.  Clients name tasks they have seen; a name that never was an  *)
(* id depends on nothing and is left out.                                  *)

Arrive(p, r) ==
    /\ At(p, "idle") /\ arrived < MaxRequests /\ r.op \in Ops
    /\ req' = [req EXCEPT ![p] = r]
    /\ arrived' = arrived + 1
    /\ UNCHANGED <<rows, faults>>

BeginCreate(p, t, deps) ==
    /\ t \notin issued /\ deps \subseteq issued
    /\ issued' = issued \cup {t}
    /\ Arrive(p, [op |-> "create", pc |-> "list", id |-> t, deps |-> deps,
                  base |-> 0, checked |-> FALSE])

BeginUpdate(p, t, deps, expected) ==
    /\ t \in issued /\ deps \subseteq issued /\ UNCHANGED issued
    /\ Arrive(p, [op |-> "update", pc |-> "get", id |-> t, deps |-> deps,
                  base |-> expected, checked |-> FALSE])

BeginDelete(p, t) ==
    /\ t \in issued /\ UNCHANGED issued
    /\ Arrive(p, [op |-> "delete", pc |-> "delete", id |-> t, deps |-> {},
                  base |-> 0, checked |-> FALSE])

BeginDepend(p, t, deps) ==
    /\ t \in issued /\ deps \subseteq issued /\ UNCHANGED issued
    /\ Arrive(p, [op |-> "depend", pc |-> "get", id |-> t, deps |-> deps,
                  base |-> 0, checked |-> FALSE])

-----------------------------------------------------------------------------
(* GetTask of the handlers: Update keeps the version its client expects,   *)
(* AddDependencies goes on from the version it reads.                      *)
GetTask(p) ==
    LET r == req[p] IN
    /\ At(p, "get")
    /\ \/ ~Exists(r.id) /\ End(p)
       \/ Exists(r.id) /\ r.op = "update" /\ Goto(p, "recheck")
       \/ /\ Exists(r.id) /\ r.op = "depend"
          /\ req' = [req EXCEPT ![p].pc = "list", ![p].base = rows[r.id].version]
    /\ UNCHANGED <<rows, issued, arrived, faults>>

(* TaskService.UpdateTask reads the task again and compares versions. *)
VersionMatches(r) == Exists(r.id) /\ rows[r.id].version = r.base

\* Slip: the task must exist, in any version.
RecheckExists(p) ==
    /\ At(p, "recheck")
    /\ \/ ~Exists(req[p].id) /\ End(p)
       \/ Exists(req[p].id) /\ Goto(p, "upsert")
    /\ UNCHANGED <<rows, issued, arrived, faults>>

RecheckVersion(p) ==
    /\ At(p, "recheck")
    /\ \/ ~VersionMatches(req[p]) /\ End(p)
       \/ VersionMatches(req[p]) /\ Goto(p, "upsert")
    /\ UNCHANGED <<rows, issued, arrived, faults>>

\* Slip: the listed tasks are validated as they are.
CandidateUnchanged(r) == Graph

(* The tasks ValidateDAG is given: the listed ones, with the new task added *)
(* or, if it is among them, the changed task in its place.                 *)
Candidate(r) ==
    LET tasks == IF r.op = "create" THEN Listed \cup {r.id} ELSE Listed IN
    [t \in tasks |-> IF t = r.id THEN r.deps ELSE rows[t].deps]

ListTasks(p) ==
    /\ At(p, "list")
    /\ \/ Acyclic(Candidate(req[p]))
          /\ req' = [req EXCEPT ![p].pc = "upsert", ![p].checked = TRUE]
       \/ ~Acyclic(Candidate(req[p])) /\ End(p)
    /\ UNCHANGED <<rows, issued, arrived, faults>>

(* The handlers ignore the error of ListTasks: with no list, ValidateDAG   *)
(* sees the new task alone, whose id no dependency names, or nothing.      *)
ListTasksFails(p) ==
    /\ At(p, "list") /\ faults < MaxFaults
    /\ Goto(p, "upsert")
    /\ faults' = faults + 1
    /\ UNCHANGED <<rows, issued, arrived>>

\* Slip: AddDependencies does not count the version on.
NextVersionKept(r) == IF r.op = "depend" THEN r.base ELSE r.base + 1

(* Version 1, expectedVersion + 1, or Version++. *)
NextVersion(r) == r.base + 1

(* INSERT ... ON CONFLICT (id) DO UPDATE: the row is written whatever is   *)
(* there, a row that has been deleted in the meantime comes back.          *)
UpsertTask(p) ==
    LET r == req[p] IN
    /\ At(p, "upsert")
    /\ rows' = [rows EXCEPT ![r.id] = [version |-> NextVersion(r), deps |-> r.deps]]
    /\ End(p)
    /\ UNCHANGED <<issued, arrived, faults>>

\* DeleteTask: dependency_ids of other tasks still name the id afterwards.
DeleteTask(p) ==
    /\ At(p, "delete")
    /\ rows' = [rows EXCEPT ![req[p].id] = NoRow]
    /\ End(p)
    /\ UNCHANGED <<issued, arrived, faults>>

(* A statement other than ListTasks fails, or the server stops: the        *)
(* request ends where it is.                                               *)
Abort(p) ==
    /\ ~At(p, "idle") /\ faults < MaxFaults
    /\ End(p)
    /\ faults' = faults + 1
    /\ UNCHANGED <<rows, issued, arrived>>

Begin(p) ==
    \E t \in Ids, deps \in SUBSET Ids :
        \/ BeginCreate(p, t, deps)
        \/ \E expected \in 1 .. MaxVersion : BeginUpdate(p, t, deps, expected)
        \/ BeginDepend(p, t, deps)

Next ==
    \E p \in Requests :
        \/ Begin(p)
        \/ \E t \in Ids : BeginDelete(p, t)
        \/ GetTask(p)
        \/ RecheckVersion(p)
        \/ ListTasks(p)
        \/ ListTasksFails(p)
        \/ UpsertTask(p)
        \/ DeleteTask(p)
        \/ Abort(p)

Spec == Init /\ [][Next]_vars

-----------------------------------------------------------------------------
(* What holds while requests do not overlap, and can be lost when they do. *)

(* No lost updates: a task that is written is written with the version     *)
(* after the one it has, so the write started from the row it replaces.    *)
VersionsIncrease ==
    [][\A t \in Ids :
          Exists(t) /\ Exists(t)' /\ rows'[t] # rows[t]
              => rows'[t].version = rows[t].version + 1]_vars

(* A cycle in the dependencies is closed only by a write that no           *)
(* ValidateDAG has seen: PUT of a task, or after a failed ListTasks.       *)
ValidatedWritesSafe ==
    [][Acyclic(Graph) /\ ~Acyclic(Graph)'
          => \E p \in Requests : At(p, "upsert") /\ ~req[p].checked]_vars

(* The dependencies saved are never circular, whatever request saved them. *)
NoCycles == Acyclic(Graph)

(* Between its statements a request knows what the table holds: the task   *)
(* it goes on with exists in the version it read, and the graph it is      *)
(* going to write is the one it validated.                                 *)
WellFormed(r) ==
    \/ r = Idle
    \/ r.op = "create" /\ r.pc \in {"list", "upsert"} /\ (r.checked => r.pc = "upsert")
    \/ r.op = "update" /\ r.pc \in {"get", "recheck", "upsert"} /\ ~r.checked
    \/ r.op = "depend" /\ r.pc \in {"get", "list", "upsert"} /\ (r.checked => r.pc = "upsert")
    \/ r.op = "delete" /\ r.pc = "delete"

Current(r) ==
    /\ r.op = "create" => r.base = 0 /\ ~Exists(r.id)
    /\ r.op = "update" /\ r.pc = "upsert" => VersionMatches(r)
    /\ r.op = "depend" /\ r.pc \in {"list", "upsert"} => VersionMatches(r)
    /\ r.pc = "upsert" /\ r.checked => Acyclic(Candidate(r))

SerialInv ==
    /\ TypeOK
    /\ Listed \subseteq issued
    /\ \A p \in Requests :
          WellFormed(req[p]) /\ (~At(p, "idle") => req[p].id \in issued /\ Current(req[p]))
=============================================================================
