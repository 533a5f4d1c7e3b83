----------------------------- MODULE TaskProofs ------------------------------
(***************************************************************************)
(* Requests that do not overlap: with one slot for requests, no update of  *)
(* a task is lost and no validated write closes a cycle, for any number of *)
(* tasks and requests.                                                     *)
(***************************************************************************)
EXTENDS Tasks, TLAPS

OneSlot == \A p, q \in Requests : p = q

(* Taking tasks away from a graph closes no cycle. *)
LEMMA SubgraphAcyclic ==
    ASSUME NEW g, NEW h, Acyclic(g), DOMAIN h \subseteq DOMAIN g,
           \A t \in DOMAIN h : h[t] = g[t]
    PROVE  Acyclic(h)
<1> SUFFICES ASSUME NEW S \in SUBSET DOMAIN h, S # {}, Closed(h, S)
             PROVE  FALSE
  BY DEF Acyclic
<1>1. \A t \in S : Deps(g, t) = Deps(h, t)
  BY DEF Deps
<1>2. Closed(g, S)
  BY <1>1 DEF Closed
<1> QED BY <1>2 DEF Acyclic

LEMMA InitSerial == Init => SerialInv
<1> SUFFICES ASSUME Init PROVE SerialInv
  OBVIOUS
<1>1. TypeOK
  BY TaskConstants DEF Init, TypeOK, NoRow
<1>2. Listed = {}
  BY DEF Init, Listed, Exists, NoRow
<1>3. \A p \in Requests : req[p] = Idle
  BY DEF Init
<1> QED BY <1>1, <1>2, <1>3 DEF SerialInv, WellFormed, At, Idle

(* What a request in flight looks like. *)
LEMMA ActiveType ==
    ASSUME SerialInv, NEW p \in Requests, ~At(p, "idle")
    PROVE  /\ req[p] \in Active /\ req[p].id \in Ids /\ req[p].deps \in SUBSET Ids
           /\ req[p].base \in Nat /\ req[p].checked \in BOOLEAN
           /\ req[p].id \in issued /\ WellFormed(req[p]) /\ Current(req[p])
           /\ req[p] # Idle
<1>1. req[p] \in Active \cup {Idle}
  BY DEF SerialInv, TypeOK
<1>2. req[p] # Idle
  BY DEF At, Idle
<1> QED BY <1>1, <1>2 DEF SerialInv, Active

(* A step that touches the one request, but not the table. *)
LEMMA RequestStep ==
    ASSUME OneSlot, SerialInv, NEW p \in Requests, NEW r,
           req' = [req EXCEPT ![p] = r], rows' = rows,
           issued \subseteq issued', issued' \subseteq Ids,
           arrived' \in 0 .. MaxRequests, faults' \in 0 .. MaxFaults,
           r = Idle \/ (r \in Active /\ WellFormed(r) /\ r.id \in issued' /\ Current(r))
    PROVE  SerialInv'
<1>1. req \in [Requests -> Active \cup {Idle}] /\ req' \in [Requests -> Active \cup {Idle}]
  BY DEF SerialInv, TypeOK
<1>2. \A q \in Requests : req'[q] = r
  BY <1>1 DEF OneSlot
<1>3. TypeOK'
  BY <1>1 DEF SerialInv, TypeOK
<1>4. Listed' = Listed
  BY DEF Listed, Exists
<1>5. Current(r) => Current(r)'
  BY <1>4 DEF Current, Exists, VersionMatches, Candidate
<1>6. WellFormed(r)
  BY DEF WellFormed
<1>7. Idle.pc = "idle"
  BY DEF Idle
<1>8. r.pc # "idle" => r.id \in issued' /\ Current(r)'
  BY <1>5, <1>7
<1>9. ASSUME NEW q \in Requests
      PROVE  (WellFormed(req[q])
              /\ (~At(q, "idle") => req[q].id \in issued /\ Current(req[q])))'
  <2>1. req'[q] = r
    BY <1>2
  <2>2. WellFormed(req[q])'
    BY <2>1, <1>6 DEF WellFormed
  <2>3. At(q, "idle")' <=> r.pc = "idle"
    BY <2>1 DEF At
  <2>4. Current(r)' => Current(req[q])'
    BY <2>1 DEF Current, Exists, VersionMatches, Candidate, Listed
  <2>5. (req[q].id \in issued)' <=> r.id \in issued'
    BY <2>1
  <2> QED BY <1>8, <2>2, <2>3, <2>4, <2>5
<1> QED BY <1>3, <1>4, <1>9 DEF SerialInv

(* A step that ends the one request and writes the table. *)
LEMMA WriteStep ==
    ASSUME OneSlot, SerialInv, NEW p \in Requests, End(p),
           UNCHANGED <<issued, arrived, faults>>,
           rows' \in [Ids -> [version : Nat, deps : SUBSET Ids]],
           Listed' \subseteq issued
    PROVE  SerialInv'
<1>1. req \in [Requests -> Active \cup {Idle}]
  BY DEF SerialInv, TypeOK
<1>2. \A q \in Requests : req'[q] = Idle
  BY <1>1 DEF OneSlot, End
<1>3. TypeOK'
  BY <1>1 DEF SerialInv, TypeOK, End
<1>4. \A q \in Requests : WellFormed(req'[q]) /\ At(q, "idle")'
  BY <1>2 DEF WellFormed, At, Idle
<1> QED BY <1>3, <1>4 DEF SerialInv, WellFormed

LEMMA ArriveInv ==
    ASSUME OneSlot, SerialInv, NEW p \in Requests, NEW r \in Active, Arrive(p, r),
           WellFormed(r), issued \subseteq issued', issued' \subseteq Ids,
           r.id \in issued', Current(r)
    PROVE  SerialInv'
<1>1. arrived' \in 0 .. MaxRequests /\ faults' \in 0 .. MaxFaults
  BY TaskConstants DEF Arrive, SerialInv, TypeOK
<1>2. req' = [req EXCEPT ![p] = r] /\ rows' = rows
  BY DEF Arrive
<1> QED BY <1>1, <1>2, RequestStep

LEMMA BeginInv ==
    ASSUME OneSlot, SerialInv, NEW p \in Requests, Begin(p) PROVE SerialInv'
<1>0. issued \subseteq Ids /\ Listed \subseteq issued
  BY DEF SerialInv, TypeOK
<1>1. PICK t \in Ids, deps \in SUBSET Ids :
          \/ BeginCreate(p, t, deps)
          \/ \E expected \in 1 .. MaxVersion : BeginUpdate(p, t, deps, expected)
          \/ BeginDepend(p, t, deps)
  BY DEF Begin
<1>2. CASE BeginCreate(p, t, deps)
  <2> DEFINE r == [op |-> "create", pc |-> "list", id |-> t, deps |-> deps,
                   base |-> 0, checked |-> FALSE]
  <2>1. r \in Active /\ WellFormed(r)
    BY DEF Active, WellFormed
  <2>2. ~Exists(t)
    BY <1>0, <1>2 DEF BeginCreate, Listed
  <2>3. Current(r)
    BY <2>2 DEF Current
  <2>4. issued \subseteq issued' /\ issued' \subseteq Ids /\ r.id \in issued' /\ Arrive(p, r)
    BY <1>0, <1>2 DEF BeginCreate
  <2> HIDE DEF r
  <2> QED BY <2>1, <2>3, <2>4, ArriveInv
<1>3. ASSUME NEW expected \in 1 .. MaxVersion, BeginUpdate(p, t, deps, expected)
      PROVE  SerialInv'
  <2> DEFINE r == [op |-> "update", pc |-> "get", id |-> t, deps |-> deps,
                   base |-> expected, checked |-> FALSE]
  <2>1. r \in Active /\ WellFormed(r)
    BY TaskConstants DEF Active, WellFormed
  <2>2. Current(r)
    BY DEF Current
  <2>3. issued' = issued /\ r.id \in issued' /\ Arrive(p, r)
    BY <1>3 DEF BeginUpdate
  <2> HIDE DEF r
  <2> QED BY <1>0, <2>1, <2>2, <2>3, ArriveInv
<1>4. CASE BeginDepend(p, t, deps)
  <2> DEFINE r == [op |-> "depend", pc |-> "get", id |-> t, deps |-> deps,
                   base |-> 0, checked |-> FALSE]
  <2>1. r \in Active /\ WellFormed(r)
    BY DEF Active, WellFormed
  <2>2. Current(r)
    BY DEF Current
  <2>3. issued' = issued /\ r.id \in issued' /\ Arrive(p, r)
    BY <1>4 DEF BeginDepend
  <2> HIDE DEF r
  <2> QED BY <1>0, <2>1, <2>2, <2>3, ArriveInv
<1> QED BY <1>1, <1>2, <1>3, <1>4

LEMMA BeginDeleteInv ==
    ASSUME OneSlot, SerialInv, NEW p \in Requests, NEW t \in Ids, BeginDelete(p, t)
    PROVE  SerialInv'
<1> DEFINE r == [op |-> "delete", pc |-> "delete", id |-> t, deps |-> {},
                 base |-> 0, checked |-> FALSE]
<1>1. r \in Active /\ WellFormed(r)
  BY DEF Active, WellFormed
<1>2. Current(r)
  BY DEF Current
<1>3. issued' = issued /\ issued \subseteq Ids /\ r.id \in issued' /\ Arrive(p, r)
  BY DEF BeginDelete, SerialInv, TypeOK
<1> HIDE DEF r
<1> QED BY <1>1, <1>2, <1>3, ArriveInv

(* A request that ends without writing. *)
LEMMA EndInv ==
    ASSUME OneSlot, SerialInv, NEW p \in Requests, End(p),
           UNCHANGED <<rows, issued, arrived>>, faults' \in 0 .. MaxFaults
    PROVE  SerialInv'
<1>1. issued \subseteq Ids /\ arrived' \in 0 .. MaxRequests
  BY DEF SerialInv, TypeOK
<1> QED BY <1>1, RequestStep DEF End

(* A request that goes on to its next statement r.pc. *)
LEMMA GoInv ==
    ASSUME OneSlot, SerialInv, NEW p \in Requests, ~At(p, "idle"), NEW r \in Active,
           req' = [req EXCEPT ![p] = r], WellFormed(r), Current(r), r.id = req[p].id,
           UNCHANGED <<rows, issued, arrived>>, faults' \in 0 .. MaxFaults
    PROVE  SerialInv'
<1>1. issued \subseteq Ids /\ arrived' \in 0 .. MaxRequests
  BY DEF SerialInv, TypeOK
<1>2. r.id \in issued
  BY ActiveType
<1> QED BY <1>1, <1>2, RequestStep

LEMMA GetTaskInv ==
    ASSUME OneSlot, SerialInv, NEW p \in Requests, GetTask(p) PROVE SerialInv'
<1>1. At(p, "get") /\ UNCHANGED <<rows, issued, arrived, faults>> /\ ~At(p, "idle")
  BY DEF GetTask, At
<1>2. faults' \in 0 .. MaxFaults
  BY <1>1 DEF SerialInv, TypeOK
<1>3. /\ req[p] \in Active /\ req[p].id \in Ids /\ WellFormed(req[p]) /\ Current(req[p])
      /\ req[p] # Idle
  BY <1>1, ActiveType
<1>4. CASE End(p)
  BY <1>1, <1>2, <1>4, EndInv
<1>5. CASE Exists(req[p].id) /\ req[p].op = "update" /\ Goto(p, "recheck")
  <2> DEFINE r == [req[p] EXCEPT !.pc = "recheck"]
  <2>1. r \in Active /\ r.id = req[p].id /\ r.op = "update" /\ r.pc = "recheck"
        /\ r.checked = req[p].checked
    BY <1>3, <1>5 DEF Active
  <2>2. ~req[p].checked
    BY <1>3, <1>5 DEF WellFormed
  <2>3. req' = [req EXCEPT ![p] = r]
    BY <1>5 DEF Goto
  <2> HIDE DEF r
  <2>4. WellFormed(r) /\ Current(r)
    BY <2>1, <2>2 DEF WellFormed, Current
  <2> QED BY <1>1, <1>2, <2>1, <2>3, <2>4, GoInv
<1>6. CASE /\ Exists(req[p].id) /\ req[p].op = "depend"
           /\ req' = [req EXCEPT ![p].pc = "list", ![p].base = rows[req[p].id].version]
  <2> DEFINE r == [req[p] EXCEPT !.pc = "list", !.base = rows[req[p].id].version]
  <2>0. rows[req[p].id].version \in Nat
    BY <1>3 DEF SerialInv, TypeOK
  <2>1. r \in Active /\ r.id = req[p].id /\ r.op = "depend" /\ r.pc = "list"
        /\ r.base = rows[req[p].id].version /\ r.checked = req[p].checked
    BY <1>3, <1>6, <2>0 DEF Active
  <2>2. ~req[p].checked
    BY <1>1, <1>3, <1>6 DEF WellFormed, At
  <2>3. req' = [req EXCEPT ![p] = r]
    BY <1>6 DEF SerialInv, TypeOK
  <2> HIDE DEF r
  <2>4. WellFormed(r) /\ Current(r)
    BY <2>1, <2>2, <1>6 DEF WellFormed, Current, VersionMatches
  <2> QED BY <1>1, <1>2, <2>1, <2>3, <2>4, GoInv
<1> QED BY <1>4, <1>5, <1>6 DEF GetTask

LEMMA RecheckInv ==
    ASSUME OneSlot, SerialInv, NEW p \in Requests, RecheckVersion(p) PROVE SerialInv'
<1>1. At(p, "recheck") /\ UNCHANGED <<rows, issued, arrived, faults>> /\ ~At(p, "idle")
  BY DEF RecheckVersion, At
<1>2. faults' \in 0 .. MaxFaults
  BY <1>1 DEF SerialInv, TypeOK
<1>3. req[p] \in Active /\ WellFormed(req[p]) /\ req[p] # Idle
  BY <1>1, ActiveType
<1>4. CASE End(p)
  BY <1>1, <1>2, <1>4, EndInv
<1>5. CASE VersionMatches(req[p]) /\ Goto(p, "upsert")
  <2> DEFINE r == [req[p] EXCEPT !.pc = "upsert"]
  <2>1. r \in Active /\ r.id = req[p].id /\ r.op = req[p].op /\ r.pc = "upsert"
        /\ r.checked = req[p].checked /\ r.base = req[p].base
    BY <1>3 DEF Active
  <2>2. ~req[p].checked /\ req[p].op = "update"
    BY <1>1, <1>3 DEF WellFormed, At
  <2>3. req' = [req EXCEPT ![p] = r]
    BY <1>5 DEF Goto
  <2> HIDE DEF r
  <2>4. WellFormed(r) /\ Current(r)
    BY <2>1, <2>2, <1>5 DEF WellFormed, Current, VersionMatches
  <2> QED BY <1>1, <1>2, <2>1, <2>3, <2>4, GoInv
<1> QED BY <1>4, <1>5 DEF RecheckVersion

LEMMA ListInv ==
    ASSUME OneSlot, SerialInv, NEW p \in Requests, ListTasks(p) PROVE SerialInv'
<1>1. At(p, "list") /\ UNCHANGED <<rows, issued, arrived, faults>> /\ ~At(p, "idle")
  BY DEF ListTasks, At
<1>2. faults' \in 0 .. MaxFaults
  BY <1>1 DEF SerialInv, TypeOK
<1>3. req[p] \in Active /\ WellFormed(req[p]) /\ Current(req[p]) /\ req[p] # Idle
  BY <1>1, ActiveType
<1>4. CASE End(p)
  BY <1>1, <1>2, <1>4, EndInv
<1>5. CASE /\ Acyclic(Candidate(req[p]))
           /\ req' = [req EXCEPT ![p].pc = "upsert", ![p].checked = TRUE]
  <2> DEFINE r == [req[p] EXCEPT !.pc = "upsert", !.checked = TRUE]
  <2>1. r \in Active /\ r.id = req[p].id /\ r.op = req[p].op /\ r.pc = "upsert"
        /\ r.deps = req[p].deps /\ r.base = req[p].base
    BY <1>3 DEF Active
  <2>2. req[p].op \in {"create", "depend"}
    BY <1>1, <1>3 DEF WellFormed, At
  <2>3. req' = [req EXCEPT ![p] = r]
    BY <1>5 DEF SerialInv, TypeOK
  <2> HIDE DEF r
  <2>4. Candidate(r) = Candidate(req[p])
    BY <2>1 DEF Candidate
  <2>5. WellFormed(r)
    BY <2>1, <2>2 DEF WellFormed
  <2>6. Current(r)
    BY <2>1, <2>2, <2>4, <1>1, <1>3, <1>5 DEF Current, VersionMatches, At
  <2> QED BY <1>1, <1>2, <2>1, <2>3, <2>5, <2>6, GoInv
<1> QED BY <1>4, <1>5 DEF ListTasks

(* After a failed ListTasks the request goes on, unchecked. *)
LEMMA ListFailsInv ==
    ASSUME OneSlot, SerialInv, NEW p \in Requests, ListTasksFails(p) PROVE SerialInv'
<1>1. At(p, "list") /\ UNCHANGED <<rows, issued, arrived>> /\ ~At(p, "idle")
      /\ Goto(p, "upsert")
  BY DEF ListTasksFails, At
<1>2. faults' \in 0 .. MaxFaults
  BY TaskConstants DEF ListTasksFails, SerialInv, TypeOK
<1>3. req[p] \in Active /\ WellFormed(req[p]) /\ Current(req[p]) /\ req[p] # Idle
  BY <1>1, ActiveType
<1> DEFINE r == [req[p] EXCEPT !.pc = "upsert"]
<1>4. r \in Active /\ r.id = req[p].id /\ r.op = req[p].op /\ r.pc = "upsert"
      /\ r.checked = req[p].checked /\ r.base = req[p].base
  BY <1>3 DEF Active
<1>5. req[p].op \in {"create", "depend"} /\ ~req[p].checked
  BY <1>1, <1>3 DEF WellFormed, At
<1>6. req' = [req EXCEPT ![p] = r]
  BY <1>1 DEF Goto
<1> HIDE DEF r
<1>7. WellFormed(r)
  BY <1>4, <1>5 DEF WellFormed
<1>8. Current(r)
  BY <1>4, <1>5, <1>1, <1>3 DEF Current, VersionMatches, At
<1> QED BY <1>1, <1>2, <1>4, <1>6, <1>7, <1>8, GoInv

(* What a write does to the table and to the graph. *)
LEMMA UpsertFacts ==
    ASSUME SerialInv, NEW p \in Requests, UpsertTask(p)
    PROVE  LET r == req[p] IN
           /\ rows' \in [Ids -> [version : Nat, deps : SUBSET Ids]]
           /\ \A t \in Ids \ {r.id} : rows'[t] = rows[t]
           /\ rows'[r.id] = [version |-> r.base + 1, deps |-> r.deps]
           /\ Listed' = Listed \cup {r.id}
           /\ r.op = "create" \/ (Exists(r.id) /\ rows[r.id].version = r.base)
           /\ r.checked => Graph' = Candidate(r)
<1> DEFINE r == req[p]
<1>1. /\ ~At(p, "idle") /\ At(p, "upsert")
      /\ rows' = [rows EXCEPT ![r.id] = [version |-> NextVersion(r), deps |-> r.deps]]
  BY DEF UpsertTask, At
<1>2. /\ r \in Active /\ r.id \in Ids /\ r.deps \in SUBSET Ids /\ r.base \in Nat
      /\ WellFormed(r) /\ Current(r) /\ r # Idle
  BY <1>1, ActiveType
<1>3. rows \in [Ids -> [version : Nat, deps : SUBSET Ids]]
  BY DEF SerialInv, TypeOK
<1>4. [version |-> r.base + 1, deps |-> r.deps] \in [version : Nat, deps : SUBSET Ids]
  BY <1>2
<1>5. r.pc = "upsert"
  BY <1>1 DEF At
<1> HIDE DEF r
<1>6. /\ rows' \in [Ids -> [version : Nat, deps : SUBSET Ids]]
      /\ \A t \in Ids \ {r.id} : rows'[t] = rows[t]
      /\ rows'[r.id] = [version |-> r.base + 1, deps |-> r.deps]
  BY <1>1, <1>2, <1>3, <1>4 DEF NextVersion
<1>7. rows'[r.id].version = r.base + 1 /\ rows'[r.id].deps = r.deps /\ r.base + 1 > 0
  BY <1>2, <1>6
<1>8. Listed' = Listed \cup {r.id}
  BY <1>2, <1>6, <1>7 DEF Listed, Exists
<1>9. r.op = "create" \/ (Exists(r.id) /\ rows[r.id].version = r.base)
  BY <1>2, <1>5 DEF WellFormed, Current, VersionMatches
<1>10. ASSUME r.checked PROVE Graph' = Candidate(r)
  <2>1. Listed' = IF r.op = "create" THEN Listed \cup {r.id} ELSE Listed
    BY <1>2, <1>8, <1>9 DEF Listed
  <2>2. \A t \in Listed' : rows'[t].deps = IF t = r.id THEN r.deps ELSE rows[t].deps
    BY <1>6, <1>7 DEF Listed
  <2> QED BY <2>1, <2>2 DEF Graph, Candidate
<1> QED BY <1>6, <1>8, <1>9, <1>10 DEF r

LEMMA UpsertInv ==
    ASSUME OneSlot, SerialInv, NEW p \in Requests, UpsertTask(p) PROVE SerialInv'
<1>1. ~At(p, "idle") /\ End(p) /\ UNCHANGED <<issued, arrived, faults>>
  BY DEF UpsertTask, At
<1>2. req[p].id \in issued /\ Listed \subseteq issued
  BY <1>1, ActiveType DEF SerialInv
<1>3. /\ rows' \in [Ids -> [version : Nat, deps : SUBSET Ids]]
      /\ Listed' = Listed \cup {req[p].id}
  BY UpsertFacts
<1> QED BY <1>1, <1>2, <1>3, WriteStep

(* What a deletion does to the table and to the graph. *)
LEMMA DeleteFacts ==
    ASSUME SerialInv, NEW p \in Requests, DeleteTask(p)
    PROVE  /\ rows' \in [Ids -> [version : Nat, deps : SUBSET Ids]]
           /\ \A t \in Ids : rows'[t] = rows[t] \/ ~Exists(t)'
           /\ Listed' \subseteq Listed
<1>1. ~At(p, "idle") /\ rows' = [rows EXCEPT ![req[p].id] = NoRow]
  BY DEF DeleteTask, At
<1>2. req[p].id \in Ids
  BY <1>1, ActiveType
<1>3. rows \in [Ids -> [version : Nat, deps : SUBSET Ids]]
      /\ NoRow \in [version : Nat, deps : SUBSET Ids] /\ NoRow.version = 0
  BY DEF SerialInv, TypeOK, NoRow
<1>4. /\ rows' \in [Ids -> [version : Nat, deps : SUBSET Ids]]
      /\ \A t \in Ids : rows'[t] = rows[t] \/ rows'[t] = NoRow
  BY <1>1, <1>2, <1>3
<1>5. \A t \in Ids : rows'[t] = rows[t] \/ ~Exists(t)'
  BY <1>3, <1>4 DEF Exists
<1> QED BY <1>4, <1>5 DEF Listed, Exists

LEMMA DeleteInv ==
    ASSUME OneSlot, SerialInv, NEW p \in Requests, DeleteTask(p) PROVE SerialInv'
<1>1. End(p) /\ UNCHANGED <<issued, arrived, faults>>
  BY DEF DeleteTask
<1>2. Listed \subseteq issued
  BY DEF SerialInv
<1> QED BY <1>1, <1>2, DeleteFacts, WriteStep

LEMMA AbortInv ==
    ASSUME OneSlot, SerialInv, NEW p \in Requests, Abort(p) PROVE SerialInv'
<1>1. faults' \in 0 .. MaxFaults
  BY TaskConstants DEF Abort, SerialInv, TypeOK
<1> QED BY <1>1, EndInv DEF Abort

LEMMA StutterInv == ASSUME SerialInv, UNCHANGED vars PROVE SerialInv'
<1>1. UNCHANGED <<rows, issued, req, arrived, faults>>
  BY DEF vars
<1>2. TypeOK' /\ Listed' = Listed
  BY <1>1 DEF SerialInv, TypeOK, Listed, Exists
<1>3. \A p \in Requests : Current(req[p]) => Current(req[p])'
  BY <1>1, <1>2 DEF Current, Exists, VersionMatches, Candidate
<1> QED BY <1>1, <1>2, <1>3 DEF SerialInv, At, WellFormed

LEMMA StepSerial == ASSUME OneSlot PROVE SerialInv /\ [Next]_vars => SerialInv'
<1> SUFFICES ASSUME SerialInv, [Next]_vars PROVE SerialInv'
  OBVIOUS
<1>1. ASSUME NEW p \in Requests, Begin(p) PROVE SerialInv'
  BY <1>1, BeginInv
<1>2. ASSUME NEW p \in Requests, NEW t \in Ids, BeginDelete(p, t) PROVE SerialInv'
  BY <1>2, BeginDeleteInv
<1>3. ASSUME NEW p \in Requests, GetTask(p) PROVE SerialInv'
  BY <1>3, GetTaskInv
<1>4. ASSUME NEW p \in Requests, RecheckVersion(p) PROVE SerialInv'
  BY <1>4, RecheckInv
<1>5. ASSUME NEW p \in Requests, ListTasks(p) PROVE SerialInv'
  BY <1>5, ListInv
<1>6. ASSUME NEW p \in Requests, ListTasksFails(p) PROVE SerialInv'
  BY <1>6, ListFailsInv
<1>7. ASSUME NEW p \in Requests, UpsertTask(p) PROVE SerialInv'
  BY <1>7, UpsertInv
<1>8. ASSUME NEW p \in Requests, DeleteTask(p) PROVE SerialInv'
  BY <1>8, DeleteInv
<1>9. ASSUME NEW p \in Requests, Abort(p) PROVE SerialInv'
  BY <1>9, AbortInv
<1>10. CASE UNCHANGED vars
  BY <1>10, StutterInv
<1> QED BY <1>1, <1>2, <1>3, <1>4, <1>5, <1>6, <1>7, <1>8, <1>9, <1>10 DEF Next

(* Only UpsertTask and DeleteTask touch the table. *)
LEMMA Writers ==
    ASSUME [Next]_vars
    PROVE  rows' = rows \/ \E p \in Requests : UpsertTask(p) \/ DeleteTask(p)
<1>1. ASSUME NEW p \in Requests, Begin(p) PROVE rows' = rows
  BY <1>1 DEF Begin, BeginCreate, BeginUpdate, BeginDepend, Arrive
<1>2. ASSUME NEW p \in Requests, NEW t \in Ids, BeginDelete(p, t) PROVE rows' = rows
  BY <1>2 DEF BeginDelete, Arrive
<1>3. ASSUME NEW p \in Requests,
             GetTask(p) \/ RecheckVersion(p) \/ ListTasks(p) \/ ListTasksFails(p) \/ Abort(p)
      PROVE  rows' = rows
  BY <1>3 DEF GetTask, RecheckVersion, ListTasks, ListTasksFails, Abort
<1>4. CASE UNCHANGED vars
  BY <1>4 DEF vars
<1> QED BY <1>1, <1>2, <1>3, <1>4 DEF Next

(* With one request at a time, each write of a task carries the version    *)
(* after the one it replaces.                                              *)
LEMMA VersionStep ==
    ASSUME SerialInv, [Next]_vars
    PROVE  \A t \in Ids :
               Exists(t) /\ Exists(t)' /\ rows'[t] # rows[t]
                   => rows'[t].version = rows[t].version + 1
<1>1. ASSUME NEW p \in Requests, UpsertTask(p), NEW t \in Ids,
             Exists(t), rows'[t] # rows[t]
      PROVE  rows'[t].version = rows[t].version + 1
  <2>1. /\ \A u \in Ids \ {req[p].id} : rows'[u] = rows[u]
        /\ rows'[req[p].id] = [version |-> req[p].base + 1, deps |-> req[p].deps]
        /\ req[p].op = "create" \/ rows[req[p].id].version = req[p].base
    BY <1>1, UpsertFacts
  <2>2. t = req[p].id
    BY <1>1, <2>1
  <2>3. ~At(p, "idle") BY <1>1 DEF UpsertTask, At
  <2>4. Current(req[p])
    BY <2>3, ActiveType
  <2>5. req[p].op # "create"
    BY <1>1, <2>2, <2>4 DEF Current
  <2> QED BY <2>1, <2>2, <2>5
<1>2. ASSUME NEW p \in Requests, DeleteTask(p), NEW t \in Ids, Exists(t)'
      PROVE  rows'[t] = rows[t]
  BY <1>2, DeleteFacts
<1> QED BY <1>1, <1>2, Writers

(* With one request at a time, a write that closes a cycle is one that     *)
(* ValidateDAG has not seen.                                               *)
LEMMA CycleStep ==
    ASSUME SerialInv, [Next]_vars, Acyclic(Graph), ~Acyclic(Graph')
    PROVE  \E p \in Requests : At(p, "upsert") /\ ~req[p].checked
<1>1. CASE rows' = rows
  <2>1. Graph' = Graph
    BY <1>1 DEF Graph, Listed, Exists
  <2> QED BY <2>1
<1>2. ASSUME NEW p \in Requests, UpsertTask(p)
      PROVE  At(p, "upsert") /\ ~req[p].checked
  <2>1. ~At(p, "idle") /\ At(p, "upsert")
    BY <1>2 DEF UpsertTask, At
  <2>2. Current(req[p])
    BY <2>1, ActiveType
  <2>3. req[p].checked => Graph' = Candidate(req[p])
    BY <1>2, UpsertFacts
  <2> QED BY <2>1, <2>2, <2>3 DEF Current, At
<1>3. ASSUME NEW p \in Requests, DeleteTask(p) PROVE FALSE
  <2>1. /\ \A t \in Ids : rows'[t] = rows[t] \/ ~Exists(t)'
        /\ Listed' \subseteq Listed
    BY <1>3, DeleteFacts
  <2>2. DOMAIN Graph' \subseteq DOMAIN Graph /\ \A t \in DOMAIN Graph' : Graph'[t] = Graph[t]
    BY <2>1 DEF Graph, Listed
  <2> QED BY <2>2, SubgraphAcyclic
<1> QED BY <1>1, <1>2, <1>3, Writers

(* While requests do not overlap, a request of TaskHandler that is between *)
(* its statements knows the row and the graph as they are.                 *)
THEOREM SerialInvariant == ASSUME OneSlot PROVE Spec => []SerialInv
BY InitSerial, StepSerial, PTL DEF Spec

(* No update of a task is lost while requests do not overlap. *)
THEOREM SerialVersions == ASSUME OneSlot PROVE Spec => VersionsIncrease
<1>1. Spec => []SerialInv
  BY SerialInvariant
<1>2. SerialInv /\ [Next]_vars =>
          [\A t \in Ids : Exists(t) /\ Exists(t)' /\ rows'[t] # rows[t]
              => rows'[t].version = rows[t].version + 1]_vars
  BY VersionStep
<1> QED BY <1>1, <1>2, PTL DEF Spec, VersionsIncrease

(* While requests do not overlap, ValidateDAG keeps the saved dependencies *)
(* acyclic wherever it is asked with the tasks at hand.                    *)
THEOREM SerialCycles == ASSUME OneSlot PROVE Spec => ValidatedWritesSafe
<1>1. Spec => []SerialInv
  BY SerialInvariant
<1>2. SerialInv /\ [Next]_vars =>
          [Acyclic(Graph) /\ ~Acyclic(Graph)'
              => \E p \in Requests : At(p, "upsert") /\ ~req[p].checked]_vars
  BY CycleStep
<1> QED BY <1>1, <1>2, PTL DEF Spec, ValidatedWritesSafe
=============================================================================
