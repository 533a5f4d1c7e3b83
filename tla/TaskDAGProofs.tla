---------------------------- MODULE TaskDAGProofs ----------------------------
(***************************************************************************)
(* ValidateDAG is right about every graph, however many tasks it has and   *)
(* in whatever order its loops visit them.                                 *)
(***************************************************************************)
EXTENDS TaskDAG, SequenceTheorems, TLAPS

(* What a task depends on are ids of tasks. *)
LEMMA DepsType ==
    ASSUME TypeOK, NEW id PROVE Deps(graph, id) \subseteq Ids
BY DEF TypeOK, Deps

(* A set of ids with no way out consists of tasks of the graph. *)
LEMMA ClosedInDomain ==
    ASSUME NEW S, Closed(graph, S) PROVE S \subseteq DOMAIN graph
BY DEF Closed, Deps

(* A call of visit that returns leaves the finished ids without a cycle,   *)
(* because all its dependencies are finished and it was not.               *)
LEMMA FinishOne ==
    ASSUME NEW F, NEW id, id \notin F,
           Deps(graph, id) \subseteq F,
           \A x \in F : Deps(graph, x) \subseteq F,
           \A S \in SUBSET F : S # {} => ~Closed(graph, S)
    PROVE  /\ \A x \in F \cup {id} : Deps(graph, x) \subseteq F \cup {id}
           /\ \A S \in SUBSET (F \cup {id}) : S # {} => ~Closed(graph, S)
<1>1. \A x \in F \cup {id} : Deps(graph, x) \subseteq F \cup {id}
  OBVIOUS
<1>2. ASSUME NEW S \in SUBSET (F \cup {id}), S # {}, Closed(graph, S)
      PROVE  FALSE
  <2>1. \A x \in S : Deps(graph, x) \cap (S \cap F) # {}
    BY <1>2 DEF Closed
  <2>2. S \cap F # {} /\ S \cap F \in SUBSET F
    BY <1>2, <2>1
  <2>3. Closed(graph, S \cap F)
    BY <2>1 DEF Closed
  <2> QED BY <2>2, <2>3
<1> QED BY <1>1, <1>2

LEMMA InitInv == Init => SearchInv
<1> SUFFICES ASSUME Init PROVE SearchInv
  OBVIOUS
<1> USE DEF Init
<1>1. TypeOK BY DEF TypeOK, TaskGraphs
<1>2. StackOK BY DEF StackOK
<1>3. LoopOK BY DEF LoopOK
<1>4. RestOK BY DEF RestOK
<1>5. FinishedOK BY DEF FinishedOK, Finished
<1>6. OutcomeOK BY DEF OutcomeOK
<1> QED BY <1>1, <1>2, <1>3, <1>4, <1>5, <1>6 DEF SearchInv

(* Entering an id that has not been visited, from nowhere or from the      *)
(* innermost call, whose loop moves on.                                    *)
LEMMA EnterStep ==
    ASSUME SearchInv, NEW id \in Ids, id \notin visited, Running,
           Enter(id),
           graph' = graph, verdict' = verdict,
           todo' \subseteq todo, todo \subseteq todo' \cup {id},
           rest' \in [Ids -> SUBSET Ids],
           rest'[id] = Deps(graph, id),
           calls # <<>> => id \in Deps(graph, Top),
           \A i \in 1 .. Len(calls) :
               rest'[calls[i]] = IF i = Len(calls) THEN rest[calls[i]] \ {id}
                                                   ELSE rest[calls[i]]
    PROVE  SearchInv'
<1> USE DEF SearchInv, Enter
<1>0. calls \in Seq(Ids) /\ Len(calls) \in Nat
  BY DEF TypeOK
<1>1. /\ Len(calls') = Len(calls) + 1
      /\ calls'[Len(calls) + 1] = id
      /\ \A i \in 1 .. Len(calls) : calls'[i] = calls[i]
      /\ calls' \in Seq(Ids)
  BY <1>0
<1>2. TypeOK'
  BY <1>1 DEF TypeOK
<1>3. \A i \in 1 .. Len(calls) : calls[i] # id /\ calls[i] \in stack
  BY DEF StackOK
<1>4. StackOK'
  <2>1. (stack \subseteq visited)'
    BY DEF StackOK
  <2>2. stack' = {calls'[i] : i \in 1 .. Len(calls')}
    BY <1>0, <1>1 DEF StackOK
  <2>3. \A i, j \in 1 .. Len(calls') : calls'[i] = calls'[j] => i = j
    BY <1>0, <1>1, <1>3 DEF StackOK
  <2>4. \A i \in 1 .. Len(calls') - 1 : calls'[i + 1] \in Deps(graph', calls'[i])
    <3> SUFFICES ASSUME NEW i \in 1 .. Len(calls)
                 PROVE  calls'[i + 1] \in Deps(graph, calls[i])
      BY <1>0, <1>1
    <3>1. CASE i = Len(calls)
      BY <3>1, <1>0, <1>1 DEF Top
    <3>2. CASE i < Len(calls)
      BY <3>2, <1>0, <1>1 DEF StackOK
    <3> QED BY <1>0, <3>1, <3>2
  <2> QED BY <2>1, <2>2, <2>3, <2>4 DEF StackOK
<1>5. Finished' = Finished
  BY DEF Finished, StackOK
<1>6. LoopOK'
  <2> SUFFICES ASSUME NEW i \in 1 .. Len(calls'), NEW dep \in Deps(graph, calls'[i])
               PROVE  \/ dep \in rest'[calls'[i]]
                      \/ dep \in Finished
                      \/ i < Len(calls') /\ dep = calls'[i + 1]
    BY <1>5 DEF LoopOK
  <2>1. CASE i = Len(calls) + 1
    BY <2>1, <1>1
  <2>2. CASE i \in 1 .. Len(calls)
    <3>1. \/ dep \in rest[calls[i]]
          \/ dep \in Finished
          \/ i < Len(calls) /\ dep = calls[i + 1]
      BY <2>2, <1>1 DEF LoopOK
    <3>2. CASE dep \in rest[calls[i]] /\ i = Len(calls)
      <4>1. rest'[calls'[i]] = rest[calls[i]] \ {id}
        BY <2>2, <3>2, <1>1
      <4> QED BY <4>1, <3>2, <1>0, <1>1
    <3>3. CASE dep \in rest[calls[i]] /\ i # Len(calls)
      <4>1. rest'[calls'[i]] = rest[calls[i]]
        BY <2>2, <3>3, <1>1
      <4> QED BY <4>1, <3>3
    <3>4. CASE i < Len(calls) /\ dep = calls[i + 1]
      BY <3>4, <2>2, <1>0, <1>1
    <3> QED BY <3>1, <3>2, <3>3, <3>4
  <2> QED BY <1>0, <1>1, <2>1, <2>2
<1>7. RestOK'
  <2> SUFFICES ASSUME NEW i \in 1 .. Len(calls')
               PROVE  rest'[calls'[i]] \subseteq Deps(graph, calls'[i])
    BY DEF RestOK
  <2>1. CASE i = Len(calls) + 1
    BY <2>1, <1>1
  <2>2. CASE i \in 1 .. Len(calls)
    BY <2>2, <1>1 DEF RestOK
  <2> QED BY <1>0, <1>1, <2>1, <2>2
<1>8. FinishedOK'
  BY <1>5 DEF FinishedOK
<1>9. OutcomeOK'
  BY DEF OutcomeOK, Running
<1> QED BY <1>2, <1>4, <1>6, <1>7, <1>8, <1>9

LEMMA RootInv ==
    ASSUME SearchInv, NEW id \in Ids, Root(id) PROVE SearchInv'
<1> USE DEF Root
<1>1. CASE id \in visited
  <2>1. UNCHANGED <<graph, visited, stack, calls, rest, verdict>> /\ todo' = todo \ {id}
    BY <1>1 DEF Enter
  <2>2. Finished' = Finished BY <2>1 DEF Finished
  <2>3. TypeOK' /\ StackOK' /\ RestOK'
    BY <2>1 DEF SearchInv, TypeOK, StackOK, RestOK
  <2>4. LoopOK' /\ FinishedOK'
    BY <2>1, <2>2 DEF SearchInv, LoopOK, FinishedOK
  <2>5. OutcomeOK'
    BY <1>1, <2>1 DEF SearchInv, OutcomeOK, Running
  <2> QED BY <2>3, <2>4, <2>5 DEF SearchInv
<1>2. CASE id \notin visited
  <2>1. Deps(graph, id) \subseteq Ids BY DepsType DEF SearchInv
  <2>2. rest \in [Ids -> SUBSET Ids] BY DEF SearchInv, TypeOK
  <2>3. rest' = [rest EXCEPT ![id] = Deps(graph, id)] /\ Enter(id)
    BY <1>2
  <2>4. rest' \in [Ids -> SUBSET Ids] /\ rest'[id] = Deps(graph, id)
    BY <2>1, <2>2, <2>3
  <2>5. Len(calls) = 0
    OBVIOUS
  <2> QED BY <1>2, <2>3, <2>4, <2>5, EnterStep
<1> QED BY <1>1, <1>2

(* The innermost call and what its loop still has to visit. *)
LEMMA TopFacts ==
    ASSUME SearchInv, calls # <<>>
    PROVE  /\ Len(calls) \in Nat \ {0}
           /\ Top \in Ids /\ Top \in stack /\ Top \in visited
           /\ rest[Top] \subseteq Deps(graph, Top)
           /\ Top = calls[Len(calls)]
           /\ rest \in [Ids -> SUBSET Ids]
<1>1. Len(calls) \in Nat \ {0} /\ calls \in Seq(Ids)
  BY DEF SearchInv, TypeOK
<1> QED BY <1>1 DEF SearchInv, TypeOK, StackOK, RestOK, Top

(* A dependency on the stack closes a cycle: the calls from its own to the *)
(* innermost one.                                                          *)
LEMMA CycleFoundInv ==
    ASSUME SearchInv, NEW dep \in Ids, Visit(dep), CycleFound(dep) PROVE SearchInv'
<1>1. calls # <<>> /\ dep \in rest[Top] /\ dep \in stack
      /\ UNCHANGED <<graph, visited, stack, calls, rest, todo>>
      /\ verdict' = "cycle"
  BY DEF Visit, CycleFound
<1>2. PICK k \in 1 .. Len(calls) : calls[k] = dep
  BY <1>1 DEF SearchInv, StackOK
<1> DEFINE S == {calls[i] : i \in k .. Len(calls)}
<1>3. Len(calls) \in Nat \ {0} /\ calls \in Seq(Ids)
  BY <1>1, TopFacts DEF SearchInv, TypeOK
<1>4. S \in SUBSET Ids /\ S # {}
  BY <1>2, <1>3
<1>5. \A i \in k .. Len(calls) : Deps(graph, calls[i]) \cap S # {}
  <2> SUFFICES ASSUME NEW i \in k .. Len(calls)
               PROVE  \E x \in S : x \in Deps(graph, calls[i])
    OBVIOUS
  <2>1. CASE i = Len(calls)
    BY <2>1, <1>1, <1>2, <1>3, TopFacts
  <2>2. CASE i < Len(calls)
    <3>1. calls[i + 1] \in Deps(graph, calls[i])
      BY <2>2, <1>2, <1>3 DEF SearchInv, StackOK
    <3>2. calls[i + 1] \in S
      BY <2>2, <1>2, <1>3
    <3> QED BY <3>1, <3>2
  <2> QED BY <1>2, <1>3, <2>1, <2>2
<1>6. Closed(graph, S)
  BY <1>5 DEF Closed
<1> HIDE DEF S
<1>7. OutcomeOK'
  BY <1>1, <1>4, <1>6 DEF SearchInv, OutcomeOK
<1>8. Finished' = Finished BY <1>1 DEF Finished
<1>9. TypeOK' /\ StackOK' /\ RestOK'
  BY <1>1 DEF SearchInv, TypeOK, StackOK, RestOK
<1>10. LoopOK' /\ FinishedOK'
  BY <1>1, <1>8 DEF SearchInv, LoopOK, FinishedOK
<1> QED BY <1>7, <1>9, <1>10 DEF SearchInv

LEMMA AlreadyVisitedInv ==
    ASSUME SearchInv, NEW dep \in Ids, Visit(dep), AlreadyVisited(dep) PROVE SearchInv'
<1>1. /\ calls # <<>> /\ dep \in rest[Top] /\ dep \in Finished
      /\ UNCHANGED <<graph, visited, stack, calls, todo, verdict>>
      /\ rest' = [rest EXCEPT ![Top] = rest[Top] \ {dep}]
  BY DEF Visit, AlreadyVisited, Finished
<1>2. Finished' = Finished BY <1>1 DEF Finished
<1>3. /\ rest' \in [Ids -> SUBSET Ids]
      /\ \A x \in Ids : rest'[x] \subseteq rest[x] /\ rest[x] \subseteq rest'[x] \cup {dep}
  BY <1>1, TopFacts
<1>4. calls \in Seq(Ids) /\ \A i \in 1 .. Len(calls) : calls[i] \in Ids
  BY DEF SearchInv, TypeOK
<1>5. TypeOK' /\ StackOK' /\ OutcomeOK'
  BY <1>1, <1>3 DEF SearchInv, TypeOK, StackOK, OutcomeOK
<1>6. FinishedOK'
  BY <1>1, <1>2 DEF SearchInv, FinishedOK
<1>7. RestOK'
  BY <1>1, <1>3, <1>4 DEF SearchInv, RestOK
<1>8. LoopOK'
  BY <1>1, <1>2, <1>3, <1>4 DEF SearchInv, LoopOK
<1> QED BY <1>5, <1>6, <1>7, <1>8 DEF SearchInv

LEMMA DescendInv ==
    ASSUME SearchInv, NEW dep \in Ids, Visit(dep), Descend(dep) PROVE SearchInv'
<1>1. /\ Running /\ calls # <<>> /\ dep \in rest[Top] /\ dep \notin visited
      /\ UNCHANGED <<graph, todo, verdict>> /\ Enter(dep)
      /\ rest' = [rest EXCEPT ![Top] = rest[Top] \ {dep}, ![dep] = Deps(graph, dep)]
  BY DEF Visit, Descend
<1>2. Top # dep
  BY <1>1, TopFacts
<1>3. Deps(graph, dep) \subseteq Ids BY DepsType DEF SearchInv
<1>4. /\ rest' \in [Ids -> SUBSET Ids]
      /\ rest'[dep] = Deps(graph, dep)
      /\ rest'[Top] = rest[Top] \ {dep}
      /\ \A x \in Ids \ {dep, Top} : rest'[x] = rest[x]
  BY <1>1, <1>2, <1>3, TopFacts
<1>5. dep \in Deps(graph, Top)
  BY <1>1, TopFacts
<1>6. ASSUME NEW i \in 1 .. Len(calls)
      PROVE  rest'[calls[i]] = IF i = Len(calls) THEN rest[calls[i]] \ {dep}
                                                 ELSE rest[calls[i]]
  <2>1. calls \in Seq(Ids) /\ calls[i] \in stack /\ calls[i] \in Ids /\ calls[i] # dep
    BY <1>1 DEF SearchInv, TypeOK, StackOK
  <2>2. CASE i = Len(calls)
    BY <2>2, <1>1, <1>4, TopFacts
  <2>3. CASE i # Len(calls)
    <3>1. calls[i] # Top
      BY <2>3, <1>1, TopFacts DEF SearchInv, StackOK
    <3> QED BY <3>1, <2>1, <2>3, <1>4
  <2> QED BY <2>2, <2>3
<1> QED BY <1>1, <1>4, <1>5, <1>6, EnterStep

LEMMA ReturnInv == ASSUME SearchInv, Return PROVE SearchInv'
<1> DEFINE n == Len(calls)
<1>1. /\ calls # <<>> /\ rest[Top] = {}
      /\ stack' = stack \ {Top}
      /\ calls' = SubSeq(calls, 1, n - 1)
      /\ UNCHANGED <<graph, visited, rest, todo, verdict>>
      /\ Running
  BY DEF Return
<1>2. n \in Nat \ {0} /\ calls \in Seq(Ids)
  BY <1>1, TopFacts DEF SearchInv, TypeOK
<1>3. /\ Len(calls') = n - 1
      /\ \A i \in 1 .. n - 1 : calls'[i] = calls[i]
      /\ calls' \in Seq(Ids)
  <2> HIDE DEF n
  <2> DEFINE c == SubSeq(calls, 1, n - 1)
  <2>1. \A i \in 1 .. n - 1 : calls[i] \in Ids
    BY <1>2 DEF n
  <2>2. /\ c \in Seq(Ids)
        /\ Len(c) = IF 1 <= n - 1 THEN n - 1 - 1 + 1 ELSE 0
        /\ \A i \in 1 .. n - 1 - 1 + 1 : c[i] = calls[1 + i - 1]
    BY <1>2, <2>1, SubSeqProperties
  <2> HIDE DEF c
  <2>3. Len(c) = n - 1 /\ n - 1 - 1 + 1 = n - 1 /\ \A i \in 1 .. n - 1 : 1 + i - 1 = i
    BY <1>2, <2>2
  <2>4. \A i \in 1 .. n - 1 : c[i] = calls[i]
    BY <2>2, <2>3
  <2>5. calls' = c
    BY <1>1 DEF c
  <2> QED BY <2>2, <2>3, <2>4, <2>5
<1>4. Top = calls[n] /\ Top \in stack /\ Top \in visited
  BY <1>1, TopFacts
<1>5. Finished' = Finished \cup {Top} /\ Top \notin Finished
  BY <1>1, <1>4 DEF Finished, SearchInv, StackOK
<1> HIDE DEF n
<1>6. Deps(graph, Top) \subseteq Finished
  BY <1>1, <1>2, <1>4 DEF SearchInv, LoopOK, n
<1>7. FinishedOK'
  BY <1>1, <1>5, <1>6, FinishOne DEF SearchInv, FinishedOK
<1>8. TypeOK'
  BY <1>1, <1>3 DEF SearchInv, TypeOK
<1>9. StackOK'
  <2>1. (stack \subseteq visited)'
    BY <1>1 DEF SearchInv, StackOK
  <2>2. \A i, j \in 1 .. n : calls[i] = calls[j] => i = j
    BY DEF SearchInv, StackOK, n
  <2>3. stack = {calls[i] : i \in 1 .. n}
    BY DEF SearchInv, StackOK, n
  <2>4. stack' = {calls'[i] : i \in 1 .. Len(calls')}
    BY <1>1, <1>2, <1>3, <1>4, <2>2, <2>3
  <2>5. \A i, j \in 1 .. Len(calls') : calls'[i] = calls'[j] => i = j
    BY <1>2, <1>3, <2>2
  <2>6. \A i \in 1 .. Len(calls') - 1 : calls'[i + 1] \in Deps(graph', calls'[i])
    BY <1>1, <1>2, <1>3 DEF SearchInv, StackOK, n
  <2> QED BY <2>1, <2>4, <2>5, <2>6 DEF StackOK
<1>10. LoopOK'
  <2> SUFFICES ASSUME NEW i \in 1 .. n - 1, NEW dep \in Deps(graph, calls[i])
               PROVE  \/ dep \in rest[calls[i]]
                      \/ dep \in Finished \cup {Top}
                      \/ i < n - 1 /\ dep = calls'[i + 1]
    BY <1>1, <1>3, <1>5 DEF LoopOK
  <2>1. \/ dep \in rest[calls[i]]
        \/ dep \in Finished
        \/ i < n /\ dep = calls[i + 1]
    BY <1>2 DEF SearchInv, LoopOK, n
  <2>2. CASE i = n - 1
    BY <2>1, <2>2, <1>2, <1>4
  <2>3. CASE i < n - 1
    BY <2>1, <2>3, <1>2, <1>3
  <2> QED BY <1>2, <2>2, <2>3
<1>11. RestOK'
  <2> SUFFICES ASSUME NEW i \in 1 .. n - 1
               PROVE  rest[calls[i]] \subseteq Deps(graph, calls[i])
    BY <1>1, <1>3 DEF RestOK
  <2> QED BY <1>2 DEF SearchInv, RestOK, n
<1>12. OutcomeOK'
  BY <1>1 DEF SearchInv, OutcomeOK, Running
<1> QED BY <1>7, <1>8, <1>9, <1>10, <1>11, <1>12 DEF SearchInv

LEMMA FinishInv == ASSUME SearchInv, Finish PROVE SearchInv'
<1>1. UNCHANGED <<graph, visited, stack, calls, rest, todo>> /\ verdict' = "ok"
      /\ calls = <<>> /\ todo = {}
  BY DEF Finish
<1>2. Finished' = Finished BY <1>1 DEF Finished
<1>3. TypeOK' /\ StackOK' /\ RestOK' /\ OutcomeOK'
  BY <1>1 DEF SearchInv, TypeOK, StackOK, RestOK, OutcomeOK
<1>4. LoopOK' /\ FinishedOK'
  BY <1>1, <1>2 DEF SearchInv, LoopOK, FinishedOK
<1> QED BY <1>3, <1>4 DEF SearchInv

LEMMA StepInv == SearchInv /\ [Next]_vars => SearchInv'
<1> SUFFICES ASSUME SearchInv, [Next]_vars PROVE SearchInv'
  OBVIOUS
<1>1. ASSUME NEW id \in Ids, Root(id) PROVE SearchInv'
  BY <1>1, RootInv
<1>2. ASSUME NEW id \in Ids, Visit(id) PROVE SearchInv'
  <2>1. CycleFound(id) \/ AlreadyVisited(id) \/ Descend(id)
    BY <1>2 DEF Visit
  <2> QED BY <1>2, <2>1, CycleFoundInv, AlreadyVisitedInv, DescendInv
<1>3. CASE Return BY <1>3, ReturnInv
<1>4. CASE Finish BY <1>4, FinishInv
<1>5. CASE UNCHANGED vars
  <2>1. Finished' = Finished BY <1>5 DEF Finished, vars
  <2>2. TypeOK' /\ StackOK' /\ RestOK' /\ OutcomeOK'
    BY <1>5 DEF vars, SearchInv, TypeOK, StackOK, RestOK, OutcomeOK
  <2>3. LoopOK' /\ FinishedOK'
    BY <1>5, <2>1 DEF vars, SearchInv, LoopOK, FinishedOK
  <2> QED BY <2>2, <2>3 DEF SearchInv
<1> QED BY <1>1, <1>2, <1>3, <1>4, <1>5 DEF Next

LEMMA InvVerdict == SearchInv => VerdictRight
<1> SUFFICES ASSUME SearchInv PROVE VerdictRight
  OBVIOUS
<1>1. ASSUME verdict = "ok" PROVE Acyclic(graph)
  <2>1. DOMAIN graph \subseteq visited /\ calls = <<>>
    BY <1>1 DEF SearchInv, OutcomeOK
  <2>2. stack = {}
    BY <2>1 DEF SearchInv, StackOK
  <2> QED BY <2>1, <2>2 DEF SearchInv, FinishedOK, Finished, Acyclic
<1>2. ASSUME verdict = "cycle" PROVE ~Acyclic(graph)
  <2>1. PICK S \in SUBSET Ids : S # {} /\ Closed(graph, S)
    BY <1>2 DEF SearchInv, OutcomeOK
  <2> QED BY <2>1, ClosedInDomain DEF Acyclic
<1> QED BY <1>1, <1>2 DEF VerdictRight

(* The two maps and the recursion of ValidateDAG's visit fit each other at  *)
(* every turn of its loops: the stack is a chain of dependencies, and what  *)
(* is visited and off the stack is finished and free of cycles.             *)
THEOREM SearchInvariant == Spec => []SearchInv
BY InitInv, StepInv, PTL DEF Spec

(* ValidateDAG reports a cycle if and only if there is one: for every      *)
(* graph, and every order of its loops.                                    *)
THEOREM ValidateDAGRight == Spec => []VerdictRight
BY SearchInvariant, InvVerdict, PTL

-----------------------------------------------------------------------------
(* Work that is left.                                                      *)

\* One step takes something off what is left, and adds nothing.
Shrinks ==
    /\ todo' \subseteq todo /\ Unread' \subseteq Unread /\ Finished \subseteq Finished'
    /\ todo' # todo \/ Unread' # Unread \/ Finished' # Finished

\* Entering an id moves its dependencies into a loop and finishes nothing.
LEMMA EnterKeeps ==
    ASSUME SearchInv, NEW id \in Ids, id \notin visited, Enter(id), graph' = graph,
           rest'[id] = Deps(graph, id),
           \A x \in Ids \ {id} : rest'[x] \subseteq rest[x]
    PROVE  Unread' \subseteq Unread /\ Finished' = Finished
<1>1. Finished' = Finished
  BY DEF Enter, Finished
<1>2. Unread' \subseteq Unread
  BY DEF Enter, Unread
<1>3. QED
  BY <1>1, <1>2

LEMMA RootShrinks ==
    ASSUME SearchInv, NEW id \in Ids, Root(id)
    PROVE  Shrinks
<1>1. todo' \subseteq todo /\ todo' # todo /\ graph' = graph
  BY DEF Root
<1>2. CASE id \in visited
  BY <1>1, <1>2 DEF Root, Shrinks, Unread, Finished
<1>3. CASE id \notin visited
  <2>1. Enter(id) /\ rest' = [rest EXCEPT ![id] = Deps(graph, id)]
    BY <1>3 DEF Root
  <2>2. rest'[id] = Deps(graph, id) /\ \A x \in Ids \ {id} : rest'[x] = rest[x]
    BY <2>1 DEF SearchInv, TypeOK
  <2>3. QED
    BY <1>1, <1>3, <2>1, <2>2, EnterKeeps DEF Shrinks
<1>4. QED
  BY <1>2, <1>3

LEMMA VisitShrinks ==
    ASSUME SearchInv, NEW dep \in Ids, Visit(dep), verdict' = "none"
    PROVE  Shrinks
<1>1. /\ calls # <<>> /\ dep \in rest[Top]
      /\ graph' = graph /\ todo' = todo
      /\ AlreadyVisited(dep) \/ Descend(dep)
  BY DEF Visit, CycleFound
<1>2. Top \in Ids /\ Top \in stack /\ Top \in visited
  BY <1>1, TopFacts DEF SearchInv, StackOK
<1>3. <<Top, dep>> \in Unread
  BY <1>1, <1>2 DEF Unread
<1>4. rest \in [Ids -> SUBSET Ids]
  BY DEF SearchInv, TypeOK
<1>5. CASE AlreadyVisited(dep)
  <2>1. /\ rest'[Top] = rest[Top] \ {dep}
        /\ \A x \in Ids \ {Top} : rest'[x] = rest[x]
        /\ visited' = visited /\ stack' = stack
    BY <1>2, <1>4, <1>5 DEF AlreadyVisited
  <2>2. Unread' \subseteq Unread /\ <<Top, dep>> \notin Unread'
    BY <1>1, <1>2, <2>1 DEF Unread
  <2>3. QED
    BY <1>1, <1>3, <2>1, <2>2 DEF Shrinks, Finished
<1>6. CASE Descend(dep)
  <2>1. /\ dep # Top /\ dep \notin visited /\ Enter(dep)
        /\ rest' = [rest EXCEPT ![Top] = @ \ {dep}, ![dep] = Deps(graph, dep)]
    BY <1>2, <1>6 DEF Descend
  <2>2. /\ rest'[Top] = rest[Top] \ {dep} /\ rest'[dep] = Deps(graph, dep)
        /\ \A x \in Ids \ {dep} : rest'[x] \subseteq rest[x]
    BY <1>2, <1>4, <2>1
  <2>3. Unread' \subseteq Unread /\ Finished' = Finished
    BY <1>1, <2>1, <2>2, EnterKeeps
  <2>4. <<Top, dep>> \notin Unread'
    BY <1>2, <2>1, <2>2 DEF Unread, Enter
  <2>5. QED
    BY <1>1, <1>3, <2>3, <2>4 DEF Shrinks
<1>7. QED
  BY <1>1, <1>5, <1>6

LEMMA ReturnShrinks ==
    ASSUME SearchInv, Return
    PROVE  Shrinks
<1>1. Top \in stack /\ Top \in visited
  BY TopFacts DEF Return, SearchInv, StackOK
<1>2. /\ stack' = stack \ {Top} /\ visited' = visited
      /\ UNCHANGED <<graph, rest, todo>>
  BY DEF Return
<1>3. Finished \subseteq Finished' /\ Top \in Finished' /\ Top \notin Finished
  BY <1>1, <1>2 DEF Finished
<1>4. Unread' = Unread
  BY <1>2 DEF Unread
<1>5. QED
  BY <1>2, <1>3, <1>4 DEF Shrinks

(* For every graph, ValidateDAG comes to every task and every dependency   *)
(* once and returns from visit once per id, whatever the order of its      *)
(* loops: on a finite graph it takes finitely many steps.                  *)
THEOREM SearchLinear == Spec => WorkShrinks
<1>1. SearchInv /\ [Next]_vars => [verdict' = "none" => Shrinks]_vars
  <2> SUFFICES ASSUME SearchInv, Next, verdict' = "none" PROVE Shrinks
    OBVIOUS
  <2>1. ~Finish
    BY DEF Finish
  <2>2. QED
    BY <2>1, RootShrinks, VisitShrinks, ReturnShrinks DEF Next
<1>2. QED
  BY <1>1, SearchInvariant, PTL DEF Spec, WorkShrinks, Shrinks
=============================================================================
