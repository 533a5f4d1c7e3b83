--------------------------- MODULE AccountsProofs ---------------------------
(***************************************************************************)
(* Safety of Accounts for every set of tenants, emails, sessions and       *)
(* requests and every life of a session.                                   *)
(***************************************************************************)
EXTENDS Accounts, FiniteSetTheorems, TLAPS

\* Steps of a request that are about a user.
Addressed == PC \ {"idle", "active", "admitted"}

UserOf(r) == <<r.tenant, r.email>>

\* What a request knows about the tenants T and the users U.
Placed(r, T, U) ==
    /\ r.pc \in Addressed => r.tenant \in Tenants /\ r.email \in Emails
    /\ r.pc \in {"grant", "wait", "commit"} => UserOf(r) \in U
    /\ r.pc = "count" /\ T = {} => r.early
    /\ r.pc = "tenant" => r.early
    /\ r.first => r.pc \in {"lookup", "user", "grant"} /\ r.role = "admin" /\ r.tenant \in T

\* What it knows about its session, at the time c.
Admitted(r, S, c) ==
    /\ r.now <= c
    /\ r.pc \in {"active", "admitted"} => r.session \in Sessions /\ S[r.session] # NoSession
    /\ r.pc = "active" /\ r.late => S[r.session].ended
    /\ r.pc = "admitted" => /\ r.late => S[r.session].failed
                            /\ r.now < S[r.session].expires

\* The user has the role, or lost it no earlier than the time c.
HasOrLost(R, L, u, role, c) == role \in Held(R[u]) \/ c <= L[u][role]

\* What a login knows about the role it read, and a request that writes roles
\* about the roles it does not expect to find.
Informed(r, R, L, M) ==
    /\ r.pc = "session" => HasOrLost(R, L, UserOf(r), r.role, r.now)
    /\ r.pc \in {"user", "grant"} /\ UserOf(r) \notin M => R[UserOf(r)] = {}
    /\ r.pc \in {"wait", "commit"} /\ UserOf(r) \notin M => R[UserOf(r)] \subseteq r.doomed

Knowing ==
    \A p \in Requests :
        /\ Placed(req[p], tenants, users)
        /\ Admitted(req[p], sessions, clock)
        /\ Informed(req[p], roles, lost, muddled)

\* Sessions live from the login, whose time is past, carry a role their user had
\* or lost since, and are revoked by a logout whose UPDATE did not fail.
SessionsOK ==
    \A s \in Sessions : sessions[s] # NoSession =>
        LET row == sessions[s] IN
        /\ row.expires = row.login + SessionTTL
        /\ row.login <= clock
        /\ HasOrLost(roles, lost, row.user, row.role, row.login)
        /\ row.ended => row.revoked \/ row.failed

TokensOK == \A tok \in tokens : sessions[tok.session] # NoSession

SingleRole == \A u \in User \ muddled : roles[u] = {} \/ \E r \in Roles : roles[u] = {r}

Inv == TypeOK /\ Knowing /\ SessionsOK /\ TokensOK /\ SingleRole /\ TenantAdministered

-----------------------------------------------------------------------------
(* Requests.                                                               *)

LEMMA IdleKnows ==
    /\ Idle \in Request
    /\ ~Idle.first
    /\ \A T, U : Placed(Idle, T, U)
    /\ \A S : \A c \in Nat : Admitted(Idle, S, c)
    /\ \A R, L, M : Informed(Idle, R, L, M)
BY AccountsAssumption
   DEF Idle, Request, PC, Ops, Addressed, Placed, Admitted, Informed

LEMMA RequestKnows ==
    ASSUME Inv, NEW p \in Requests
    PROVE  /\ req[p] \in Request
           /\ Placed(req[p], tenants, users)
           /\ Admitted(req[p], sessions, clock)
           /\ Informed(req[p], roles, lost, muddled)
BY DEF Inv, TypeOK, Knowing

\* A request that takes a step and leaves the tables alone. It may give up its
\* tenant only if that has an administrator or is excused.
LEMMA GoesOn ==
    ASSUME Inv, NEW p \in Requests, NEW r \in Request, Become(p, r),
           UNCHANGED <<clock, accounts, sessions, tokens, lost>>,
           arrived' \in Nat, faults' \in Nat,
           muddled \subseteq muddled', muddled' \subseteq User,
           excused \subseteq excused', excused' \subseteq Tenants,
           Placed(r, tenants, users), Admitted(r, sessions, clock),
           Informed(r, roles, lost, muddled'),
           req[p].first => \/ r.first /\ r.tenant = req[p].tenant
                           \/ req[p].tenant \in excused'
    PROVE  Inv'
<1>1. /\ req' \in [Requests -> Request] /\ req'[p] = r
      /\ \A q \in Requests \ {p} : req'[q] = req[q]
  BY DEF Become, Inv, TypeOK
<1>2. UNCHANGED <<clock, tenants, users, roles, sessions, tokens, lost>>
  BY DEF accounts
<1>3. TypeOK'
  BY <1>1, <1>2 DEF Inv, TypeOK
<1>4. ASSUME NEW q \in Requests
      PROVE  /\ Placed(req'[q], tenants, users) /\ Admitted(req'[q], sessions, clock)
             /\ Informed(req'[q], roles, lost, muddled')
  <2>1. CASE q = p
    BY <2>1, <1>1
  <2>2. CASE q # p
    BY <2>2, <1>1, RequestKnows DEF Informed
  <2>3. QED
    BY <2>1, <2>2
<1>5. Knowing'
  BY <1>2, <1>4 DEF Knowing
<1>6. SessionsOK' /\ TokensOK' /\ SingleRole'
  BY <1>2 DEF Inv, SessionsOK, TokensOK, SingleRole
<1>7. TenantAdministered'
  BY <1>1, <1>2 DEF Inv, TenantAdministered
<1>8. QED
  BY <1>3, <1>5, <1>6, <1>7 DEF Inv

\* A request that was not the first of its tenant, or is excused, ends.
LEMMA Ends ==
    ASSUME Inv, NEW p \in Requests, Finish(p),
           UNCHANGED <<clock, accounts, sessions, tokens, lost>>,
           arrived' \in Nat, faults' \in Nat, muddled' = muddled,
           excused \subseteq excused', excused' \subseteq Tenants,
           req[p].first => req[p].tenant \in excused'
    PROVE  Inv'
<1>1. muddled' \subseteq User /\ clock \in Nat
  BY DEF Inv, TypeOK
<1>2. /\ Idle \in Request /\ Placed(Idle, tenants, users) /\ Admitted(Idle, sessions, clock)
      /\ Informed(Idle, roles, lost, muddled')
  BY <1>1, IdleKnows
<1>3. Become(p, Idle) /\ muddled \subseteq muddled'
  BY DEF Finish
<1>4. QED
  BY <1>1, <1>2, <1>3, GoesOn

\* The fields of a request that goes on to its next statement.
LEMMA StepFields ==
    ASSUME NEW r \in Request, NEW pc \in PC
    PROVE  LET n == [r EXCEPT !.pc = pc] IN
           /\ n \in Request /\ n.pc = pc /\ n.op = r.op /\ n.tenant = r.tenant
           /\ n.email = r.email /\ n.role = r.role /\ n.fit = r.fit /\ n.early = r.early
           /\ n.first = r.first /\ n.now = r.now /\ n.session = r.session
           /\ n.late = r.late /\ n.doomed = r.doomed
BY DEF Request

\* A request arrives.
LEMMA Arrives ==
    ASSUME Inv, NEW p \in Requests, NEW r \in Request, Arrive(p), Become(p, r),
           Placed(r, tenants, users), Admitted(r, sessions, clock),
           Informed(r, roles, lost, muddled)
    PROVE  Inv'
<1>1. /\ UNCHANGED <<clock, accounts, sessions, tokens, lost, muddled, excused, faults>>
      /\ arrived' \in Nat /\ faults' \in Nat /\ muddled' \subseteq User /\ excused' \subseteq Tenants
  BY DEF Arrive, Inv, TypeOK, history
<1>2. ~req[p].first
  BY RequestKnows DEF Arrive, Placed
<1>3. QED
  BY <1>1, <1>2, GoesOn

LEMMA BeginKnowing == ASSUME Inv, NEW p \in Requests, Begin(p) PROVE Inv'
<1> DEFINE early == tenants = {}
<1>1. ASSUME NEW r \in Request, r.pc \in {"count", "lookup"}, r.tenant \in Tenants,
             r.email \in Emails, r.early = early, r.now = 0, ~r.first, Arrive(p), Become(p, r)
      PROVE  Inv'
  <2>1. clock \in Nat
    BY DEF Inv, TypeOK
  <2>2. tenants = {} => r.early
    BY <1>1
  <2>3. Placed(r, tenants, users)
    BY <1>1, <2>2 DEF Placed
  <2>4. Admitted(r, sessions, clock) /\ Informed(r, roles, lost, muddled)
    BY <1>1, <2>1 DEF Admitted, Informed
  <2>5. QED
    BY <1>1, <2>3, <2>4, Arrives
<1>2. CASE BeginSeed(p)
  <2>1. PICK e \in Emails, fit \in BOOLEAN :
          Become(p, [Idle EXCEPT !.pc = "count", !.op = "seed", !.tenant = DefaultTenant,
                                 !.email = e, !.role = "admin", !.fit = fit, !.early = early])
    BY <1>2 DEF BeginSeed
  <2> DEFINE r == [Idle EXCEPT !.pc = "count", !.op = "seed", !.tenant = DefaultTenant,
                               !.email = e, !.role = "admin", !.fit = fit, !.early = early]
  <2>2. early \in BOOLEAN
    OBVIOUS
  <2>3. /\ r \in Request /\ r.pc \in {"count", "lookup"} /\ r.tenant \in Tenants
        /\ r.email \in Emails /\ r.early = early /\ r.now = 0 /\ ~r.first
    <3> HIDE DEF early
    <3> QED
      BY <2>2, IdleKnows, AccountsAssumption DEF Idle, Request, PC, Ops
  <2>4. QED
    BY <1>1, <1>2, <2>1, <2>3 DEF BeginSeed
<1>3. CASE BeginSetup(p)
  <2>1. PICK t \in Tenants, e \in Emails :
          Become(p, [Idle EXCEPT !.pc = "count", !.op = "setup", !.tenant = t, !.email = e,
                                 !.role = "admin", !.early = early])
    BY <1>3 DEF BeginSetup
  <2> DEFINE r == [Idle EXCEPT !.pc = "count", !.op = "setup", !.tenant = t, !.email = e,
                               !.role = "admin", !.early = early]
  <2>2. early \in BOOLEAN
    OBVIOUS
  <2>3. /\ r \in Request /\ r.pc \in {"count", "lookup"} /\ r.tenant \in Tenants
        /\ r.email \in Emails /\ r.early = early /\ r.now = 0 /\ ~r.first
    <3> HIDE DEF early
    <3> QED
      BY <2>2, IdleKnows, AccountsAssumption DEF Idle, Request, PC, Ops
  <2>4. QED
    BY <1>1, <1>3, <2>1, <2>3 DEF BeginSetup
<1>4. CASE BeginRegister(p)
  <2>1. PICK t \in Tenants, e \in Emails, role \in Roles, pc \in {"count", "lookup"},
             fit \in BOOLEAN :
          Become(p, [Idle EXCEPT !.pc = pc, !.op = "register", !.tenant = t, !.email = e,
                                 !.role = role, !.fit = fit, !.early = early])
    BY <1>4 DEF BeginRegister
  <2> DEFINE r == [Idle EXCEPT !.pc = pc, !.op = "register", !.tenant = t, !.email = e,
                               !.role = role, !.fit = fit, !.early = early]
  <2>2. early \in BOOLEAN
    OBVIOUS
  <2>3. /\ r \in Request /\ r.pc \in {"count", "lookup"} /\ r.tenant \in Tenants
        /\ r.email \in Emails /\ r.early = early /\ r.now = 0 /\ ~r.first
    <3> HIDE DEF early
    <3> QED
      BY <2>2, IdleKnows DEF Idle, Request, PC, Ops
  <2>4. QED
    BY <1>1, <1>4, <2>1, <2>3 DEF BeginRegister
<1>5. CASE BeginLogin(p)
  <2>1. PICK t \in Tenants, e \in Emails :
          Become(p, [Idle EXCEPT !.pc = "credentials", !.op = "login", !.tenant = t,
                                 !.email = e, !.now = clock])
    BY <1>5 DEF BeginLogin
  <2> DEFINE r == [Idle EXCEPT !.pc = "credentials", !.op = "login", !.tenant = t,
                               !.email = e, !.now = clock]
  <2>2. clock \in Nat
    BY DEF Inv, TypeOK
  <2>3. /\ r \in Request /\ r.pc = "credentials" /\ r.tenant = t /\ r.email = e
        /\ r.now = clock /\ ~r.first
    BY <2>2, IdleKnows DEF Idle, Request, PC, Ops
  <2>4. Become(p, r) /\ Arrive(p)
    BY <1>5, <2>1 DEF BeginLogin
  <2> HIDE DEF r
  <2>5. /\ Placed(r, tenants, users) /\ Admitted(r, sessions, clock)
        /\ Informed(r, roles, lost, muddled)
    BY <2>2, <2>3 DEF Placed, Admitted, Informed
  <2>6. QED
    BY <2>3, <2>4, <2>5, Arrives
<1>6. CASE BeginGuarded(p)
  <2>1. PICK tok \in tokens, op \in {"logout", "setrole", "other"} :
          Become(p, [Idle EXCEPT !.pc = "active", !.op = op, !.now = clock,
                                 !.session = tok.session,
                                 !.late = sessions[tok.session].ended])
    BY <1>6 DEF BeginGuarded
  <2> DEFINE late == sessions[tok.session].ended
             r == [Idle EXCEPT !.pc = "active", !.op = op, !.now = clock,
                               !.session = tok.session, !.late = late]
  <2>2. clock \in Nat /\ tok.session \in Sessions /\ sessions[tok.session] # NoSession
    BY DEF Inv, TypeOK, TokensOK
  <2>3. sessions[tok.session] \in SessionRow
    BY <2>2 DEF Inv, TypeOK
  <2>4. late \in BOOLEAN
    BY <2>3 DEF SessionRow
  <2>5. /\ r \in Request /\ r.pc = "active" /\ r.session = tok.session /\ r.late = late
        /\ r.now = clock /\ ~r.first
    <3> HIDE DEF late
    <3> QED
      BY <2>2, <2>4, IdleKnows DEF Idle, Request, PC, Ops
  <2>6. Become(p, r) /\ Arrive(p)
    BY <1>6, <2>1 DEF BeginGuarded
  <2> HIDE DEF r
  <2>7. /\ Placed(r, tenants, users) /\ Admitted(r, sessions, clock)
        /\ Informed(r, roles, lost, muddled)
    BY <2>2, <2>5 DEF Placed, Admitted, Informed, Addressed
  <2>8. QED
    BY <2>5, <2>6, <2>7, Arrives
<1>7. QED
  BY <1>2, <1>3, <1>4, <1>5, <1>6 DEF Begin

-----------------------------------------------------------------------------
(* Steps that leave the tables alone.                                      *)

LEMMA Continues ==
    ASSUME Inv, NEW p \in Requests, NEW r \in Request, Become(p, r),
           UNCHANGED <<clock, accounts, sessions, tokens, arrived, faults, history>>,
           Placed(r, tenants, users), Admitted(r, sessions, clock),
           Informed(r, roles, lost, muddled),
           req[p].first => r.first /\ r.tenant = req[p].tenant
    PROVE  Inv'
<1>1. /\ UNCHANGED <<lost, muddled, excused>>
      /\ arrived' \in Nat /\ faults' \in Nat /\ muddled' \subseteq User /\ excused' \subseteq Tenants
  BY DEF history, Inv, TypeOK
<1>2. QED
  BY <1>1, GoesOn

LEMMA Stops ==
    ASSUME Inv, NEW p \in Requests, Finish(p), ~req[p].first,
           UNCHANGED <<clock, accounts, sessions, tokens, arrived, faults, history>>
    PROVE  Inv'
<1>1. /\ UNCHANGED <<lost, muddled, excused>>
      /\ arrived' \in Nat /\ faults' \in Nat /\ muddled' \subseteq User /\ excused' \subseteq Tenants
  BY DEF history, Inv, TypeOK
<1>2. QED
  BY <1>1, Ends

\* A registration that named no tenant continues with the default one.
LEMMA DefaultFields ==
    ASSUME NEW r \in Request
    PROVE  LET n == [r EXCEPT !.pc = "lookup", !.tenant = DefaultTenant] IN
           /\ n \in Request /\ n.pc = "lookup" /\ n.tenant = DefaultTenant
           /\ n.email = r.email /\ n.first = r.first /\ n.now = r.now
BY AccountsAssumption DEF Request, PC

LEMMA CountTenantsKnowing == ASSUME Inv, NEW p \in Requests, CountTenants(p) PROVE Inv'
<1>1. /\ req[p] \in Request /\ req[p].pc = "count" /\ ~req[p].first
      /\ Placed(req[p], tenants, users) /\ Admitted(req[p], sessions, clock)
      /\ UNCHANGED <<clock, accounts, sessions, tokens, arrived, faults, history>>
  BY RequestKnows DEF CountTenants, Placed
<1>2. CASE tenants = {}
  <2> DEFINE n == [req[p] EXCEPT !.pc = "tenant"]
  <2>1. "tenant" \in PC
    BY DEF PC
  <2>2. /\ n \in Request /\ n.pc = "tenant" /\ n.tenant = req[p].tenant /\ n.email = req[p].email
        /\ n.early = req[p].early /\ n.first = req[p].first /\ n.now = req[p].now
    BY <1>1, <2>1, StepFields
  <2>3. Become(p, n)
    BY <1>2 DEF CountTenants, Step
  <2> HIDE DEF n
  <2>4. n.tenant \in Tenants /\ n.email \in Emails /\ n.early
    BY <1>1, <1>2, <2>2 DEF Placed, Addressed, PC
  <2>5. /\ Placed(n, tenants, users) /\ Admitted(n, sessions, clock)
        /\ Informed(n, roles, lost, muddled)
    BY <1>1, <2>2, <2>4 DEF Placed, Admitted, Informed
  <2>6. QED
    BY <1>1, <2>2, <2>3, <2>5, Continues
<1>3. CASE tenants # {} /\ req[p].op = "register"
  <2> DEFINE n == [req[p] EXCEPT !.pc = "lookup", !.tenant = DefaultTenant]
  <2>1. /\ n \in Request /\ n.pc = "lookup" /\ n.tenant = DefaultTenant
        /\ n.email = req[p].email /\ n.first = req[p].first /\ n.now = req[p].now
    BY <1>1, DefaultFields
  <2>2. Become(p, n)
    BY <1>3 DEF CountTenants
  <2> HIDE DEF n
  <2>3. n.email \in Emails
    BY <1>1, <2>1 DEF Placed, Addressed, PC
  <2>4. /\ Placed(n, tenants, users) /\ Admitted(n, sessions, clock)
        /\ Informed(n, roles, lost, muddled)
    BY <1>1, <2>1, <2>3, AccountsAssumption DEF Placed, Admitted, Informed
  <2>5. QED
    BY <1>1, <2>1, <2>2, <2>4, Continues
<1>4. CASE tenants # {} /\ req[p].op # "register"
  BY <1>1, <1>4, Stops DEF CountTenants
<1>5. QED
  BY <1>2, <1>3, <1>4

\* The roles of somebody who is no user are empty.
LEMMA LookupKnowing == ASSUME Inv, NEW p \in Requests, Lookup(p) PROVE Inv'
<1>1. /\ req[p] \in Request /\ req[p].pc = "lookup"
      /\ Placed(req[p], tenants, users) /\ Admitted(req[p], sessions, clock)
      /\ UNCHANGED <<clock, accounts, sessions, tokens, lost, muddled>>
      /\ arrived' \in Nat /\ faults' \in Nat /\ muddled \subseteq User /\ excused \subseteq Tenants
  BY RequestKnows DEF Lookup, Inv, TypeOK
<1>2. req[p].tenant \in Tenants /\ req[p].email \in Emails
  BY <1>1 DEF Placed, Addressed, PC
<1>3. CASE req[p].fit /\ Target(p) \notin users
  <2> DEFINE n == [req[p] EXCEPT !.pc = "user"]
  <2>1. "user" \in PC
    BY DEF PC
  <2>2. /\ n \in Request /\ n.pc = "user" /\ n.tenant = req[p].tenant /\ n.email = req[p].email
        /\ n.first = req[p].first /\ n.now = req[p].now /\ n.role = req[p].role
    BY <1>1, <2>1, StepFields
  <2>3. Become(p, n) /\ excused' = excused
    BY <1>3 DEF Lookup, Step
  <2> HIDE DEF n
  <2>4. UserOf(n) \in User \ users
    BY <1>2, <1>3, <2>2 DEF UserOf, Target, User
  <2>5. roles[UserOf(n)] = {}
    BY <2>4 DEF Inv, TypeOK
  <2>6. /\ Placed(n, tenants, users) /\ Admitted(n, sessions, clock)
        /\ Informed(n, roles, lost, muddled)
    BY <1>1, <1>2, <2>2, <2>5 DEF Placed, Admitted, Informed
  <2>7. QED
    BY <1>1, <2>2, <2>3, <2>6, GoesOn
<1>4. CASE ~(req[p].fit /\ Target(p) \notin users)
  <2>1. Finish(p) /\ excused' = excused \cup IF req[p].first THEN {req[p].tenant} ELSE {}
    BY <1>4 DEF Lookup
  <2>2. QED
    BY <1>1, <1>2, <2>1, Ends
<1>5. QED
  BY <1>3, <1>4

LEMMA UpdateUserRoleKnowing == ASSUME Inv, NEW p \in Requests, UpdateUserRole(p) PROVE Inv'
<1>1. /\ req[p] \in Request /\ req[p].pc = "admitted" /\ ~req[p].first
      /\ Placed(req[p], tenants, users) /\ Admitted(req[p], sessions, clock)
      /\ UNCHANGED <<clock, accounts, sessions, tokens, arrived, faults, history>>
  BY RequestKnows DEF UpdateUserRole, Placed
<1>2. CASE RequireAdmin(p)
  <2>1. PICK u \in users, r \in Roles :
          Become(p, [req[p] EXCEPT !.pc = "wait", !.tenant = u[1], !.email = u[2],
                                   !.role = r, !.doomed = roles[u]])
    BY <1>2 DEF UpdateUserRole
  <2> DEFINE R == roles[u]
             n == [req[p] EXCEPT !.pc = "wait", !.tenant = u[1], !.email = u[2],
                                 !.role = r, !.doomed = R]
  <2>2. /\ u \in User /\ u[1] \in Tenants /\ u[2] \in Emails /\ <<u[1], u[2]>> = u
        /\ R \in SUBSET Roles
    BY DEF Inv, TypeOK, User
  <2>3. /\ n \in Request /\ n.pc = "wait" /\ n.tenant = u[1] /\ n.email = u[2] /\ n.doomed = R
        /\ n.first = req[p].first /\ n.now = req[p].now
    <3> HIDE DEF R
    <3> QED
      BY <1>1, <2>2 DEF Request, PC
  <2>4. Become(p, n)
    BY <2>1
  <2> HIDE DEF n
  <2>5. UserOf(n) = u
    BY <2>2, <2>3 DEF UserOf
  <2>6. /\ Placed(n, tenants, users) /\ Admitted(n, sessions, clock)
        /\ Informed(n, roles, lost, muddled)
    BY <1>1, <2>2, <2>3, <2>5 DEF Placed, Admitted, Informed
  <2>7. QED
    BY <1>1, <2>3, <2>4, <2>6, Continues
<1>3. CASE ~RequireAdmin(p)
  BY <1>1, <1>3, Stops DEF UpdateUserRole
<1>4. QED
  BY <1>2, <1>3

LEMMA DeleteRolesKnowing == ASSUME Inv, NEW p \in Requests, DeleteRoles(p) PROVE Inv'
<1> DEFINE n == [req[p] EXCEPT !.pc = "commit"]
<1>1. /\ req[p] \in Request /\ req[p].pc = "wait"
      /\ Placed(req[p], tenants, users) /\ Admitted(req[p], sessions, clock)
      /\ Informed(req[p], roles, lost, muddled)
      /\ UNCHANGED <<clock, accounts, sessions, tokens, arrived, faults, history>>
  BY RequestKnows DEF DeleteRoles
<1>2. "commit" \in PC
  BY DEF PC
<1>3. /\ n \in Request /\ n.pc = "commit" /\ n.tenant = req[p].tenant /\ n.email = req[p].email
      /\ n.first = req[p].first /\ n.now = req[p].now /\ n.doomed = req[p].doomed
  BY <1>1, <1>2, StepFields
<1>4. Become(p, n)
  BY DEF DeleteRoles, Step
<1> HIDE DEF n
<1>5. UserOf(n) = UserOf(req[p])
  BY <1>3 DEF UserOf
<1>6. /\ Placed(n, tenants, users) /\ Admitted(n, sessions, clock)
      /\ Informed(n, roles, lost, muddled)
  BY <1>1, <1>3, <1>5 DEF Placed, Admitted, Informed, Addressed, PC
<1>7. ~req[p].first
  BY <1>1 DEF Placed
<1>8. QED
  BY <1>1, <1>3, <1>4, <1>6, <1>7, Continues

\* A login reads a role the user has.
LEMMA AuthenticateKnowing == ASSUME Inv, NEW p \in Requests, Authenticate(p) PROVE Inv'
<1>1. /\ req[p] \in Request /\ req[p].pc = "credentials" /\ ~req[p].first
      /\ Placed(req[p], tenants, users) /\ Admitted(req[p], sessions, clock)
      /\ UNCHANGED <<clock, accounts, sessions, tokens, arrived, faults, history>>
  BY RequestKnows DEF Authenticate, Placed
<1>2. CASE Target(p) \in users
  <2>1. PICK r \in Held(roles[Target(p)]) :
          Become(p, [req[p] EXCEPT !.pc = "session", !.role = r])
    BY <1>2 DEF Authenticate
  <2> DEFINE n == [req[p] EXCEPT !.pc = "session", !.role = r]
  <2>2. Target(p) \in User /\ roles[Target(p)] \subseteq Roles
    BY <1>2 DEF Inv, TypeOK
  <2>3. r \in Roles
    BY <2>2, AccountsAssumption DEF Held
  <2>4. /\ n \in Request /\ n.pc = "session" /\ n.tenant = req[p].tenant
        /\ n.email = req[p].email /\ n.first = req[p].first /\ n.now = req[p].now /\ n.role = r
    BY <1>1, <2>3 DEF Request, PC
  <2>5. Become(p, n)
    BY <2>1
  <2> HIDE DEF n
  <2>6. HasOrLost(roles, lost, UserOf(n), n.role, n.now)
    BY <2>1, <2>4 DEF UserOf, Target, HasOrLost
  <2>7. /\ Placed(n, tenants, users) /\ Admitted(n, sessions, clock)
        /\ Informed(n, roles, lost, muddled)
    BY <1>1, <2>4, <2>6 DEF Placed, Admitted, Informed, Addressed, PC
  <2>8. QED
    BY <1>1, <2>4, <2>5, <2>7, Continues
<1>3. CASE Target(p) \notin users
  BY <1>1, <1>3, Stops DEF Authenticate
<1>4. QED
  BY <1>2, <1>3

LEMMA HandleKnowing == ASSUME Inv, NEW p \in Requests, Handle(p) PROVE Inv'
<1>1. ~req[p].first
  BY RequestKnows DEF Handle, Placed
<1>2. QED
  BY <1>1, Stops DEF Handle

-----------------------------------------------------------------------------
(* Failures and time.                                                      *)

LEMMA AbortKnowing == ASSUME Inv, NEW p \in Requests, Abort(p) PROVE Inv'
<1>1. req[p].first => req[p].tenant \in Tenants
  BY RequestKnows DEF Placed, Inv, TypeOK
<1>2. /\ UNCHANGED <<clock, accounts, sessions, tokens, lost, muddled>>
      /\ arrived' \in Nat /\ faults' \in Nat /\ excused \subseteq Tenants
  BY DEF Abort, Fault, Inv, TypeOK
<1>3. Finish(p) /\ excused' = excused \cup IF req[p].first THEN {req[p].tenant} ELSE {}
  BY DEF Abort
<1>4. QED
  BY <1>1, <1>2, <1>3, Ends

LEMMA CountFailsKnowing == ASSUME Inv, NEW p \in Requests, CountFails(p) PROVE Inv'
<1> DEFINE n == [req[p] EXCEPT !.pc = "lookup", !.tenant = DefaultTenant]
<1>1. /\ req[p] \in Request /\ req[p].pc = "count" /\ ~req[p].first
      /\ Placed(req[p], tenants, users) /\ Admitted(req[p], sessions, clock)
  BY RequestKnows DEF CountFails, Placed
<1>2. /\ UNCHANGED <<clock, accounts, sessions, tokens, lost, muddled, excused>>
      /\ arrived' \in Nat /\ faults' \in Nat /\ muddled \subseteq User /\ excused \subseteq Tenants
  BY DEF CountFails, Fault, Inv, TypeOK
<1>3. /\ n \in Request /\ n.pc = "lookup" /\ n.tenant = DefaultTenant
      /\ n.email = req[p].email /\ n.first = req[p].first /\ n.now = req[p].now
  BY <1>1, DefaultFields
<1>4. Become(p, n)
  BY DEF CountFails
<1> HIDE DEF n
<1>5. n.email \in Emails
  BY <1>1, <1>3 DEF Placed, Addressed, PC
<1>6. /\ Placed(n, tenants, users) /\ Admitted(n, sessions, clock)
      /\ Informed(n, roles, lost, muddled)
  BY <1>1, <1>3, <1>5, AccountsAssumption DEF Placed, Admitted, Informed
<1>7. QED
  BY <1>1, <1>2, <1>3, <1>4, <1>6, GoesOn

LEMMA LookupFailsKnowing == ASSUME Inv, NEW p \in Requests, LookupFails(p) PROVE Inv'
<1> DEFINE n == [req[p] EXCEPT !.pc = "user"]
<1>1. /\ req[p] \in Request /\ req[p].pc = "lookup"
      /\ Placed(req[p], tenants, users) /\ Admitted(req[p], sessions, clock)
  BY RequestKnows DEF LookupFails
<1>2. req[p].tenant \in Tenants /\ req[p].email \in Emails
  BY <1>1 DEF Placed, Addressed, PC
<1>3. "user" \in PC
  BY DEF PC
<1>4. /\ n \in Request /\ n.pc = "user" /\ n.tenant = req[p].tenant /\ n.email = req[p].email
      /\ n.first = req[p].first /\ n.now = req[p].now /\ n.role = req[p].role
  BY <1>1, <1>3, StepFields
<1>5. Become(p, n)
  BY DEF LookupFails, Step
<1> HIDE DEF n
<1>6. UserOf(n) = Target(p) /\ Target(p) \in User
  BY <1>2, <1>4 DEF UserOf, Target, User
<1>7. /\ UNCHANGED <<clock, accounts, sessions, tokens, lost, excused>>
      /\ arrived' \in Nat /\ faults' \in Nat /\ muddled' = muddled \cup {Target(p)}
      /\ muddled \subseteq User /\ excused \subseteq Tenants
  BY DEF LookupFails, Fault, Inv, TypeOK
<1>8. /\ Placed(n, tenants, users) /\ Admitted(n, sessions, clock)
      /\ Informed(n, roles, lost, muddled')
  BY <1>1, <1>2, <1>4, <1>6, <1>7 DEF Placed, Admitted, Informed
<1>9. QED
  BY <1>1, <1>4, <1>5, <1>6, <1>7, <1>8, GoesOn

LEMMA CrashKnowing == Inv /\ Crash => Inv'
<1> SUFFICES ASSUME Inv, Crash PROVE Inv'
  OBVIOUS
<1>1. /\ UNCHANGED <<clock, tenants, users, roles, sessions, tokens, lost, muddled, arrived>>
      /\ req' = [p \in Requests |-> Idle] /\ faults' \in Nat
      /\ excused' = excused \cup {req[p].tenant : p \in {q \in Requests : req[q].first}}
  BY DEF Crash, Fault, accounts, Inv, TypeOK
<1>2. excused' \subseteq Tenants
  BY <1>1, RequestKnows DEF Placed, Inv, TypeOK
<1>3. TypeOK'
  BY <1>1, <1>2, IdleKnows DEF Inv, TypeOK
<1>4. Knowing'
  BY <1>1, IdleKnows DEF Knowing, Inv, TypeOK
<1>5. SessionsOK' /\ TokensOK' /\ SingleRole'
  BY <1>1 DEF Inv, SessionsOK, TokensOK, SingleRole
<1>6. TenantAdministered'
  BY <1>1 DEF Inv, TenantAdministered
<1>7. QED
  BY <1>3, <1>4, <1>5, <1>6 DEF Inv

LEMMA TickKnowing == Inv /\ Tick => Inv'
<1> SUFFICES ASSUME Inv, Tick PROVE Inv'
  OBVIOUS
<1>1. /\ UNCHANGED <<tenants, users, roles, sessions, tokens, req, arrived, faults, lost, muddled,
                     excused>>
      /\ clock \in Nat /\ clock' = clock + 1
  BY DEF Tick, accounts, history, Inv, TypeOK
<1>2. TypeOK'
  BY <1>1 DEF Inv, TypeOK
<1>3. ASSUME NEW p \in Requests PROVE Admitted(req[p], sessions, clock')
  <2>1. req[p].now \in Nat
    BY RequestKnows DEF Request
  <2>2. QED
    BY <1>1, <2>1, RequestKnows DEF Admitted
<1>4. Knowing'
  BY <1>1, <1>3 DEF Inv, Knowing
<1>5. SessionsOK'
  <2> SUFFICES ASSUME NEW s \in Sessions, sessions[s] # NoSession
               PROVE  /\ sessions[s].expires = sessions[s].login + SessionTTL
                      /\ sessions[s].login <= clock'
                      /\ HasOrLost(roles, lost, sessions[s].user, sessions[s].role,
                                   sessions[s].login)
                      /\ sessions[s].ended => sessions[s].revoked \/ sessions[s].failed
    BY <1>1 DEF SessionsOK
  <2>1. sessions[s] \in SessionRow
    BY DEF Inv, TypeOK
  <2>2. sessions[s].login \in Nat
    BY <2>1 DEF SessionRow
  <2>3. QED
    BY <1>1, <2>2 DEF Inv, SessionsOK
<1>6. TokensOK' /\ SingleRole' /\ TenantAdministered'
  BY <1>1 DEF Inv, TokensOK, SingleRole, TenantAdministered
<1>7. QED
  BY <1>2, <1>4, <1>5, <1>6 DEF Inv

-----------------------------------------------------------------------------
(* Tenants and users.                                                      *)

LEMMA CreateTenantKnowing == ASSUME Inv, NEW p \in Requests, CreateTenant(p) PROVE Inv'
<1> DEFINE t == req[p].tenant
           n == [req[p] EXCEPT !.pc = "lookup", !.role = "admin", !.first = TRUE]
<1>1. /\ req[p] \in Request /\ req[p].pc = "tenant" /\ ~req[p].first
      /\ Placed(req[p], tenants, users) /\ Admitted(req[p], sessions, clock)
  BY RequestKnows DEF CreateTenant, Placed
<1>2. t \in Tenants /\ req[p].email \in Emails
  BY <1>1 DEF Placed, Addressed, PC
<1>3. CASE t \in tenants
  <2>1. tenants' = tenants /\ Finish(p)
    BY <1>3 DEF CreateTenant
  <2>2. UNCHANGED <<clock, accounts, sessions, tokens, arrived, faults, history>>
    BY <2>1 DEF CreateTenant, accounts
  <2>3. QED
    BY <1>1, <2>1, <2>2, Stops
<1>4. CASE t \notin tenants
  <2>1. /\ n \in Request /\ n.pc = "lookup" /\ n.role = "admin" /\ n.first /\ n.tenant = t
        /\ n.email = req[p].email /\ n.now = req[p].now
    BY <1>1, AccountsAssumption DEF Request, PC
  <2>2. /\ req' = [req EXCEPT ![p] = n] /\ tenants' = tenants \cup {t}
        /\ UNCHANGED <<clock, users, roles, sessions, tokens, arrived, faults, lost, muddled,
                       excused>>
    BY <1>4 DEF CreateTenant, Become, history
  <2> HIDE DEF n
  <2>3. /\ req' \in [Requests -> Request] /\ req'[p] = n
        /\ \A q \in Requests \ {p} : req'[q] = req[q]
    BY <2>1, <2>2 DEF Inv, TypeOK
  <2>4. TypeOK'
    BY <1>2, <2>2, <2>3 DEF Inv, TypeOK
  <2>5. ASSUME NEW q \in Requests
        PROVE  /\ Placed(req'[q], tenants', users) /\ Admitted(req'[q], sessions, clock)
               /\ Informed(req'[q], roles, lost, muddled)
    <3>1. CASE q = p
      BY <3>1, <1>1, <1>2, <2>1, <2>2, <2>3 DEF Placed, Admitted, Informed
    <3>2. CASE q # p
      <4>1. req'[q] = req[q]
        BY <3>2, <2>3
      <4>2. Placed(req[q], tenants', users)
        BY <2>2, RequestKnows DEF Placed
      <4>3. QED
        BY <4>1, <4>2, RequestKnows
    <3>3. QED
      BY <3>1, <3>2
  <2>6. Knowing'
    BY <2>2, <2>5 DEF Knowing
  <2>7. SessionsOK' /\ TokensOK' /\ SingleRole'
    BY <2>2 DEF Inv, SessionsOK, TokensOK, SingleRole
  <2>8. TenantAdministered'
    BY <1>1, <2>1, <2>2, <2>3 DEF Inv, TenantAdministered
  <2>9. QED
    BY <2>4, <2>6, <2>7, <2>8 DEF Inv
<1>5. QED
  BY <1>3, <1>4

LEMMA InsertUserKnowing == ASSUME Inv, NEW p \in Requests, InsertUser(p) PROVE Inv'
<1> DEFINE n == [req[p] EXCEPT !.pc = "grant"]
<1>1. /\ req[p] \in Request /\ req[p].pc = "user"
      /\ Placed(req[p], tenants, users) /\ Admitted(req[p], sessions, clock)
      /\ Informed(req[p], roles, lost, muddled)
  BY RequestKnows DEF InsertUser
<1>2. req[p].tenant \in Tenants /\ req[p].email \in Emails /\ Target(p) \in User
  BY <1>1 DEF Placed, Addressed, PC, Target, User
<1>3. CASE req[p].tenant \notin tenants
  <2>1. ~req[p].first
    BY <1>1, <1>3 DEF Placed
  <2>2. Finish(p) /\ UNCHANGED <<clock, accounts, sessions, tokens, arrived, faults, history>>
    BY <1>3 DEF InsertUser, accounts
  <2>3. QED
    BY <2>1, <2>2, Stops
<1>4. CASE req[p].tenant \in tenants
  <2>1. "grant" \in PC
    BY DEF PC
  <2>2. /\ n \in Request /\ n.pc = "grant" /\ n.role = req[p].role /\ n.first = req[p].first
        /\ n.tenant = req[p].tenant /\ n.email = req[p].email /\ n.now = req[p].now
    BY <1>1, <2>1, StepFields
  <2>3. /\ req' = [req EXCEPT ![p] = n] /\ users' = users \cup {Target(p)}
        /\ UNCHANGED <<clock, tenants, roles, sessions, tokens, arrived, faults, lost, muddled,
                       excused>>
    BY <1>4 DEF InsertUser, Step, Become, history
  <2> HIDE DEF n
  <2>4. /\ req' \in [Requests -> Request] /\ req'[p] = n
        /\ \A q \in Requests \ {p} : req'[q] = req[q]
    BY <2>2, <2>3 DEF Inv, TypeOK
  <2>5. TypeOK'
    BY <1>2, <2>3, <2>4 DEF Inv, TypeOK
  <2>6. UserOf(n) = Target(p) /\ UserOf(req[p]) = Target(p)
    BY <2>2 DEF UserOf, Target
  <2>7. ASSUME NEW q \in Requests
        PROVE  /\ Placed(req'[q], tenants, users') /\ Admitted(req'[q], sessions, clock)
               /\ Informed(req'[q], roles, lost, muddled)
    <3>1. CASE q = p
      BY <3>1, <1>1, <1>2, <2>2, <2>3, <2>4, <2>6 DEF Placed, Admitted, Informed
    <3>2. CASE q # p
      <4>1. req'[q] = req[q]
        BY <3>2, <2>4
      <4>2. Placed(req[q], tenants, users')
        BY <2>3, RequestKnows DEF Placed
      <4>3. QED
        BY <4>1, <4>2, RequestKnows
    <3>3. QED
      BY <3>1, <3>2
  <2>8. Knowing'
    BY <2>3, <2>7 DEF Knowing
  <2>9. SessionsOK' /\ TokensOK' /\ SingleRole'
    BY <2>3 DEF Inv, SessionsOK, TokensOK, SingleRole
  <2>10. TenantAdministered'
    BY <2>2, <2>3, <2>4 DEF Inv, TenantAdministered
  <2>11. QED
    BY <2>5, <2>8, <2>9, <2>10 DEF Inv
<1>5. QED
  BY <1>3, <1>4

-----------------------------------------------------------------------------
(* Roles.                                                                  *)

\* What a new set of roles for p's user does to the tables.
LEMMA RolesSet ==
    ASSUME Inv, NEW p \in Requests, Target(p) \in users, NEW R \in SUBSET Roles, SetRoles(p, R)
    PROVE  LET u == Target(p) IN
           /\ roles' \in [User -> SUBSET Roles] /\ lost' \in [User -> [Roles -> Nat]]
           /\ muddled \subseteq muddled' /\ muddled' \subseteq User
           /\ Contended(p) => u \in muddled'
           /\ roles'[u] = R
           /\ \A v \in User \ {u} : roles'[v] = roles[v] /\ lost'[v] = lost[v]
           /\ \A r \in Roles : lost'[u][r] = IF r \in Held(roles[u]) \ Held(R) THEN clock
                                             ELSE lost[u][r]
           /\ \A v \in User \ users : roles'[v] = {}
<1> DEFINE u == Target(p)
           L == [r \in Roles |-> IF r \in Held(roles[u]) \ Held(R) THEN clock ELSE lost[u][r]]
<1>1. /\ u \in User /\ lost[u] \in [Roles -> Nat] /\ clock \in Nat /\ users \subseteq User
      /\ roles \in [User -> SUBSET Roles] /\ lost \in [User -> [Roles -> Nat]]
      /\ muddled \subseteq User
  BY DEF Inv, TypeOK
<1>2. L \in [Roles -> Nat]
  BY <1>1
<1>3. lost' = [lost EXCEPT ![u] = L]
  BY <1>1 DEF SetRoles
<1>4. \A r \in Roles : L[r] = IF r \in Held(roles[u]) \ Held(R) THEN clock ELSE lost[u][r]
  OBVIOUS
<1> HIDE DEF L
<1>5. /\ lost' \in [User -> [Roles -> Nat]] /\ lost'[u] = L
      /\ \A v \in User \ {u} : lost'[v] = lost[v]
  BY <1>1, <1>2, <1>3
<1>6. /\ roles' \in [User -> SUBSET Roles] /\ roles'[u] = R
      /\ \A v \in User \ {u} : roles'[v] = roles[v]
  BY <1>1 DEF SetRoles
<1>7. \A v \in User \ users : roles'[v] = {}
  BY <1>1, <1>6 DEF Inv, TypeOK
<1>8. /\ muddled \subseteq muddled' /\ muddled' \subseteq User
      /\ Contended(p) => u \in muddled'
  BY <1>1 DEF SetRoles
<1>9. QED
  BY <1>4, <1>5, <1>6, <1>7, <1>8

\* Whoever had a role at some time still has it or lost it since.
LEMMA StillHasOrLost ==
    ASSUME Inv, NEW p \in Requests, Target(p) \in users, NEW R \in SUBSET Roles, SetRoles(p, R),
           NEW u \in User, NEW r \in Roles, NEW c \in Nat, c <= clock,
           HasOrLost(roles, lost, u, r, c)
    PROVE  HasOrLost(roles', lost', u, r, c)
<1>1. CASE u # Target(p)
  BY <1>1, RolesSet DEF HasOrLost
<1>2. CASE u = Target(p)
  <2>1. roles'[u] = R
    BY <1>2, RolesSet
  <2>2. lost'[u][r] = IF r \in Held(roles[u]) \ Held(R) THEN clock ELSE lost[u][r]
    BY <1>2, RolesSet
  <2>3. QED
    BY <2>1, <2>2 DEF HasOrLost
<1>3. QED
  BY <1>1, <1>2

\* Of requests that write the roles of one user, those that did not take the
\* step find the user muddled.
LEMMA OthersInformed ==
    ASSUME Inv, NEW p \in Requests, Target(p) \in users, NEW R \in SUBSET Roles, SetRoles(p, R),
           NEW q \in Requests \ {p}
    PROVE  /\ Informed(req[q], roles', lost', muddled')
           /\ req[q].pc \in {"wait", "commit"} /\ Target(q) = Target(p) => Target(q) \in muddled'
<1>1. /\ req[q] \in Request /\ Placed(req[q], tenants, users)
      /\ Informed(req[q], roles, lost, muddled) /\ Admitted(req[q], sessions, clock)
  BY RequestKnows
<1>2. UserOf(req[q]) = Target(q)
  BY DEF UserOf, Target
<1>3. req[q].pc \in {"user", "grant", "wait", "commit"} /\ Target(q) = Target(p) =>
        Target(q) \in muddled'
  <2>1. req[q].pc \in {"user", "grant", "wait", "commit"} /\ Target(q) = Target(p) => Contended(p)
    BY DEF Contended, WritesRoles
  <2>2. QED
    BY <2>1, RolesSet
<1>4. req[q].pc \in Addressed => Target(q) \in User
  BY <1>1 DEF Placed, Target, User
<1>5. {"user", "grant", "wait", "commit", "session"} \subseteq Addressed
  BY DEF Addressed, PC
<1>6. req[q].pc \in Addressed /\ Target(q) # Target(p) => roles'[Target(q)] = roles[Target(q)]
  BY <1>4, RolesSet
<1>7. muddled \subseteq muddled'
  BY RolesSet
<1>8. req[q].pc = "session" => HasOrLost(roles', lost', UserOf(req[q]), req[q].role, req[q].now)
  <2> SUFFICES ASSUME req[q].pc = "session"
               PROVE  HasOrLost(roles', lost', UserOf(req[q]), req[q].role, req[q].now)
    OBVIOUS
  <2>1. UserOf(req[q]) \in User
    BY <1>2, <1>4, <1>5
  <2>2. req[q].role \in Roles /\ req[q].now \in Nat /\ req[q].now <= clock
    BY <1>1 DEF Request, Admitted
  <2>3. HasOrLost(roles, lost, UserOf(req[q]), req[q].role, req[q].now)
    BY <1>1 DEF Informed
  <2>4. QED
    BY <2>1, <2>2, <2>3, StillHasOrLost
<1>9. QED
  BY <1>1, <1>2, <1>3, <1>5, <1>6, <1>7, <1>8 DEF Informed

LEMMA RolesSessionsOK ==
    ASSUME Inv, NEW p \in Requests, Target(p) \in users, NEW R \in SUBSET Roles, SetRoles(p, R),
           UNCHANGED <<sessions, clock>>
    PROVE  SessionsOK'
<1> SUFFICES ASSUME NEW s \in Sessions, sessions[s] # NoSession
             PROVE  /\ sessions[s].expires = sessions[s].login + SessionTTL
                    /\ sessions[s].login <= clock
                    /\ HasOrLost(roles', lost', sessions[s].user, sessions[s].role,
                                 sessions[s].login)
                    /\ sessions[s].ended => sessions[s].revoked \/ sessions[s].failed
  BY DEF SessionsOK
<1>1. sessions[s] \in SessionRow
  BY DEF Inv, TypeOK
<1>2. sessions[s].login \in Nat /\ sessions[s].user \in User /\ sessions[s].role \in Roles
  BY <1>1 DEF SessionRow
<1>3. /\ sessions[s].expires = sessions[s].login + SessionTTL /\ sessions[s].login <= clock
      /\ HasOrLost(roles, lost, sessions[s].user, sessions[s].role, sessions[s].login)
      /\ sessions[s].ended => sessions[s].revoked \/ sessions[s].failed
  BY DEF Inv, SessionsOK
<1>4. QED
  BY <1>2, <1>3, StillHasOrLost

LEMMA RolesSingle ==
    ASSUME Inv, NEW p \in Requests, Target(p) \in users, NEW R \in SUBSET Roles, SetRoles(p, R),
           Target(p) \notin muddled => \E r \in Roles : R = {r}
    PROVE  SingleRole'
<1> SUFFICES ASSUME NEW u \in User, u \notin muddled'
             PROVE  roles'[u] = {} \/ \E r \in Roles : roles'[u] = {r}
  BY DEF SingleRole
<1>1. u \notin muddled
  BY RolesSet
<1>2. CASE u = Target(p)
  BY <1>1, <1>2, RolesSet
<1>3. CASE u # Target(p)
  BY <1>1, <1>3, RolesSet DEF Inv, SingleRole
<1>4. QED
  BY <1>2, <1>3

LEMMA GrantRoleKnowing == ASSUME Inv, NEW p \in Requests, GrantRole(p) PROVE Inv'
<1> DEFINE u == Target(p)
           R == roles[u] \cup {req[p].role}
<1>1. /\ req[p] \in Request /\ req[p].pc = "grant" /\ Placed(req[p], tenants, users)
      /\ Informed(req[p], roles, lost, muddled)
  BY RequestKnows DEF GrantRole
<1>2. UserOf(req[p]) = u /\ u \in users /\ u \in User
  BY <1>1 DEF UserOf, Target, Placed, Inv, TypeOK
<1>3. req[p].role \in Roles /\ R \in SUBSET Roles
  BY <1>1, <1>2 DEF Request, Inv, TypeOK
<1>4. /\ SetRoles(p, R) /\ req' = [req EXCEPT ![p] = Idle]
      /\ UNCHANGED <<clock, tenants, users, sessions, tokens, arrived, faults, excused>>
  BY DEF GrantRole, Finish, Become
<1>5. R = roles[u] \cup {req[p].role}
  OBVIOUS
<1> HIDE DEF R
<1>6. /\ req' \in [Requests -> Request] /\ req'[p] = Idle
      /\ \A q \in Requests \ {p} : req'[q] = req[q]
  BY <1>4, IdleKnows DEF Inv, TypeOK
<1>7. /\ roles' \in [User -> SUBSET Roles] /\ lost' \in [User -> [Roles -> Nat]]
      /\ muddled' \subseteq User /\ (\A v \in User \ users : roles'[v] = {})
      /\ roles'[u] = R /\ \A v \in User \ {u} : roles'[v] = roles[v]
  BY <1>2, <1>3, <1>4, RolesSet
<1>8. TypeOK'
  BY <1>4, <1>6, <1>7 DEF Inv, TypeOK
<1>9. ASSUME NEW q \in Requests
      PROVE  /\ Placed(req'[q], tenants, users) /\ Admitted(req'[q], sessions, clock)
             /\ Informed(req'[q], roles', lost', muddled')
  <2>1. CASE q = p
    BY <2>1, <1>6, IdleKnows DEF Inv, TypeOK
  <2>2. CASE q # p
    BY <2>2, <1>2, <1>3, <1>4, <1>6, RequestKnows, OthersInformed
  <2>3. QED
    BY <2>1, <2>2
<1>10. Knowing'
  BY <1>4, <1>9 DEF Knowing
<1>11. SessionsOK' /\ TokensOK'
  BY <1>2, <1>3, <1>4, RolesSessionsOK DEF Inv, TokensOK
<1>12. u \notin muddled => R = {req[p].role}
  BY <1>1, <1>2, <1>5 DEF Informed
<1>13. SingleRole'
  BY <1>2, <1>3, <1>4, <1>12, RolesSingle
<1>14. TenantAdministered'
  <2> SUFFICES ASSUME NEW t \in tenants, t \notin excused
               PROVE  \/ \E e \in Emails : "admin" \in roles'[<<t, e>>]
                      \/ \E q \in Requests : req'[q].first /\ req'[q].tenant = t
    BY <1>4 DEF TenantAdministered
  <2>1. \A v \in User : roles[v] \subseteq roles'[v]
    BY <1>5, <1>7
  <2>2. t \in Tenants
    BY DEF Inv, TypeOK
  <2>3. CASE \E e \in Emails : "admin" \in roles[<<t, e>>]
    BY <2>1, <2>2, <2>3 DEF User
  <2>4. CASE \E q \in Requests : req[q].first /\ req[q].tenant = t
    <3>1. PICK q \in Requests : req[q].first /\ req[q].tenant = t
      BY <2>4
    <3>2. CASE q = p
      <4>1. "admin" \in R /\ u = <<t, req[p].email>> /\ req[p].email \in Emails
        BY <3>1, <3>2, <1>1, <1>5 DEF Placed, Target, Addressed, PC
      <4>2. QED
        BY <4>1, <1>7
    <3>3. CASE q # p
      BY <3>1, <3>3, <1>6
    <3>4. QED
      BY <3>2, <3>3
  <2>5. QED
    BY <2>3, <2>4 DEF Inv, TenantAdministered
<1>15. QED
  BY <1>8, <1>10, <1>11, <1>13, <1>14 DEF Inv

\* A DELETE that waited for the commit has fewer rows to delete; its user is
\* muddled.
LEMMA AfterCommit ==
    ASSUME Inv, NEW p \in Requests, Target(p) \in users, NEW R \in SUBSET Roles, SetRoles(p, R),
           NEW q \in Requests \ {p},
           req'[q] = IF req[q].pc = "wait" /\ Target(q) = Target(p)
                     THEN [req[q] EXCEPT !.doomed = @ \ req[p].doomed] ELSE req[q]
    PROVE  /\ req'[q] \in Request
           /\ req'[q].first = req[q].first /\ req'[q].tenant = req[q].tenant
           /\ Placed(req'[q], tenants, users) /\ Admitted(req'[q], sessions, clock)
           /\ Informed(req'[q], roles', lost', muddled')
<1> DEFINE r == req'[q]
           D == req[p].doomed
<1>1. /\ req[q] \in Request /\ Placed(req[q], tenants, users)
      /\ Admitted(req[q], sessions, clock) /\ Informed(req[q], roles', lost', muddled')
      /\ req[q].pc \in {"wait", "commit"} /\ Target(q) = Target(p) => Target(q) \in muddled'
  BY RequestKnows, OthersInformed
<1>2. CASE req[q].pc = "wait" /\ Target(q) = Target(p)
  <2>1. req[q].doomed \ D \in SUBSET Roles
    BY <1>1 DEF Request
  <2>2. r = [req[q] EXCEPT !.doomed = req[q].doomed \ D]
    BY <1>2
  <2>3. /\ r \in Request /\ r.pc = "wait" /\ r.tenant = req[q].tenant /\ r.email = req[q].email
        /\ r.first = req[q].first /\ r.now = req[q].now /\ r.early = req[q].early
        /\ r.role = req[q].role
    BY <1>1, <1>2, <2>1, <2>2 DEF Request
  <2>4. UserOf(r) = Target(q) /\ UserOf(req[q]) = Target(q)
    BY <2>3 DEF UserOf, Target
  <2>5. Placed(r, tenants, users) /\ Admitted(r, sessions, clock)
    BY <1>1, <1>2, <2>3, <2>4 DEF Placed, Admitted
  <2>6. Informed(r, roles', lost', muddled')
    BY <1>1, <1>2, <2>3, <2>4 DEF Informed
  <2>7. QED
    BY <2>3, <2>5, <2>6
<1>3. CASE ~(req[q].pc = "wait" /\ Target(q) = Target(p))
  BY <1>1, <1>3
<1>4. QED
  BY <1>2, <1>3

LEMMA CommitRoleKnowing == ASSUME Inv, NEW p \in Requests, CommitRole(p) PROVE Inv'
<1> DEFINE u == Target(p)
           rest == roles[u] \ req[p].doomed
           R == rest \cup {req[p].role}
           after(q) == IF q = p THEN Idle
                       ELSE IF req[q].pc = "wait" /\ Target(q) = u
                       THEN [req[q] EXCEPT !.doomed = @ \ req[p].doomed]
                       ELSE req[q]
<1>1. /\ req[p] \in Request /\ req[p].pc = "commit" /\ Placed(req[p], tenants, users)
      /\ Informed(req[p], roles, lost, muddled)
  BY RequestKnows DEF CommitRole
<1>2. UserOf(req[p]) = u /\ u \in users /\ u \in User /\ ~req[p].first
  BY <1>1 DEF UserOf, Target, Placed, Inv, TypeOK
<1>3. /\ req[p].role \in Roles /\ R \in SUBSET Roles
      /\ req[p].tenant \in Tenants /\ req[p].email \in Emails
  BY <1>1, <1>2 DEF Request, Inv, TypeOK, Placed, Addressed, PC
<1>4. CASE req[p].role \in rest
  BY <1>2, <1>4, Stops DEF CommitRole, accounts
<1>5. CASE req[p].role \notin rest
  <2>1. /\ SetRoles(p, R) /\ req' = [q \in Requests |-> after(q)]
        /\ excused' = excused \cup {req[p].tenant}
        /\ UNCHANGED <<clock, tenants, users, sessions, tokens, arrived, faults>>
    BY <1>5 DEF CommitRole
  <2>2. R = (roles[u] \ req[p].doomed) \cup {req[p].role}
    OBVIOUS
  <2>3. \A q \in Requests \ {p} : req'[q] = IF req[q].pc = "wait" /\ Target(q) = Target(p)
                                            THEN [req[q] EXCEPT !.doomed = @ \ req[p].doomed]
                                            ELSE req[q]
    BY <2>1
  <2>4. req'[p] = Idle /\ req' = [q \in Requests |-> req'[q]]
    BY <2>1
  <2> HIDE DEF R, after
  <2>5. ASSUME NEW q \in Requests
        PROVE  /\ req'[q] \in Request
               /\ q # p => req'[q].first = req[q].first /\ req'[q].tenant = req[q].tenant
               /\ Placed(req'[q], tenants, users) /\ Admitted(req'[q], sessions, clock)
               /\ Informed(req'[q], roles', lost', muddled')
    <3>1. CASE q = p
      BY <3>1, <2>4, IdleKnows DEF Inv, TypeOK
    <3>2. CASE q # p
      BY <3>2, <1>2, <1>3, <2>1, <2>3, AfterCommit
    <3>3. QED
      BY <3>1, <3>2
  <2>6. req' \in [Requests -> Request]
    BY <2>4, <2>5
  <2>7. /\ roles' \in [User -> SUBSET Roles] /\ lost' \in [User -> [Roles -> Nat]]
        /\ muddled' \subseteq User /\ (\A v \in User \ users : roles'[v] = {})
        /\ \A v \in User \ {u} : roles'[v] = roles[v]
    BY <1>2, <1>3, <2>1, RolesSet
  <2>8. TypeOK'
    BY <1>3, <2>1, <2>6, <2>7 DEF Inv, TypeOK
  <2>9. Knowing'
    BY <2>1, <2>5 DEF Knowing
  <2>10. SessionsOK' /\ TokensOK'
    BY <1>2, <1>3, <2>1, RolesSessionsOK DEF Inv, TokensOK
  <2>11. u \notin muddled => R = {req[p].role}
    BY <1>1, <1>2, <2>2 DEF Informed
  <2>12. SingleRole'
    BY <1>2, <1>3, <2>1, <2>11, RolesSingle
  <2>13. TenantAdministered'
    <3> SUFFICES ASSUME NEW t \in tenants, t \notin excused'
                 PROVE  \/ \E e \in Emails : "admin" \in roles'[<<t, e>>]
                        \/ \E q \in Requests : req'[q].first /\ req'[q].tenant = t
      BY <2>1 DEF TenantAdministered
    <3>1. t \in Tenants /\ t # req[p].tenant /\ t \notin excused
      BY <2>1 DEF Inv, TypeOK
    <3>2. CASE \E e \in Emails : "admin" \in roles[<<t, e>>]
      <4>1. PICK e \in Emails : "admin" \in roles[<<t, e>>]
        BY <3>2
      <4>2. <<t, e>> \in User \ {u}
        BY <3>1 DEF User, Target
      <4>3. QED
        BY <2>7, <4>1, <4>2
    <3>3. CASE \E q \in Requests : req[q].first /\ req[q].tenant = t
      BY <3>3, <1>2, <2>5
    <3>4. QED
      BY <3>1, <3>2, <3>3 DEF Inv, TenantAdministered
  <2>14. QED
    BY <2>8, <2>9, <2>10, <2>12, <2>13 DEF Inv
<1>6. QED
  BY <1>4, <1>5

-----------------------------------------------------------------------------
(* Sessions.                                                               *)

\* What a request knows of its session survives new sessions and logouts.
LEMMA SessionsKnowing ==
    ASSUME Inv, NEW p \in Requests, NEW r \in Request, Become(p, r),
           Placed(r, tenants, users), Admitted(r, sessions', clock),
           Informed(r, roles, lost, muddled), ~req[p].first,
           UNCHANGED <<clock, tenants, users, roles, arrived, lost, muddled, excused>>,
           faults' \in Nat, sessions' \in [Sessions -> SessionRow \cup {NoSession}],
           \A s \in Sessions : sessions[s] # NoSession =>
               /\ sessions'[s] # NoSession /\ sessions'[s].expires = sessions[s].expires
               /\ sessions[s].ended => sessions'[s].ended
               /\ sessions[s].failed => sessions'[s].failed,
           SessionsOK', tokens' \subseteq [session : Sessions, exp : Nat], TokensOK'
    PROVE  Inv'
<1>1. /\ req' \in [Requests -> Request] /\ req'[p] = r
      /\ \A q \in Requests \ {p} : req'[q] = req[q]
  BY DEF Become, Inv, TypeOK
<1>2. TypeOK'
  BY <1>1 DEF Inv, TypeOK
<1>3. ASSUME NEW q \in Requests
      PROVE  /\ Placed(req'[q], tenants, users) /\ Admitted(req'[q], sessions', clock)
             /\ Informed(req'[q], roles, lost, muddled)
  <2>1. CASE q = p
    BY <2>1, <1>1
  <2>2. CASE q # p
    <3>1. req'[q] = req[q]
      BY <2>2, <1>1
    <3>2. Admitted(req[q], sessions', clock)
      BY RequestKnows DEF Admitted
    <3>3. QED
      BY <3>1, <3>2, RequestKnows
  <2>3. QED
    BY <2>1, <2>2
<1>4. Knowing'
  BY <1>3 DEF Knowing
<1>5. SingleRole' /\ TenantAdministered'
  BY <1>1 DEF Inv, SingleRole, TenantAdministered
<1>6. QED
  BY <1>2, <1>4, <1>5 DEF Inv

LEMMA CreateSessionKnowing == ASSUME Inv, NEW p \in Requests, CreateSession(p) PROVE Inv'
<1>1. PICK s \in Sessions : OpenSession(p, s, req[p].now + SessionTTL)
  BY DEF CreateSession
<1> DEFINE exp == req[p].now + SessionTTL
           row == [user |-> Target(p), role |-> req[p].role, expires |-> exp,
                   revoked |-> FALSE, login |-> req[p].now, ended |-> FALSE, failed |-> FALSE]
<1>2. /\ req[p] \in Request /\ req[p].pc = "session" /\ Placed(req[p], tenants, users)
      /\ Admitted(req[p], sessions, clock) /\ Informed(req[p], roles, lost, muddled)
  BY <1>1, RequestKnows DEF OpenSession
<1>3. /\ Target(p) \in User /\ UserOf(req[p]) = Target(p) /\ req[p].role \in Roles
      /\ req[p].now \in Nat /\ exp \in Nat /\ ~req[p].first
  BY <1>2, AccountsAssumption DEF Placed, Addressed, PC, Target, UserOf, User, Request
<1>4. /\ row \in SessionRow /\ row.expires = row.login + SessionTTL
      /\ row.login <= clock /\ HasOrLost(roles, lost, row.user, row.role, row.login)
      /\ ~row.ended
  BY <1>2, <1>3 DEF SessionRow, Admitted, Informed
<1>5. /\ sessions[s] = NoSession /\ sessions' = [sessions EXCEPT ![s] = row]
      /\ tokens' = tokens \cup {[session |-> s, exp |-> exp]} /\ Become(p, Idle)
      /\ UNCHANGED <<clock, tenants, users, roles, arrived, faults, lost, muddled, excused>>
  BY <1>1 DEF OpenSession, Signed, Finish, accounts, history
<1> HIDE DEF row
<1>6. /\ sessions' \in [Sessions -> SessionRow \cup {NoSession}] /\ sessions'[s] = row
      /\ row # NoSession /\ \A z \in Sessions \ {s} : sessions'[z] = sessions[z]
  BY <1>4, <1>5, NullAssumption DEF Inv, TypeOK, NoSession
<1>7. SessionsOK'
  BY <1>4, <1>5, <1>6 DEF Inv, SessionsOK
<1>8. tokens' \subseteq [session : Sessions, exp : Nat] /\ TokensOK'
  <2>1. tokens' \subseteq [session : Sessions, exp : Nat]
    BY <1>3, <1>5 DEF Inv, TypeOK
  <2>2. ASSUME NEW tok \in tokens' PROVE sessions'[tok.session] # NoSession
    <3>1. CASE tok \in tokens
      <4>1. tok.session \in Sessions /\ sessions[tok.session] # NoSession
        BY <3>1 DEF Inv, TypeOK, TokensOK
      <4>2. QED
        BY <4>1, <1>5, <1>6
    <3>2. CASE tok \notin tokens
      <4>1. tok.session = s
        BY <3>2, <1>5
      <4>2. QED
        BY <4>1, <1>6
    <3>3. QED
      BY <3>1, <3>2
  <2>3. QED
    BY <2>1, <2>2 DEF TokensOK
<1>9. /\ Idle \in Request /\ Placed(Idle, tenants, users) /\ Admitted(Idle, sessions', clock)
      /\ Informed(Idle, roles, lost, muddled)
  BY IdleKnows DEF Inv, TypeOK
<1>10. \A z \in Sessions : sessions[z] # NoSession =>
               /\ sessions'[z] # NoSession /\ sessions'[z].expires = sessions[z].expires
               /\ sessions[z].ended => sessions'[z].ended
               /\ sessions[z].failed => sessions'[z].failed
  BY <1>5, <1>6
<1>11. faults' \in Nat
  BY <1>5 DEF Inv, TypeOK
<1>12. QED
  BY <1>3, <1>5, <1>6, <1>7, <1>8, <1>9, <1>10, <1>11, SessionsKnowing

\* The guard lets in an active session that the request did not come too late
\* for, or whose logout failed, and gives out a token of the same session.
LEMMA AuthGuardKnowing == ASSUME Inv, NEW p \in Requests, AuthGuard(p) PROVE Inv'
<1> DEFINE s == req[p].session
           n == [req[p] EXCEPT !.pc = "admitted"]
<1>1. /\ req[p] \in Request /\ req[p].pc = "active" /\ Placed(req[p], tenants, users)
      /\ Admitted(req[p], sessions, clock) /\ ~req[p].first
  BY RequestKnows DEF AuthGuard, Placed
<1>2. s \in Sessions /\ sessions[s] # NoSession /\ req[p].now \in Nat
  BY <1>1 DEF Admitted, Request
<1>3. sessions[s] \in SessionRow
  BY <1>2 DEF Inv, TypeOK
<1>4. CASE ~IsActive(sessions[s], req[p].now)
  BY <1>1, <1>4, Stops DEF AuthGuard
<1>5. CASE IsActive(sessions[s], req[p].now)
  <2>1. "admitted" \in PC
    BY DEF PC
  <2>2. /\ n \in Request /\ n.pc = "admitted" /\ n.session = s /\ n.late = req[p].late
        /\ n.now = req[p].now /\ n.first = req[p].first
    BY <1>1, <2>1, StepFields
  <2>3. /\ Become(p, n)
        /\ tokens' = tokens \cup {[session |-> s, exp |-> req[p].now + SessionTTL]}
        /\ UNCHANGED <<clock, tenants, users, roles, sessions, arrived, faults, lost, muddled,
                       excused>>
    BY <1>5 DEF AuthGuard, Step, Signed, accounts, history
  <2> HIDE DEF n
  <2>4. sessions[s].expires \in Nat /\ sessions[s].expires > req[p].now /\ ~sessions[s].revoked
    BY <1>3, <1>5 DEF IsActive, SessionRow
  <2>5. n.late => sessions[s].failed
    BY <1>1, <1>2, <2>2, <2>4 DEF Admitted, Inv, SessionsOK
  <2>6. /\ Placed(n, tenants, users) /\ Admitted(n, sessions, clock)
        /\ Informed(n, roles, lost, muddled)
    BY <1>1, <1>2, <2>2, <2>4, <2>5 DEF Placed, Admitted, Informed, Addressed
  <2>7. SessionsOK' /\ sessions' \in [Sessions -> SessionRow \cup {NoSession}]
    BY <2>3 DEF Inv, SessionsOK, TypeOK
  <2>8. tokens' \subseteq [session : Sessions, exp : Nat] /\ TokensOK' /\ faults' \in Nat
    BY <1>2, <2>3, AccountsAssumption DEF Inv, TypeOK, TokensOK
  <2>9. QED
    BY <1>1, <2>2, <2>3, <2>6, <2>7, <2>8, SessionsKnowing
<1>6. QED
  BY <1>4, <1>5

\* A logout, whether or not its UPDATE succeeds.
LEMMA LogoutKnowing ==
    ASSUME Inv, NEW p \in Requests, NEW v \in BOOLEAN, Logout(p, v), faults' \in Nat
    PROVE  Inv'
<1> DEFINE s == req[p].session
           old == sessions[s]
           row == [old EXCEPT !.revoked = @ \/ v, !.ended = TRUE, !.failed = @ \/ ~v]
<1>1. /\ req[p].pc = "admitted" /\ Admitted(req[p], sessions, clock) /\ ~req[p].first
  BY RequestKnows DEF Logout, Placed
<1>2. s \in Sessions /\ sessions[s] # NoSession
  BY <1>1 DEF Admitted
<1>3. sessions[s] \in SessionRow
  BY <1>2 DEF Inv, TypeOK
<1>4. /\ row \in SessionRow /\ row.expires = old.expires
      /\ row.login = old.login /\ row.user = old.user /\ row.role = old.role
      /\ row.ended /\ (row.revoked \/ row.failed) /\ (old.failed => row.failed)
  <2>1. old.revoked \in BOOLEAN /\ old.failed \in BOOLEAN
    BY <1>3 DEF SessionRow
  <2> DEFINE x == old.revoked \/ v
             y == old.failed \/ ~v
  <2>2. x \in BOOLEAN /\ y \in BOOLEAN /\ (x \/ y) /\ (old.failed => y)
    BY <2>1
  <2>3. row = [old EXCEPT !.revoked = x, !.ended = TRUE, !.failed = y]
    OBVIOUS
  <2> HIDE DEF x, y
  <2>4. QED
    BY <1>3, <2>2, <2>3 DEF SessionRow
<1>5. /\ sessions' = [sessions EXCEPT ![s] = row] /\ Become(p, Idle)
      /\ UNCHANGED <<clock, tenants, users, roles, tokens, arrived, lost, muddled, excused>>
  BY DEF Logout, Finish, accounts, history
<1> HIDE DEF row
<1>6. /\ sessions' \in [Sessions -> SessionRow \cup {NoSession}] /\ sessions'[s] = row
      /\ row # NoSession /\ \A z \in Sessions \ {s} : sessions'[z] = sessions[z]
  BY <1>2, <1>4, <1>5, NullAssumption DEF Inv, TypeOK, NoSession
<1>7. SessionsOK'
  BY <1>2, <1>4, <1>5, <1>6 DEF Inv, SessionsOK
<1>8. tokens' \subseteq [session : Sessions, exp : Nat] /\ TokensOK'
  BY <1>5, <1>6 DEF Inv, TypeOK, TokensOK
<1>9. /\ Idle \in Request /\ Placed(Idle, tenants, users) /\ Admitted(Idle, sessions', clock)
      /\ Informed(Idle, roles, lost, muddled)
  BY IdleKnows DEF Inv, TypeOK
<1>10. \A z \in Sessions : sessions[z] # NoSession =>
               /\ sessions'[z] # NoSession /\ sessions'[z].expires = sessions[z].expires
               /\ sessions[z].ended => sessions'[z].ended
               /\ sessions[z].failed => sessions'[z].failed
  BY <1>4, <1>6
<1>11. QED
  BY <1>1, <1>5, <1>6, <1>7, <1>8, <1>9, <1>10, SessionsKnowing

LEMMA RevokeKnowing ==
    ASSUME Inv, NEW p \in Requests, Revoke(p) \/ RevokeFails(p)
    PROVE  Inv'
<1>1. faults' \in Nat
  <2>1. faults \in Nat
    BY DEF Inv, TypeOK
  <2>2. faults' = faults \/ faults' = faults + 1
    BY Zenon DEF Revoke, RevokeFails
  <2>3. QED
    BY <2>1, <2>2
<1>2. Logout(p, TRUE) \/ Logout(p, FALSE)
  BY DEF Revoke, RevokeFails
<1>3. QED
  BY <1>1, <1>2, LogoutKnowing

-----------------------------------------------------------------------------
(* The theorems.                                                           *)

LEMMA InitKnowing == Init => Inv
<1> SUFFICES ASSUME Init PROVE Inv
  OBVIOUS
<1>1. TypeOK
  BY IdleKnows, AccountsAssumption DEF Init, TypeOK
<1>2. Knowing
  BY IdleKnows DEF Init, Knowing
<1>3. SessionsOK /\ TokensOK /\ SingleRole /\ TenantAdministered
  BY DEF Init, SessionsOK, TokensOK, SingleRole, TenantAdministered
<1>4. QED
  BY <1>1, <1>2, <1>3 DEF Inv

LEMMA NextKnowing == Inv /\ [Next]_vars => Inv'
<1> SUFFICES ASSUME Inv, [Next]_vars PROVE Inv'
  OBVIOUS
<1>1. ASSUME NEW p \in Requests, Begin(p) PROVE Inv'
  BY <1>1, BeginKnowing
<1>2. ASSUME NEW p \in Requests, Registration(p) PROVE Inv'
  BY <1>2, CountTenantsKnowing, CreateTenantKnowing, LookupKnowing, InsertUserKnowing,
     GrantRoleKnowing DEF Registration
<1>3. ASSUME NEW p \in Requests, Authenticate(p) \/ CreateSession(p) PROVE Inv'
  BY <1>3, AuthenticateKnowing, CreateSessionKnowing
<1>4. ASSUME NEW p \in Requests, Guarded(p) PROVE Inv'
  BY <1>4, AuthGuardKnowing, RevokeKnowing, HandleKnowing, UpdateUserRoleKnowing,
     DeleteRolesKnowing, CommitRoleKnowing DEF Guarded
<1>5. ASSUME NEW p \in Requests,
             Abort(p) \/ RevokeFails(p) \/ CountFails(p) \/ LookupFails(p)
      PROVE  Inv'
  BY <1>5, AbortKnowing, RevokeKnowing, CountFailsKnowing, LookupFailsKnowing
<1>6. CASE Crash \/ Tick
  BY <1>6, CrashKnowing, TickKnowing
<1>7. CASE UNCHANGED vars
  <2>1. TypeOK' /\ SessionsOK' /\ TokensOK' /\ SingleRole' /\ TenantAdministered'
    BY <1>7 DEF vars, Inv, TypeOK, SessionsOK, TokensOK, SingleRole, TenantAdministered
  <2>2. Knowing'
    BY <1>7 DEF vars, Inv, Knowing
  <2>3. QED
    BY <2>1, <2>2 DEF Inv
<1>8. QED
  BY <1>1, <1>2, <1>3, <1>4, <1>5, <1>6, <1>7 DEF Next

LEMMA Invariant == Spec => []Inv
BY InitKnowing, NextKnowing, PTL DEF Spec

\* Tables, tokens and requests of Accounts keep their types, and only users
\* have roles.
THEOREM TypeCorrect == Spec => []TypeOK
<1>1. Inv => TypeOK
  BY DEF Inv
<1>2. QED
  BY <1>1, Invariant, PTL

\* SetupService and AuthHandler.Register never leave a tenant without an
\* administrator, except where the request that created it was refused or failed.
THEOREM TenantsAdministered == Spec => []TenantAdministered
<1>1. Inv => TenantAdministered
  BY DEF Inv
<1>2. QED
  BY <1>1, Invariant, PTL

\* CreateUser and UpdateUserRole leave every user with one role at most, unless
\* they overlapped for that user or an error was ignored.
THEOREM RolesSingular == Spec => []OneRole
<1>1. Inv => OneRole
  <2> SUFFICES ASSUME Inv, NEW u \in User \ muddled PROVE Cardinality(roles[u]) <= 1
    BY DEF OneRole
  <2>1. CASE roles[u] = {}
    BY <2>1, FS_EmptySet
  <2>2. CASE \E r \in Roles : roles[u] = {r}
    <3>1. PICK r \in Roles : roles[u] = {r}
      BY <2>2
    <3>2. Cardinality({r}) = 1
      BY FS_Singleton
    <3>3. QED
      BY <3>1, <3>2
  <2>3. QED
    BY <2>1, <2>2 DEF Inv, SingleRole
<1>2. QED
  BY <1>1, Invariant, PTL

\* Nobody acts in a role that its user lost a session's life ago or longer,
\* although AuthGuard never reads roles again.
THEOREM RolesFresh == Spec => []StaleRoleBounded
<1>1. Inv => StaleRoleBounded
  <2> SUFFICES ASSUME Inv, NEW p \in Requests, req[p].pc = "admitted"
               PROVE  LET row == sessions[req[p].session] IN
                      \/ row.role \in Held(roles[row.user])
                      \/ req[p].now < lost[row.user][row.role] + SessionTTL
    BY DEF StaleRoleBounded
  <2> DEFINE row == sessions[req[p].session]
  <2>1. /\ req[p].session \in Sessions /\ row # NoSession /\ req[p].now < row.expires
        /\ req[p].now \in Nat
    BY RequestKnows DEF Admitted, Request
  <2>2. row \in SessionRow
    BY <2>1 DEF Inv, TypeOK
  <2>3. row.login \in Nat /\ row.user \in User /\ row.role \in Roles
    BY <2>2 DEF SessionRow
  <2>4. lost[row.user][row.role] \in Nat
    BY <2>3 DEF Inv, TypeOK
  <2>5. /\ row.expires = row.login + SessionTTL
        /\ HasOrLost(roles, lost, row.user, row.role, row.login)
    BY <2>1 DEF Inv, SessionsOK
  <2>6. QED
    BY <2>1, <2>3, <2>4, <2>5, AccountsAssumption DEF HasOrLost
<1>2. QED
  BY <1>1, Invariant, PTL

\* However often AuthGuard signs the claims again, nobody is admitted a session's
\* life after the login, nor with a request that came after Logout had answered
\* "revoked", unless the UPDATE of such a logout failed.
THEOREM SessionsEnd == Spec => []SessionEnds
<1>1. Inv => SessionEnds
  <2> SUFFICES ASSUME Inv, NEW p \in Requests, req[p].pc = "admitted"
               PROVE  /\ req[p].now < sessions[req[p].session].login + SessionTTL
                      /\ req[p].late => sessions[req[p].session].failed
    BY DEF SessionEnds
  <2>1. /\ req[p].session \in Sessions /\ sessions[req[p].session] # NoSession
        /\ req[p].now < sessions[req[p].session].expires
        /\ req[p].late => sessions[req[p].session].failed
    BY RequestKnows DEF Admitted
  <2>2. QED
    BY <2>1 DEF Inv, SessionsOK
<1>2. QED
  BY <1>1, Invariant, PTL

\* No other statement writes the tenants.
LEMMA TenantsOnly ==
    ASSUME [Next]_vars, tenants' # tenants
    PROVE  \E p \in Requests : CreateTenant(p)
<1>1. ASSUME NEW p \in Requests, ~CreateTenant(p)
      PROVE  ~(Begin(p) \/ Registration(p))
  BY <1>1
     DEF Begin, BeginSeed, BeginSetup, BeginRegister, BeginLogin, BeginGuarded, Arrive, accounts,
         Registration, CountTenants, Lookup, InsertUser, GrantRole
<1>2. ASSUME NEW p \in Requests
      PROVE  ~(Authenticate(p) \/ CreateSession(p) \/ Guarded(p))
  BY DEF Authenticate, CreateSession, OpenSession, Guarded, AuthGuard, Revoke, Logout, Handle,
         UpdateUserRole, DeleteRoles, CommitRole, accounts
<1>3. ASSUME NEW p \in Requests
      PROVE  ~(Abort(p) \/ RevokeFails(p) \/ CountFails(p) \/ LookupFails(p))
  BY DEF Abort, RevokeFails, Logout, CountFails, LookupFails, Fault, accounts
<1>4. ~(Crash \/ Tick \/ UNCHANGED vars)
  BY DEF Crash, Tick, Fault, accounts, vars
<1>5. QED
  BY <1>1, <1>2, <1>3, <1>4 DEF Next

LEMMA TenantStep ==
    ASSUME Inv, [Next]_vars, NEW t \in tenants' \ tenants
    PROVE  \E p \in Requests : req[p].tenant = t /\ req[p].early
<1>1. PICK p \in Requests : CreateTenant(p)
  BY TenantsOnly
<1>2. req[p].early /\ t = req[p].tenant
  BY <1>1, RequestKnows DEF CreateTenant, Placed
<1>3. QED
  BY <1>2

\* Whoever comes when a tenant exists creates none: the count in NeedsSetup may
\* be outdated only for requests that overlap the first.
THEOREM SetupCloseable == Spec => SetupCloses
<1>1. Inv /\ [Next]_vars =>
        [\A t \in tenants' \ tenants : \E p \in Requests : req[p].tenant = t /\ req[p].early]_vars
  BY TenantStep
<1>2. QED
  BY <1>1, Invariant, PTL DEF Spec, SetupCloses

-----------------------------------------------------------------------------
(* Requests one at a time.                                                 *)

OneSlot == \A p, q \in Requests : p = q

\* There is one tenant at most.
SingleTenant == \A t, u \in tenants : t = u

\* A request about to create a tenant still finds none.
CountStands == \A p \in Requests : req[p].pc = "tenant" => tenants = {}

\* A role was written next to another one only after an error.
MuddledByFaults == muddled # {} => faults > 0

\* A user has one role unless an error was taken for an answer.
OneRoleUnlessFault == faults = 0 => \A u \in User : Cardinality(roles[u]) <= 1

\* Only the count of tenants leads to their creation.
LEMMA ToTenant ==
    ASSUME Inv, [Next]_vars, NEW p \in Requests, req'[p].pc = "tenant"
    PROVE  req[p].pc = "tenant" \/ tenants = {}
<1> SUFFICES ASSUME req[p].pc # "tenant" PROVE tenants = {}
  OBVIOUS
<1>1. req \in [Requests -> Request]
  BY DEF Inv, TypeOK
<1>2. req'[p] # req[p] /\ req'[p] # Idle
  BY DEF Idle
<1>3. ASSUME NEW q \in Requests, NEW r, Become(q, r) PROVE q = p /\ req'[p] = r
  BY <1>1, <1>2, <1>3 DEF Become
<1>4. ASSUME NEW q \in Requests, Finish(q) PROVE FALSE
  BY <1>2, <1>3, <1>4 DEF Finish
<1>5. ASSUME NEW q \in Requests, NEW pc \in PC, Step(q, pc) PROVE pc = "tenant"
  <2>1. req'[p] = [req[p] EXCEPT !.pc = pc]
    BY <1>3, <1>5 DEF Step
  <2>2. QED
    BY <1>1, <2>1 DEF Request
<1>6. ASSUME NEW q \in Requests, CountTenants(q) PROVE tenants = {}
  <2> SUFFICES ASSUME tenants # {} PROVE FALSE
    OBVIOUS
  <2>1. req'[p] = [req[q] EXCEPT !.pc = "lookup", !.tenant = DefaultTenant] /\ q = p
    BY <1>3, <1>4, <1>6 DEF CountTenants
  <2>2. QED
    BY <1>1, <2>1 DEF Request
<1>7. ASSUME NEW q \in Requests, Begin(q) PROVE FALSE
  <2>1. ASSUME NEW r, Become(q, r), r.pc # "tenant" PROVE FALSE
    BY <1>3, <2>1
  <2>2. ~BeginSeed(q)
    BY <2>1 DEF BeginSeed, Idle
  <2>3. ~BeginSetup(q)
    BY <2>1 DEF BeginSetup, Idle
  <2>4. ~BeginRegister(q)
    BY <2>1 DEF BeginRegister, Idle
  <2>5. ~BeginLogin(q)
    BY <2>1 DEF BeginLogin, Idle
  <2>6. ~BeginGuarded(q)
    BY <2>1 DEF BeginGuarded, Idle
  <2>7. QED
    BY <1>7, <2>2, <2>3, <2>4, <2>5, <2>6 DEF Begin
<1>8. ASSUME NEW q \in Requests, CreateTenant(q) PROVE FALSE
  <2>1. req'[p] = [req[p] EXCEPT !.pc = "lookup", !.role = "admin", !.first = TRUE]
    BY <1>3, <1>4, <1>8 DEF CreateTenant
  <2>2. QED
    BY <1>1, <2>1 DEF Request
<1>9. ASSUME NEW q \in Requests, Lookup(q) \/ InsertUser(q) \/ GrantRole(q) PROVE FALSE
  BY <1>4, <1>5, <1>9 DEF Lookup, InsertUser, GrantRole, PC
<1>10. ASSUME NEW q \in Requests, Authenticate(q) PROVE FALSE
  <2>1. \E r \in Held(roles[Target(q)]) :
           Become(q, [req[q] EXCEPT !.pc = "session", !.role = r])
    BY <1>4, <1>10 DEF Authenticate
  <2>2. PICK r : req'[p] = [req[p] EXCEPT !.pc = "session", !.role = r]
    BY <1>3, <2>1
  <2>3. QED
    BY <1>1, <2>2 DEF Request
<1>11. ASSUME NEW q \in Requests,
              CreateSession(q) \/ Revoke(q) \/ RevokeFails(q) \/ Handle(q) \/ Abort(q)
       PROVE  FALSE
  BY <1>4, <1>11 DEF CreateSession, OpenSession, Revoke, RevokeFails, Logout, Handle, Abort
<1>12. ASSUME NEW q \in Requests, AuthGuard(q) \/ DeleteRoles(q) \/ LookupFails(q) PROVE FALSE
  BY <1>4, <1>5, <1>12 DEF AuthGuard, DeleteRoles, LookupFails, PC
<1>13. ASSUME NEW q \in Requests, UpdateUserRole(q) PROVE FALSE
  <2>1. \E u \in users, r \in Roles :
           Become(q, [req[q] EXCEPT !.pc = "wait", !.tenant = u[1], !.email = u[2],
                                    !.role = r, !.doomed = roles[u]])
    BY <1>4, <1>13 DEF UpdateUserRole
  <2>2. PICK u, r : req'[p] = [req[p] EXCEPT !.pc = "wait", !.tenant = u[1], !.email = u[2],
                                             !.role = r, !.doomed = roles[u]]
    BY <1>3, <2>1
  <2>3. QED
    BY <1>1, <2>2 DEF Request
<1>14. ASSUME NEW q \in Requests, CommitRole(q) PROVE FALSE
  BY <1>1, <1>2, <1>4, <1>14 DEF CommitRole, Request
<1>15. ASSUME NEW q \in Requests, CountFails(q) PROVE FALSE
  <2>1. req'[p] = [req[p] EXCEPT !.pc = "lookup", !.tenant = DefaultTenant]
    BY <1>3, <1>15 DEF CountFails
  <2>2. QED
    BY <1>1, <2>1 DEF Request
<1>16. ASSUME Crash \/ Tick \/ UNCHANGED vars PROVE FALSE
  BY <1>2, <1>16 DEF Crash, Tick, vars
<1>17. ASSUME NEW q \in Requests, Registration(q) PROVE tenants = {}
  BY <1>6, <1>8, <1>9, <1>17 DEF Registration
<1>18. ASSUME NEW q \in Requests, Guarded(q) PROVE FALSE
  BY <1>11, <1>12, <1>13, <1>14, <1>18 DEF Guarded
<1>19. QED
  BY <1>7, <1>10, <1>11, <1>12, <1>15, <1>16, <1>17, <1>18 DEF Next

\* Where requests do not overlap, setup, registration and the seed leave one
\* tenant at most: BootstrapTenant is closed once a tenant exists, also when
\* counting fails or the server stops between its statements.
THEOREM SerialSetup ==
    ASSUME OneSlot
    PROVE  Spec => []SingleTenant
<1>1. Init => SingleTenant /\ CountStands
  BY DEF Init, SingleTenant, CountStands, Idle
<1>2. ASSUME Inv, CountStands, [Next]_vars PROVE CountStands'
  <2> SUFFICES ASSUME NEW p \in Requests, req'[p].pc = "tenant" PROVE tenants' = {}
    BY DEF CountStands
  <2>1. tenants = {}
    BY <1>2, ToTenant DEF CountStands
  <2>2. ASSUME NEW q \in Requests, CreateTenant(q) PROVE FALSE
    <3>1. q = p
      BY DEF OneSlot
    <3>2. \/ req' = [req EXCEPT ![p] = Idle]
          \/ req' = [req EXCEPT ![p] = [req[p] EXCEPT !.pc = "lookup", !.role = "admin",
                                                     !.first = TRUE]]
      BY <2>2, <3>1 DEF CreateTenant, Finish, Become
    <3>3. req \in [Requests -> Request]
      BY <1>2 DEF Inv, TypeOK
    <3>4. CASE req' = [req EXCEPT ![p] = Idle]
      BY <3>3, <3>4 DEF Idle
    <3>5. CASE req' = [req EXCEPT ![p] = [req[p] EXCEPT !.pc = "lookup", !.role = "admin",
                                                      !.first = TRUE]]
      BY <3>3, <3>5 DEF Request
    <3>6. QED
      BY <3>2, <3>4, <3>5
  <2>3. QED
    BY <1>2, <2>1, <2>2, TenantsOnly
<1>3. ASSUME SingleTenant, CountStands, [Next]_vars PROVE SingleTenant'
  <2>1. CASE tenants' = tenants
    BY <1>3, <2>1 DEF SingleTenant
  <2>2. CASE tenants' # tenants
    <3>1. PICK p \in Requests : CreateTenant(p)
      BY <1>3, <2>2, TenantsOnly
    <3>2. tenants = {} /\ tenants' = tenants \cup {req[p].tenant}
      BY <1>3, <3>1 DEF CountStands, CreateTenant
    <3>3. QED
      BY <3>2 DEF SingleTenant
  <2>3. QED
    BY <2>1, <2>2
<1>4. QED
  BY <1>1, <1>2, <1>3, Invariant, PTL DEF Spec

LEMMA MuddledStep ==
    ASSUME OneSlot, Inv, MuddledByFaults, [Next]_vars
    PROVE  MuddledByFaults'
<1>1. faults \in Nat /\ faults' \in Nat
  BY NextKnowing DEF Inv, TypeOK
<1>2. ASSUME NEW p \in Requests PROVE ~Contended(p)
  BY DEF OneSlot, Contended
<1>3. ASSUME UNCHANGED <<muddled, faults>> PROVE MuddledByFaults'
  BY <1>3 DEF MuddledByFaults
<1>4. ASSUME Fault PROVE MuddledByFaults'
  BY <1>1, <1>4 DEF Fault, MuddledByFaults
<1>5. ASSUME NEW p \in Requests, NEW R, SetRoles(p, R) PROVE muddled' = muddled
  BY <1>2, <1>5 DEF SetRoles
<1>6. ASSUME NEW p \in Requests, Begin(p) PROVE MuddledByFaults'
  BY <1>3, <1>6
     DEF Begin, BeginSeed, BeginSetup, BeginRegister, BeginLogin, BeginGuarded, Arrive, history
<1>7. ASSUME NEW p \in Requests, Registration(p) PROVE MuddledByFaults'
  BY <1>3, <1>5, <1>7
     DEF Registration, CountTenants, CreateTenant, Lookup, InsertUser, GrantRole, history
<1>8. ASSUME NEW p \in Requests, Authenticate(p) \/ CreateSession(p) PROVE MuddledByFaults'
  BY <1>3, <1>8 DEF Authenticate, CreateSession, OpenSession, history
<1>9. ASSUME NEW p \in Requests, Guarded(p) PROVE MuddledByFaults'
  BY <1>3, <1>5, <1>9
     DEF Guarded, AuthGuard, Revoke, Logout, Handle, UpdateUserRole, DeleteRoles, CommitRole,
         history
<1>10. ASSUME NEW p \in Requests,
              Abort(p) \/ RevokeFails(p) \/ CountFails(p) \/ LookupFails(p)
       PROVE  MuddledByFaults'
  <2>1. CASE RevokeFails(p)
    BY <1>1, <2>1 DEF RevokeFails, Logout, history, MuddledByFaults
  <2>2. QED
    BY <1>4, <1>10, <2>1 DEF Abort, CountFails, LookupFails
<1>11. ASSUME Crash \/ Tick \/ UNCHANGED vars PROVE MuddledByFaults'
  BY <1>3, <1>4, <1>11 DEF Crash, Tick, vars, history
<1>12. QED
  BY <1>6, <1>7, <1>8, <1>9, <1>10, <1>11 DEF Next

\* Where requests do not overlap, a user has two roles only if some statement
\* failed: CreateUser and UpdateUserRole leave one.
THEOREM SerialRoles ==
    ASSUME OneSlot
    PROVE  Spec => []OneRoleUnlessFault
<1>1. Init => MuddledByFaults
  BY DEF Init, MuddledByFaults
<1>2. Inv /\ MuddledByFaults /\ [Next]_vars => MuddledByFaults'
  BY MuddledStep
<1>3. ASSUME OneRole, MuddledByFaults PROVE OneRoleUnlessFault
  <2> SUFFICES ASSUME faults = 0 PROVE \A u \in User : Cardinality(roles[u]) <= 1
    BY DEF OneRoleUnlessFault
  <2>1. muddled = {}
    BY <1>3 DEF MuddledByFaults
  <2>2. QED
    BY <1>3, <2>1 DEF OneRole
<1>4. QED
  BY <1>1, <1>2, <1>3, Invariant, RolesSingular, PTL DEF Spec
=============================================================================
