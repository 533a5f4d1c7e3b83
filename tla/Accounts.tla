------------------------------ MODULE Accounts ------------------------------
(***************************************************************************)
(* Setup, registration, roles, logins and sessions: the public handlers    *)
(* (api/handlers/setup.go, auth.go), the guard in front of all others      *)
(* (api/middleware/auth.go), the role update of the administration, and    *)
(* the statements they execute, one per step.                              *)
(*                                                                         *)
(* A tenant is named by its slug, which is unique, and a user by tenant    *)
(* and email. Passwords, hashes, names and signatures are left out: a      *)
(* login whose password is wrong changes nothing, because PostgreSQL       *)
(* refuses the UPDATE of IncrementFailedAttempts (its parameter $3 is not  *)
(* used and has no type) and Authenticate drops the error, so that no      *)
(* account is ever locked and ResetFailedAttempts finds nothing to reset.  *)
(***************************************************************************)
EXTENDS Integers, FiniteSets

CONSTANTS
    Requests,       \* slots for HTTP requests in flight at the same time
    Tenants,        \* slugs clients ask for
    DefaultTenant,  \* the tenant of a registration that names none
    Emails,
    Roles,          \* of the four roles, those in use
    Sessions,       \* ids the server draws for sessions
    SessionTTL,     \* life of a session and of a token (24 hours in the code)
    MaxClock,       \* bound: last tick of the clock
    MaxRequests,    \* bound: requests that arrive
    MaxFaults,      \* bound: database errors and crashes
    NULL

ASSUME AccountsAssumption ==
    /\ IsFiniteSet(Requests) /\ Requests # {}
    /\ DefaultTenant \in Tenants
    /\ Roles \subseteq {"admin", "coordinator", "instructor", "learner"}
    /\ {"admin", "learner"} \subseteq Roles
    /\ SessionTTL \in Nat \ {0}
    /\ MaxClock \in Nat /\ MaxRequests \in Nat /\ MaxFaults \in Nat
    /\ NULL \notin Tenants \cup Emails \cup Sessions \cup Nat

VARIABLES
    clock,
    tenants,    \* the tenants table
    users,      \* the users table
    roles,      \* the user_roles table: the roles of each user
    sessions,   \* the sessions table
    tokens,     \* session tokens given out: session and expiry
    req,        \* what each request in flight is doing
    arrived,    \* requests so far
    faults,     \* errors and crashes so far
    \* What happened, which no code reads:
    lost,       \* when each user last lost each role
    muddled,    \* users whose roles two requests wrote at the same time
    excused     \* tenants whose first registration was refused, or whose roles
                \* an administrator changed

accounts == <<tenants, users, roles>>
history == <<lost, muddled, excused>>
vars == <<clock, tenants, users, roles, sessions, tokens, req, arrived, faults,
          lost, muddled, excused>>

User == Tenants \X Emails

SessionRow == [user : User, role : Roles, expires : Nat, revoked : BOOLEAN,
               login : Nat,      \* when the login arrived
               ended : BOOLEAN,  \* a logout was answered,
               failed : BOOLEAN] \* and the UPDATE of one failed
NoSession == NULL

ASSUME NullAssumption == NULL \notin SessionRow

PC == {"idle",
       "count", "tenant", "lookup", "user", "grant",       \* setup, registration
       "credentials", "session",                           \* login
       "active", "admitted", "wait", "commit"}             \* behind the guard

Ops == {"seed", "setup", "register", "login", "logout", "setrole", "other"}

Request == [pc      : PC,
            op      : Ops,
            tenant  : Tenants \cup {NULL},
            email   : Emails \cup {NULL},
            role    : Roles,           \* to grant; at a login, the role found
            fit     : BOOLEAN,         \* the password meets the policy
            early   : BOOLEAN,         \* there was no tenant when it arrived
            first   : BOOLEAN,         \* it created its tenant
            now     : Nat,             \* its reading of the clock
            session : Sessions \cup {NULL},
            late    : BOOLEAN,         \* a logout had been answered when it arrived
            doomed  : SUBSET Roles]    \* rows its DELETE is to delete

Idle == [pc |-> "idle", op |-> "other", tenant |-> NULL, email |-> NULL, role |-> "learner",
         fit |-> TRUE, early |-> FALSE, first |-> FALSE, now |-> 0, session |-> NULL,
         late |-> FALSE, doomed |-> {}]

Become(p, r) == req' = [req EXCEPT ![p] = r]
Step(p, pc) == Become(p, [req[p] EXCEPT !.pc = pc])
Finish(p) == Become(p, Idle)
Target(p) == <<req[p].tenant, req[p].email>>

\* GetByEmail: a user without a row in user_roles is a learner.
Held(R) == IF R = {} THEN {"learner"} ELSE R

-----------------------------------------------------------------------------
(* Requests arrive. The server seeds its administrator before it listens.  *)

Arrive(p) ==
    /\ req[p].pc = "idle"
    /\ \A q \in Requests : req[q].op # "seed"
    /\ arrived < MaxRequests
    /\ arrived' = arrived + 1
    /\ UNCHANGED <<clock, accounts, sessions, tokens, faults, history>>

\* seedDefaultUsers, when the server starts: the password is whatever the
\* environment says.
BeginSeed(p) ==
    /\ Arrive(p)
    /\ \A q \in Requests : req[q].pc = "idle"
    /\ \E e \in Emails, fit \in BOOLEAN :
          Become(p, [Idle EXCEPT !.pc = "count", !.op = "seed", !.tenant = DefaultTenant,
                                 !.email = e, !.role = "admin", !.fit = fit,
                                 !.early = (tenants = {})])

\* SetupHandler.BootstrapTenant: the password has been checked.
BeginSetup(p) ==
    /\ Arrive(p)
    /\ \E t \in Tenants, e \in Emails :
          Become(p, [Idle EXCEPT !.pc = "count", !.op = "setup", !.tenant = t, !.email = e,
                                 !.role = "admin", !.early = (tenants = {})])

\* AuthHandler.Register for a tenant, or for none: then it counts tenants first.
BeginRegister(p) ==
    /\ Arrive(p)
    /\ \E t \in Tenants, e \in Emails, r \in Roles, pc \in {"count", "lookup"}, fit \in BOOLEAN :
          Become(p, [Idle EXCEPT !.pc = pc, !.op = "register", !.tenant = t, !.email = e,
                                 !.role = r, !.fit = fit, !.early = (tenants = {})])

\* AuthHandler.Login reads the clock before anything else.
BeginLogin(p) ==
    /\ Arrive(p)
    /\ \E t \in Tenants, e \in Emails :
          Become(p, [Idle EXCEPT !.pc = "credentials", !.op = "login", !.tenant = t,
                                 !.email = e, !.now = clock])

\* VerifySessionToken accepts a token until it expires.
VerifySessionToken(tok) == clock < tok.exp

\* AuthGuard. What the request is for is decided behind the guard.
BeginGuarded(p) ==
    /\ Arrive(p)
    /\ \E tok \in tokens, op \in {"logout", "setrole", "other"} :
          /\ VerifySessionToken(tok)
          /\ Become(p, [Idle EXCEPT !.pc = "active", !.op = op, !.now = clock,
                                    !.session = tok.session,
                                    !.late = sessions[tok.session].ended])

-----------------------------------------------------------------------------
(* Setup and registration.                                                 *)

\* The slip: setup does not look whether it was done.
CountNothing(p) ==
    /\ req[p].pc = "count"
    /\ Step(p, "tenant")
    /\ UNCHANGED <<clock, accounts, sessions, tokens, arrived, faults, history>>

\* SetupService.NeedsSetup. Setup stops when there is a tenant; a registration
\* goes on with the default tenant.
CountTenants(p) ==
    /\ req[p].pc = "count"
    /\ IF tenants = {} THEN Step(p, "tenant")
       ELSE IF req[p].op = "register"
            THEN Become(p, [req[p] EXCEPT !.pc = "lookup", !.tenant = DefaultTenant])
            ELSE Finish(p)
    /\ UNCHANGED <<clock, accounts, sessions, tokens, arrived, faults, history>>

\* CreateTenant, in one transaction with the roles; the slug must be new.
\* Whoever registers first becomes an administrator.
CreateTenant(p) ==
    /\ req[p].pc = "tenant"
    /\ tenants' = tenants \cup {req[p].tenant}
    /\ IF req[p].tenant \in tenants
         THEN Finish(p)
         ELSE Become(p, [req[p] EXCEPT !.pc = "lookup", !.role = "admin", !.first = TRUE])
    /\ UNCHANGED <<clock, users, roles, sessions, tokens, arrived, faults, history>>

\* AuthService.Register refuses a weak password and an email that is taken.
Lookup(p) ==
    /\ req[p].pc = "lookup"
    /\ IF req[p].fit /\ Target(p) \notin users
         THEN Step(p, "user") /\ UNCHANGED excused
         ELSE /\ Finish(p)
              /\ excused' = excused \cup IF req[p].first THEN {req[p].tenant} ELSE {}
    /\ UNCHANGED <<clock, accounts, sessions, tokens, arrived, faults, lost, muddled>>

\* The slip: CreateUser stops when another request has inserted the user.
InsertUserOrStop(p) ==
    /\ req[p].pc = "user"
    /\ IF req[p].tenant \in tenants /\ Target(p) \notin users
         THEN users' = users \cup {Target(p)} /\ Step(p, "grant")
         ELSE UNCHANGED users /\ Finish(p)
    /\ UNCHANGED <<clock, tenants, roles, sessions, tokens, arrived, faults, history>>

\* Another slip: it goes on when the tenant is not there.
InsertUserAnyway(p) ==
    /\ req[p].pc = "user"
    /\ users' = IF req[p].tenant \in tenants THEN users \cup {Target(p)} ELSE users
    /\ Step(p, "grant")
    /\ UNCHANGED <<clock, tenants, roles, sessions, tokens, arrived, faults, history>>

\* CreateUser inserts the user unless another request just did, and goes on.
InsertUser(p) ==
    /\ req[p].pc = "user"
    /\ IF req[p].tenant \in tenants
         THEN users' = users \cup {Target(p)} /\ Step(p, "grant")
         ELSE UNCHANGED users /\ Finish(p)
    /\ UNCHANGED <<clock, tenants, roles, sessions, tokens, arrived, faults, history>>

-----------------------------------------------------------------------------
(* Roles.                                                                  *)

\* Another request is about to write the roles of the same user.
WritesRoles(q) == req[q].pc \in {"user", "grant", "wait", "commit"}
Contended(p) ==
    \E q \in Requests \ {p} : WritesRoles(q) /\ Target(q) = Target(p)

\* The rows a transaction has deleted are locked until it commits, and an
\* INSERT of the same key waits for it.
DeletedBy(q, u) == IF req[q].pc = "commit" /\ Target(q) = u THEN req[q].doomed ELSE {}
Waits(p, rows) == \E q \in Requests \ {p} : DeletedBy(q, Target(p)) \cap rows # {}

\* The roles of p's user become R.
SetRoles(p, R) ==
    LET u == Target(p) IN
    /\ roles' = [roles EXCEPT ![u] = R]
    /\ lost' = [lost EXCEPT ![u] =
          [r \in Roles |-> IF r \in Held(roles[u]) \ Held(R) THEN clock ELSE @[r]]]
    /\ muddled' = muddled \cup IF Contended(p) THEN {u} ELSE {}

\* CreateUser's INSERT into user_roles.
GrantRole(p) ==
    /\ req[p].pc = "grant"
    /\ ~Waits(p, {req[p].role})
    /\ SetRoles(p, roles[Target(p)] \cup {req[p].role})
    /\ Finish(p)
    /\ UNCHANGED <<clock, tenants, users, sessions, tokens, arrived, faults, excused>>

\* RequireRole("admin") looks at the role in the claims.
RequireAdmin(p) == sessions[req[p].session].role = "admin"

\* UpdateUserRole: its DELETE sees the rows there are when it starts.
UpdateUserRole(p) ==
    /\ req[p].pc = "admitted"
    /\ req[p].op = "setrole"
    /\ IF RequireAdmin(p)
         THEN \E u \in users, r \in Roles :
                 Become(p, [req[p] EXCEPT !.pc = "wait", !.tenant = u[1], !.email = u[2],
                                          !.role = r, !.doomed = roles[u]])
         ELSE Finish(p)
    /\ UNCHANGED <<clock, accounts, sessions, tokens, arrived, faults, history>>

\* The slip: the old role is not deleted.
DeleteNothing(p) ==
    /\ req[p].pc = "wait"
    /\ Become(p, [req[p] EXCEPT !.pc = "commit", !.doomed = {}])
    /\ UNCHANGED <<clock, accounts, sessions, tokens, arrived, faults, history>>

\* The DELETE waits for rows another transaction has deleted.
DeleteRoles(p) ==
    /\ req[p].pc = "wait"
    /\ ~Waits(p, req[p].doomed)
    /\ Step(p, "commit")
    /\ UNCHANGED <<clock, accounts, sessions, tokens, arrived, faults, history>>

\* The INSERT, which fails on a duplicate and rolls everything back, and the
\* commit. A DELETE that waited finds the deleted rows gone, and does not see
\* the new one.
CommitRole(p) ==
    LET u == Target(p)
        rest == roles[u] \ req[p].doomed
        after(q) == IF q = p THEN Idle
                    ELSE IF req[q].pc = "wait" /\ Target(q) = u
                    THEN [req[q] EXCEPT !.doomed = @ \ req[p].doomed]
                    ELSE req[q]
    IN  /\ req[p].pc = "commit"
        /\ ~Waits(p, {req[p].role})
        /\ IF req[p].role \in rest
             THEN Finish(p) /\ UNCHANGED <<roles, history>>
             ELSE /\ SetRoles(p, rest \cup {req[p].role})
                  /\ excused' = excused \cup {req[p].tenant}
                  /\ req' = [q \in Requests |-> after(q)]
        /\ UNCHANGED <<clock, tenants, users, sessions, tokens, arrived, faults>>

-----------------------------------------------------------------------------
(* Logins and sessions.                                                    *)

\* Authenticate: GetByEmail joins the user with any of its roles.
Authenticate(p) ==
    /\ req[p].pc = "credentials"
    /\ IF Target(p) \in users
         THEN \E r \in Held(roles[Target(p)]) :
                 Become(p, [req[p] EXCEPT !.pc = "session", !.role = r])
         ELSE Finish(p)
    /\ UNCHANGED <<clock, accounts, sessions, tokens, arrived, faults, history>>

\* SignSessionToken
Signed(s, exp) == [session |-> s, exp |-> exp]

OpenSession(p, s, expires) ==
    /\ req[p].pc = "session"
    /\ sessions[s] = NoSession
    /\ sessions' = [sessions EXCEPT ![s] =
          [user |-> Target(p), role |-> req[p].role, expires |-> expires,
           revoked |-> FALSE, login |-> req[p].now, ended |-> FALSE, failed |-> FALSE]]
    /\ tokens' = tokens \cup {Signed(s, expires)}
    /\ Finish(p)
    /\ UNCHANGED <<clock, accounts, arrived, faults, history>>

\* The slip: the session lives from when it is saved.
CreateSessionNow(p) == \E s \in Sessions : OpenSession(p, s, clock + SessionTTL)

\* CreateSession counts from when the login arrived.
CreateSession(p) == \E s \in Sessions : OpenSession(p, s, req[p].now + SessionTTL)

\* The slip: only revocation is looked at, the token having been in time.
ActiveUnlessRevoked(row, now) == ~row.revoked

\* IsActive compares with the time the guard read.
IsActive(row, now) == ~row.revoked /\ row.expires > now

\* AuthGuard lets an active session in and signs its claims again, for another
\* SessionTTL.
AuthGuard(p) ==
    /\ req[p].pc = "active"
    /\ IF IsActive(sessions[req[p].session], req[p].now)
         THEN /\ Step(p, "admitted")
              /\ tokens' = tokens \cup {Signed(req[p].session, req[p].now + SessionTTL)}
         ELSE Finish(p) /\ UNCHANGED tokens
    /\ UNCHANGED <<clock, accounts, sessions, arrived, faults, history>>

\* AuthHandler.Logout answers "revoked" whether or not the session was revoked.
Logout(p, revoked) ==
    /\ req[p].pc = "admitted"
    /\ req[p].op = "logout"
    /\ sessions' = [sessions EXCEPT ![req[p].session].revoked = @ \/ revoked,
                                    ![req[p].session].ended = TRUE,
                                    ![req[p].session].failed = @ \/ ~revoked]
    /\ Finish(p)
    /\ UNCHANGED <<clock, accounts, tokens, arrived, history>>

Revoke(p) == Logout(p, TRUE) /\ UNCHANGED faults

\* Any other request; Session only repeats the claims.
Handle(p) ==
    /\ req[p].pc = "admitted"
    /\ req[p].op = "other"
    /\ Finish(p)
    /\ UNCHANGED <<clock, accounts, sessions, tokens, arrived, faults, history>>

-----------------------------------------------------------------------------
(* Failures and time.                                                      *)

Fault ==
    /\ faults < MaxFaults
    /\ faults' = faults + 1
    /\ UNCHANGED <<clock, accounts, sessions, tokens, arrived, lost>>

\* A statement fails and the request with it, or the client goes away; a
\* transaction is rolled back. CreateUser drops the error of its INSERT of a role,
\* to the same effect.
Abort(p) ==
    /\ Fault
    /\ req[p].pc # "idle"
    /\ Finish(p)
    /\ excused' = excused \cup IF req[p].first THEN {req[p].tenant} ELSE {}
    /\ UNCHANGED muddled

\* The error of Revoke is dropped.
RevokeFails(p) ==
    /\ faults < MaxFaults
    /\ faults' = faults + 1
    /\ Logout(p, FALSE)

\* A registration takes an error of CountTenants or of GetByEmail for an answer.
CountFails(p) ==
    /\ Fault
    /\ req[p].pc = "count"
    /\ req[p].op = "register"
    /\ Become(p, [req[p] EXCEPT !.pc = "lookup", !.tenant = DefaultTenant])
    /\ UNCHANGED <<muddled, excused>>

LookupFails(p) ==
    /\ Fault
    /\ req[p].pc = "lookup"
    /\ req[p].fit
    /\ Step(p, "user")
    /\ muddled' = muddled \cup {Target(p)}
    /\ UNCHANGED excused

\* The server stops and starts again; the tables survive.
Crash ==
    /\ Fault
    /\ req' = [p \in Requests |-> Idle]
    /\ excused' = excused \cup {req[p].tenant : p \in {q \in Requests : req[q].first}}
    /\ UNCHANGED muddled

Tick ==
    /\ clock < MaxClock
    /\ clock' = clock + 1
    /\ UNCHANGED <<accounts, sessions, tokens, req, arrived, faults, history>>

Init ==
    /\ clock = 0
    /\ tenants = {}
    /\ users = {}
    /\ roles = [u \in User |-> {}]
    /\ sessions = [s \in Sessions |-> NoSession]
    /\ tokens = {}
    /\ req = [p \in Requests |-> Idle]
    /\ arrived = 0
    /\ faults = 0
    /\ lost = [u \in User |-> [r \in Roles |-> 0]]
    /\ muddled = {}
    /\ excused = {}

Begin(p) ==
    BeginSeed(p) \/ BeginSetup(p) \/ BeginRegister(p) \/ BeginLogin(p) \/ BeginGuarded(p)

Registration(p) ==
    CountTenants(p) \/ CreateTenant(p) \/ Lookup(p) \/ InsertUser(p) \/ GrantRole(p)

Guarded(p) ==
    \/ AuthGuard(p) \/ Revoke(p) \/ Handle(p)
    \/ UpdateUserRole(p) \/ DeleteRoles(p) \/ CommitRole(p)

Next ==
    \/ \E p \in Requests :
          \/ Begin(p) \/ Registration(p) \/ Authenticate(p) \/ CreateSession(p) \/ Guarded(p)
          \/ Abort(p) \/ RevokeFails(p) \/ CountFails(p) \/ LookupFails(p)
    \/ Crash
    \/ Tick

Spec == Init /\ [][Next]_vars

-----------------------------------------------------------------------------
(* Properties.                                                             *)

\* Every variable has its type, and only users have roles.
TypeOK ==
    /\ clock \in Nat
    /\ tenants \subseteq Tenants
    /\ users \subseteq User
    /\ roles \in [User -> SUBSET Roles]
    /\ \A u \in User \ users : roles[u] = {}
    /\ sessions \in [Sessions -> SessionRow \cup {NoSession}]
    /\ tokens \subseteq [session : Sessions, exp : Nat]
    /\ req \in [Requests -> Request]
    /\ arrived \in Nat
    /\ faults \in Nat
    /\ lost \in [User -> [Roles -> Nat]]
    /\ muddled \subseteq User
    /\ excused \subseteq Tenants

\* A request that arrives when there is a tenant creates none: of setups,
\* registrations and the seed, only requests that overlap the first one can
\* create another tenant.
SetupCloses ==
    [][\A t \in tenants' \ tenants : \E p \in Requests : req[p].tenant = t /\ req[p].early]_vars

\* A tenant has an administrator as soon as the request that created it is
\* over, also when somebody else registers the same email in the meantime;
\* unless that request was refused or failed after the tenant was created, or
\* an administrator changed a role.
TenantAdministered ==
    \A t \in tenants \ excused :
        \/ \E e \in Emails : "admin" \in roles[<<t, e>>]
        \/ \E p \in Requests : req[p].first /\ req[p].tenant = t

\* A user has at most one role, unless registrations and role updates of the
\* same user overlapped or a registration ignored an error: then the role a
\* login finds is any of them.
OneRole ==
    \A u \in User \ muddled : Cardinality(roles[u]) <= 1

\* A request acts in a role its user has, or lost less than SessionTTL before
\* the guard looked at the clock: claims outlive an update of the role, but no
\* longer than the session, which counts from before the role was read.
StaleRoleBounded ==
    \A p \in Requests : req[p].pc = "admitted" =>
        LET row == sessions[req[p].session] IN
        \/ row.role \in Held(roles[row.user])
        \/ req[p].now < lost[row.user][row.role] + SessionTTL

\* The guard signs a session's claims anew for SessionTTL at every request, and
\* still nobody acts on a login older than SessionTTL, nor with a request sent after
\* a logout was answered, unless the UPDATE of such a logout failed: Logout then
\* answers "revoked" all the same, and the session lives on.
SessionEnds ==
    \A p \in Requests : req[p].pc = "admitted" =>
        LET row == sessions[req[p].session] IN
        /\ req[p].now < row.login + SessionTTL
        /\ req[p].late => row.failed
=============================================================================
