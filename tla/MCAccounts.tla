----------------------------- MODULE MCAccounts -----------------------------
(* Instances of Accounts for TLC.                                          *)
EXTENDS Accounts, TLC

CONSTANTS acme, globex, ann, bob, s1, s2

\* A state that a setup by ann, a registration of bob and a login of ann lead
\* to: two users who are administrators, and a session.
Administered ==
    /\ clock = 0
    /\ tenants = {acme}
    /\ users = {acme} \X {ann, bob}
    /\ roles = [u \in User |-> IF u \in users THEN {"admin"} ELSE {}]
    /\ sessions = [s \in Sessions |->
          IF s = s1 THEN [user |-> <<acme, ann>>, role |-> "admin", expires |-> SessionTTL,
                          revoked |-> FALSE, login |-> 0, ended |-> FALSE, failed |-> FALSE]
          ELSE NoSession]
    /\ tokens = {[session |-> s1, exp |-> SessionTTL]}
    /\ req = [p \in Requests |-> Idle]
    /\ arrived = 0
    /\ faults = 0
    /\ lost = [u \in User |-> [r \in Roles |-> 0]]
    /\ muddled = {}
    /\ excused = {}

MCSpec == (Init \/ Administered) /\ [][Next]_vars

\* Setup and registration do not read the clock: time passes once there is a
\* session.
TimeMatters == clock > 0 => tokens # {}

Symmetry == Permutations(Requests)
=============================================================================
