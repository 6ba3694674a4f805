------------------------------ MODULE Accounts ------------------------------
(***************************************************************************)
(* Accounts of one tenant and their access tokens: login with lock-out,    *)
(* the authorization of every request (revocation in Redis, then the row   *)
(* in tenant_users), logout, deletion and provisioning of users.  Calls    *)
(* run concurrently on any replica; one action per store call.             *)
(*                                                                         *)
(* A login is a transaction that holds its user's row (FOR UPDATE) from    *)
(* the first query to the COMMIT.  Nothing in the code clears is_active,   *)
(* so it is not modelled.                                                  *)
(***************************************************************************)
EXTENDS Integers, FiniteSets

CONSTANTS
    Users,           \* user names of the tenant
    Calls,           \* API calls; a login's id doubles as the jti of its token
    MaxAttempts,     \* settings.MAX_FAILED_LOGIN_ATTEMPTS
    MaxFailures,     \* bound: store calls that raise and crashes
    RedisSettings,   \* values of settings.REQUIRE_REDIS to consider
    None             \* no user, no call, no account

ASSUME CallsAssumption == None \notin Calls /\ None \notin Users
ASSUME AttemptsAssumption == MaxAttempts \in Nat \ {0} /\ MaxFailures \in Nat
ASSUME RedisAssumption == RedisSettings \subseteq BOOLEAN

VARIABLES
    requireRedis,
    account,     \* tenant_users: a record, or None
    rowLock,     \* the login that holds the row of a user, or None
    tokens,      \* access tokens that have not expired
    waning,      \* those of them in their last two seconds
    revoked,     \* revoked_token:<hash>
    pc,          \* where each call is
    call,        \* what each call does, with which token, to whom
    wrong,       \* observer: wrong passwords answered since the last lock ran out
    loggedOut,   \* observer: tokens whose logout was acknowledged
    gone,        \* observer: users whose deletion was acknowledged
    fence,       \* observer: was the call's token logged out, its user gone, at its start?
    failures

vars == <<requireRedis, account, rowLock, tokens, waning, revoked, pc, call,
          wrong, loggedOut, gone, fence, failures>>
credentials == <<tokens, waning, revoked>>
observers == <<wrong, loggedOut, gone, fence>>

Roles == {"admin", "viewer"}
Account == [role : Roles, attempts : Nat, locked : BOOLEAN]
Token == [id : Calls, user : Users, role : Roles]
NoToken == [id |-> None, user |-> None, role |-> None]
NoCall == [op |-> None, token |-> NoToken, target |-> None]
Operations == {"use", "logout", "delete", "provision"}
Call == [op : Operations, token : Token, target : Users]
        \cup [op : {"login"}, token : {NoToken}, target : Users]
Ended == {"done", "refused", "failed"}

TypeOK ==
    /\ requireRedis \in RedisSettings
    /\ account \in [Users -> Account \cup {None}]
    /\ rowLock \in [Users -> Calls \cup {None}]
    /\ tokens \subseteq Token
    /\ waning \subseteq tokens
    /\ revoked \subseteq Token
    /\ pc \in [Calls -> {"idle", "select", "verify", "token", "row", "act"} \cup Ended]
    /\ call \in [Calls -> Call \cup {NoCall}]
    /\ wrong \in [Users -> Nat]
    /\ loggedOut \subseteq Token
    /\ gone \subseteq Users
    /\ fence \in [Calls -> [loggedOut : BOOLEAN, gone : BOOLEAN]]
    /\ failures \in 0..MaxFailures

NewAccount(role) == [role |-> role, attempts |-> 0, locked |-> FALSE]

Init ==
    /\ requireRedis \in RedisSettings
    /\ account \in [Users -> {NewAccount(role) : role \in Roles} \cup {None}]
    /\ rowLock = [u \in Users |-> None]
    /\ tokens = {} /\ waning = {} /\ revoked = {}
    /\ pc = [c \in Calls |-> "idle"]
    /\ call = [c \in Calls |-> NoCall]
    /\ wrong = [u \in Users |-> 0]
    /\ loggedOut = {} /\ gone = {}
    /\ fence = [c \in Calls |-> [loggedOut |-> FALSE, gone |-> FALSE]]
    /\ failures = 0

Goto(c, from, to) == pc[c] = from /\ pc' = [pc EXCEPT ![c] = to]
Fail == failures < MaxFailures /\ failures' = failures + 1
Target(c) == call[c].target
Subject(c) == call[c].token.user

-----------------------------------------------------------------------------
(* authenticate_user                                                       *)

StartLogin(c, u) ==
    /\ Goto(c, "idle", "select")
    /\ call' = [call EXCEPT ![c] = [op |-> "login", token |-> NoToken, target |-> u]]
    /\ UNCHANGED <<requireRedis, account, rowLock, credentials, observers, failures>>

Admissible(u) == account[u] # None /\ ~account[u].locked

\* Mutant: a plain SELECT.
SelectForUpdateUnlocked(c) ==
    /\ pc[c] = "select"
    /\ Goto(c, "select", IF Admissible(Target(c)) THEN "verify" ELSE "refused")
    /\ UNCHANGED <<requireRedis, account, rowLock, credentials, call, observers, failures>>

\* SELECT ... FOR UPDATE: it waits for another login of that user.  A missing or
\* locked user ends the login, and with it the transaction.
SelectForUpdate(c) ==
    LET u == Target(c)
    IN  /\ pc[c] = "select" /\ rowLock[u] = None
        /\ Goto(c, "select", IF Admissible(u) THEN "verify" ELSE "refused")
        /\ rowLock' = [rowLock EXCEPT ![u] = IF Admissible(u) THEN c ELSE None]
        /\ UNCHANGED <<requireRedis, account, credentials, call, observers, failures>>

Release(c) == rowLock' = [u \in Users |-> IF rowLock[u] = c THEN None ELSE rowLock[u]]

\* Mutant: the lock needs one attempt more.
CountAttemptLate(a) ==
    [a EXCEPT !.attempts = @ + 1, !.locked = @ \/ a.attempts + 1 > MaxAttempts]

CountAttempt(a) ==
    [a EXCEPT !.attempts = @ + 1, !.locked = @ \/ a.attempts + 1 >= MaxAttempts]

WrongPassword(c) ==
    LET u == Target(c)
    IN  /\ Goto(c, "verify", "refused")
        /\ account' = [account EXCEPT ![u] = IF @ = None THEN None ELSE CountAttempt(@)]
        /\ wrong' = [wrong EXCEPT ![u] = @ + 1]
        /\ Release(c)
        /\ UNCHANGED <<requireRedis, credentials, call, loggedOut, gone, fence, failures>>

\* The counter and the lock are reset and create_access_token issues the token.
\* (The row exists: the transaction holds it.)
RightPassword(c) ==
    LET u == Target(c)
    IN  /\ Goto(c, "verify", "done")
        /\ account[u] # None
        /\ account' = [account EXCEPT ![u] = NewAccount(@.role)]
        /\ tokens' = tokens \cup {[id |-> c, user |-> u, role |-> account[u].role]}
        /\ wrong' = [wrong EXCEPT ![u] = 0]
        /\ Release(c)
        /\ UNCHANGED <<requireRedis, waning, revoked, call, loggedOut, gone, fence, failures>>

\* The UPDATE raises, committed or not; the client sees an error, not a verdict.
LoginFails(c) ==
    LET u == Target(c)
    IN  /\ Goto(c, "select", "failed") \/ Goto(c, "verify", "failed")
        /\ Fail
        /\ \/ UNCHANGED <<account, wrong>>
           \/ /\ pc[c] = "verify" /\ account[u] # None
              /\ account' = [account EXCEPT ![u] = CountAttempt(@)]
              /\ UNCHANGED wrong
           \/ /\ pc[c] = "verify" /\ account[u] # None
              /\ account' = [account EXCEPT ![u] = NewAccount(@.role)]
              /\ wrong' = [wrong EXCEPT ![u] = 0]
        /\ Release(c)
        /\ UNCHANGED <<requireRedis, credentials, call, loggedOut, gone, fence>>

\* The ACCOUNT_LOCK_MINUTES pass.  The counter stays where it is.
LockExpires(u) ==
    /\ account[u] # None /\ account[u].locked
    /\ account' = [account EXCEPT ![u].locked = FALSE]
    /\ wrong' = [wrong EXCEPT ![u] = 0]
    /\ UNCHANGED <<requireRedis, rowLock, credentials, pc, call, loggedOut, gone,
                   fence, failures>>

-----------------------------------------------------------------------------
(* get_current_tenant_user                                                 *)

\* (The token may expire before it is checked.)
StartRequest(c, token, op, target) ==
    /\ Goto(c, "idle", "token")
    /\ call' = [call EXCEPT ![c] = [op |-> op, token |-> token, target |-> target]]
    /\ fence' = [fence EXCEPT ![c] = [loggedOut |-> token \in loggedOut,
                                      gone |-> token.user \in gone]]
    /\ UNCHANGED <<requireRedis, account, rowLock, credentials, wrong, loggedOut, gone,
                   failures>>

\* jwt.decode, then EXISTS revoked_token:<hash>.
CheckToken(c) ==
    /\ Goto(c, "token", IF call[c].token \in tokens \ revoked THEN "row" ELSE "refused")
    /\ UNCHANGED <<requireRedis, account, rowLock, credentials, call, observers, failures>>

\* Mutant: an error reads as "not revoked".
CheckTokenFailsOpen(c) ==
    /\ Goto(c, "token", "row")
    /\ Fail
    /\ UNCHANGED <<requireRedis, account, rowLock, credentials, call, observers>>

\* is_token_revoked answers an error with REQUIRE_REDIS.
CheckTokenFails(c) ==
    /\ Goto(c, "token", IF requireRedis THEN "refused" ELSE "row")
    /\ Fail
    /\ UNCHANGED <<requireRedis, account, rowLock, credentials, call, observers>>

\* Mutant: the row is not looked up, the token is believed.
CheckRowSkipped(c) ==
    /\ Goto(c, "row", "act")
    /\ UNCHANGED <<requireRedis, account, rowLock, credentials, call, observers, failures>>

\* is_active_tenant_user: the row is there and has the role of the token.
CheckRow(c) ==
    LET current == account[Subject(c)]
    IN  /\ pc[c] = "row"
        /\ Goto(c, "row", IF current # None /\ current.role = call[c].token.role
                          THEN "act" ELSE "refused")
        /\ UNCHANGED <<requireRedis, account, rowLock, credentials, call, observers, failures>>

CheckRowFails(c) ==
    /\ Goto(c, "row", "failed")
    /\ Fail
    /\ UNCHANGED <<requireRedis, account, rowLock, credentials, call, observers>>

-----------------------------------------------------------------------------
(* The handlers behind it.                                                 *)

Acting(c, op) == pc[c] = "act" /\ call[c].op = op
Admin(c) == call[c].token.role = "admin"

Use(c) ==
    /\ Acting(c, "use")
    /\ Goto(c, "act", "done")
    /\ UNCHANGED <<requireRedis, account, rowLock, credentials, call, observers, failures>>

\* Mutant: the key in Redis names the user, not the token.
LogoutUser(c) ==
    /\ Acting(c, "logout")
    /\ Goto(c, "act", "done")
    /\ revoked' = revoked \cup {Subject(c)}
    /\ loggedOut' = loggedOut \cup {call[c].token}
    /\ UNCHANGED <<requireRedis, account, rowLock, tokens, waning, call, wrong, gone,
                   fence, failures>>

\* revoke_access_token decodes the token once more.
Logout(c) ==
    /\ Acting(c, "logout")
    /\ IF call[c].token \in tokens
       THEN /\ Goto(c, "act", "done")
            /\ revoked' = revoked \cup {call[c].token}
            /\ loggedOut' = loggedOut \cup {call[c].token}
       ELSE Goto(c, "act", "failed") /\ UNCHANGED <<revoked, loggedOut>>
    /\ UNCHANGED <<requireRedis, account, rowLock, tokens, waning, call, wrong, gone,
                   fence, failures>>

\* Where Redis is not required, the client is told "logged_out" all the same.
LogoutFails(c) ==
    /\ Acting(c, "logout")
    /\ Fail
    /\ Goto(c, "act", IF requireRedis THEN "failed" ELSE "done")
    /\ revoked' \in {revoked, revoked \cup {call[c].token}}
    /\ loggedOut' = IF requireRedis THEN loggedOut ELSE loggedOut \cup {call[c].token}
    /\ UNCHANGED <<requireRedis, account, rowLock, tokens, waning, call, wrong, gone, fence>>

\* delete_tenant_user_endpoint: administrators, and never oneself.  The DELETE
\* waits for a login that holds the row.
MayDelete(c) == Admin(c) /\ Target(c) # Subject(c)

Delete(c) ==
    LET u == Target(c)
        found == MayDelete(c) /\ account[u] # None
    IN  /\ Acting(c, "delete")
        /\ MayDelete(c) => rowLock[u] = None
        /\ Goto(c, "act", IF found THEN "done" ELSE "refused")
        /\ account' = IF found THEN [account EXCEPT ![u] = None] ELSE account
        /\ gone' = IF found THEN gone \cup {u} ELSE gone
        /\ UNCHANGED <<requireRedis, rowLock, credentials, call, wrong, loggedOut, fence,
                       failures>>

\* delete_tenant_user swallows the error: a 404, whatever became of the row.
DeleteFails(c) ==
    LET u == Target(c)
    IN  /\ Acting(c, "delete")
        /\ MayDelete(c) /\ rowLock[u] = None
        /\ Fail
        /\ Goto(c, "act", "refused")
        /\ account' \in {account, [account EXCEPT ![u] = None]}
        /\ UNCHANGED <<requireRedis, rowLock, credentials, call, observers>>

\* What was deleted is there again: later calls may act for it.
Create(u) ==
    /\ \E role \in Roles : account' = [account EXCEPT ![u] = NewAccount(role)]
    /\ wrong' = [wrong EXCEPT ![u] = 0]
    /\ gone' = gone \ {u}
    /\ fence' = [d \in Calls |-> IF Subject(d) = u
                                 THEN [fence[d] EXCEPT !.gone = FALSE] ELSE fence[d]]

\* create_tenant_user: INSERT ... ON CONFLICT DO NOTHING.
Provision(c) ==
    LET u == Target(c)
    IN  /\ Acting(c, "provision")
        /\ IF Admin(c) /\ account[u] = None
           THEN Goto(c, "act", "done") /\ Create(u)
           ELSE Goto(c, "act", "refused") /\ UNCHANGED <<account, wrong, gone, fence>>
        /\ UNCHANGED <<requireRedis, rowLock, credentials, call, loggedOut, failures>>

ProvisionFails(c) ==
    LET u == Target(c)
    IN  /\ Acting(c, "provision")
        /\ Admin(c)
        /\ Fail
        /\ Goto(c, "act", "failed")
        /\ \/ account[u] = None /\ Create(u)
           \/ UNCHANGED <<account, wrong, gone, fence>>
        /\ UNCHANGED <<requireRedis, rowLock, credentials, call, loggedOut>>

-----------------------------------------------------------------------------
(* Time and crashes.                                                       *)

TokenWanes(token) ==
    /\ token \in tokens \ waning
    /\ waning' = waning \cup {token}
    /\ UNCHANGED <<requireRedis, account, rowLock, tokens, revoked, pc, call, observers,
                   failures>>

TokenExpires(token) ==
    /\ token \in waning
    /\ tokens' = tokens \ {token}
    /\ waning' = waning \ {token}
    /\ UNCHANGED <<requireRedis, account, rowLock, revoked, pc, call, observers, failures>>

\* max(1, int(expires_at - now)) seconds: never longer than the token lives, and
\* up to two seconds less, the whole seconds of exp and of its check included.
RevocationEnds(token) ==
    /\ token \in revoked
    /\ token \in tokens => token \in waning
    /\ revoked' = revoked \ {token}
    /\ UNCHANGED <<requireRedis, account, rowLock, tokens, waning, pc, call, observers,
                   failures>>

\* A process dies; PostgreSQL rolls an open login back.
Crash(c) ==
    /\ pc[c] \notin Ended \cup {"idle"}
    /\ pc' = [pc EXCEPT ![c] = "failed"]
    /\ Fail
    /\ Release(c)
    /\ UNCHANGED <<requireRedis, account, credentials, call, observers>>

Start(c) ==
    \/ \E u \in Users : StartLogin(c, u)
    \/ \E token \in tokens :
           \/ \E op \in {"use", "logout"} : StartRequest(c, token, op, token.user)
           \/ \E op \in {"delete", "provision"}, u \in Users : StartRequest(c, token, op, u)

Step(c) ==
    \/ SelectForUpdate(c) \/ WrongPassword(c) \/ RightPassword(c)
    \/ CheckToken(c) \/ CheckRow(c) \/ Use(c) \/ Logout(c) \/ Delete(c) \/ Provision(c)

StepFails(c) ==
    \/ LoginFails(c) \/ CheckTokenFails(c) \/ CheckRowFails(c)
    \/ LogoutFails(c) \/ DeleteFails(c) \/ ProvisionFails(c) \/ Crash(c)

Next ==
    \/ \E c \in Calls : Start(c) \/ Step(c) \/ StepFails(c)
    \/ \E u \in Users : LockExpires(u)
    \/ \E token \in tokens : TokenWanes(token) \/ TokenExpires(token)
    \/ \E token \in revoked : RevocationEnds(token)

Spec == Init /\ [][Next]_vars

-----------------------------------------------------------------------------
(* Properties                                                              *)

\* However many logins of one user run at a time, at most MaxAttempts wrong
\* passwords get an answer before the account is locked and the lock has run out.
GuessesBounded == \A u \in Users : wrong[u] <= MaxAttempts

\* A lock ends with its time, never by a login: not even by one with the right
\* password that had started before the account was locked.
LockOutlastsStep ==
    \A u \in Users :
        /\ account[u] # None /\ account[u].locked
        /\ account'[u] # None /\ ~account'[u].locked
        => pc' = pc

LockOutlasts == [][LockOutlastsStep]_vars

\* A request that starts after the logout of its token was acknowledged is not
\* served, on any replica, until the token is about to expire: where Redis is
\* required even if Redis calls fail, and otherwise if none does.
RefusedAfterLogout ==
    \A c \in Calls :
        /\ pc[c] = "act" /\ fence[c].loggedOut
        /\ requireRedis \/ failures = 0
        => call[c].token \notin tokens \ waning

\* A request that starts after the deletion of its user was acknowledged is not
\* served, its token notwithstanding, unless the user is provisioned again.
RefusedAfterDeletion ==
    \A c \in Calls : pc[c] = "act" => ~fence[c].gone
=============================================================================
