--------------------------- MODULE AccountsProofs ---------------------------
(***************************************************************************)
(* Proofs about Accounts: the lock of an account bounds the guesses at its *)
(* password, and requests are refused after a logout and after a deletion. *)
(***************************************************************************)
EXTENDS Accounts, TLAPS

-----------------------------------------------------------------------------
(* The inductive invariant.                                                *)

Logins == [op : {"login"}, token : {NoToken}, target : Users]
Requests == [op : Operations, token : Token, target : Users]

\* What a call does goes with where it is.
Shape ==
    \A c \in Calls :
        /\ pc[c] = "idle" => call[c] = NoCall
        /\ pc[c] \in {"select", "verify"} => call[c] \in Logins
        /\ pc[c] \in {"token", "row", "act"} => call[c] \in Requests

\* A login that verifies a password has its user's row, which is not locked, and keeps
\* every other login and every deletion away from it.
Rows ==
    \A c \in Calls : pc[c] = "verify" =>
        rowLock[Target(c)] = c /\ Admissible(Target(c))

\* The counter of an account is ahead of the answers given since the lock ran out,
\* and locks the account in time; after a lock it stays high, and one answer locks.
Guesses ==
    \A u \in Users :
        /\ wrong[u] <= MaxAttempts
        /\ Admissible(u) =>
              \/ wrong[u] = 0
              \/ wrong[u] <= account[u].attempts /\ account[u].attempts < MaxAttempts

\* A token is issued once, by a login that is over.
Issued ==
    /\ \A token \in tokens \cup loggedOut : pc[token.id] = "done"
    /\ \A c \in Calls : call[c] \in Requests => pc[call[c].token.id] = "done"

\* As long as every revocation is written and read: a token that was logged out stays
\* revoked until it is about to expire, and a request that passed was not logged out.
Revocations ==
    requireRedis \/ failures = 0 =>
        /\ loggedOut \cap (tokens \ waning) \subseteq revoked
        /\ \A c \in Calls : call[c] \in Requests /\ fence[c].loggedOut =>
              /\ call[c].token \in loggedOut
              /\ pc[c] \in {"row", "act"} => call[c].token \notin tokens \ waning

\* A user who is gone has no row until he is provisioned again.
Deletions ==
    /\ \A u \in gone : account[u] = None
    /\ \A c \in Calls : fence[c].gone => call[c] \in Requests /\ account[Subject(c)] = None
    /\ RefusedAfterDeletion

IInv == TypeOK /\ Shape /\ Rows /\ Guesses /\ Issued /\ Revocations /\ Deletions

-----------------------------------------------------------------------------
(* Types.                                                                  *)

\* The kinds of calls, and the records they are made of, are distinct.
LEMMA CallKinds ==
    /\ NoToken \notin Token
    /\ \A r \in Requests : r.token \in Token /\ r.target \in Users /\ r.op \in Operations
    /\ \A r \in Logins : r.target \in Users /\ r.token = NoToken
    /\ Requests \cap Logins = {} /\ NoCall \notin Requests
    /\ Requests \cup Logins = Call
BY CallsAssumption DEF NoToken, Token, Requests, Logins, NoCall, Call, Operations

LEMMA AccountType ==
    /\ \A role \in Roles : NewAccount(role) \in Account
    /\ \A a \in Account :
          /\ CountAttempt(a) \in Account
          /\ CountAttempt(a).attempts = a.attempts + 1
          /\ CountAttempt(a).locked <=> a.locked \/ a.attempts + 1 >= MaxAttempts
<1>1. \A role \in Roles : NewAccount(role) \in Account
  BY DEF NewAccount, Account
<1>2. ASSUME NEW a \in Account
      PROVE  /\ CountAttempt(a) \in Account
             /\ CountAttempt(a).attempts = a.attempts + 1
             /\ CountAttempt(a).locked <=> a.locked \/ a.attempts + 1 >= MaxAttempts
  <2> DEFINE n == a.attempts + 1
             l == a.locked \/ n >= MaxAttempts
  <2>1. /\ a = [role |-> a.role, attempts |-> a.attempts, locked |-> a.locked]
        /\ a.role \in Roles /\ n \in Nat
    BY DEF Account
  <2>2. l \in BOOLEAN
    OBVIOUS
  <2>3. CountAttempt(a) = [role |-> a.role, attempts |-> n, locked |-> l]
    <3>1. CountAttempt(a) = [a EXCEPT !.attempts = n, !.locked = l]
      BY Zenon DEF CountAttempt
    <3> HIDE DEF n, l
    <3>2. QED
      BY <2>1, <3>1
  <2> HIDE DEF n, l
  <2>4. CountAttempt(a) \in Account /\ CountAttempt(a).attempts = n /\ CountAttempt(a).locked = l
    BY <2>1, <2>2, <2>3 DEF Account
  <2>5. QED
    BY <2>4 DEF n, l
<1>3. QED
  BY <1>1, <1>2

LEMMA StartTypeOK == ASSUME IInv, NEW c \in Calls, Start(c) PROVE TypeOK'
<1> USE DEF IInv, TypeOK, Goto, credentials, observers
<1>1. ASSUME NEW u \in Users, StartLogin(c, u) PROVE TypeOK'
  BY <1>1 DEF StartLogin, Call
<1>2. ASSUME NEW token \in tokens, NEW op \in Operations, NEW u \in Users,
             StartRequest(c, token, op, u)
      PROVE  TypeOK'
  <2>1. call' \in [Calls -> Call \cup {NoCall}]
    BY <1>2 DEF StartRequest, Call
  <2>2. fence' \in [Calls -> [loggedOut : BOOLEAN, gone : BOOLEAN]]
    BY <1>2 DEF StartRequest
  <2>3. QED
    BY <1>2, <2>1, <2>2 DEF StartRequest
<1>3. \A token \in tokens : token.user \in Users
  BY DEF Token
<1>4. QED
  BY <1>1, <1>2, <1>3 DEF Start, Operations

LEMMA StepTypeOK == ASSUME IInv, NEW c \in Calls, Step(c) PROVE TypeOK'
<1> USE DEF IInv, TypeOK, Goto, credentials, observers, Ended, Release
<1>1. CASE SelectForUpdate(c)
  BY <1>1 DEF SelectForUpdate
<1>2. CASE WrongPassword(c)
  <2>1. Target(c) \in Users
    BY <1>2, CallKinds DEF Shape, WrongPassword, Target
  <2>2. account' \in [Users -> Account \cup {None}] /\ wrong' \in [Users -> Nat]
    BY <1>2, <2>1, AccountType DEF WrongPassword
  <2>3. QED
    BY <1>2, <2>2 DEF WrongPassword
<1>3. CASE RightPassword(c)
  <2>1. Target(c) \in Users /\ account[Target(c)] \in Account
    BY <1>3, CallKinds DEF Shape, RightPassword, Target
  <2>2. account' \in [Users -> Account \cup {None}] /\ wrong' \in [Users -> Nat]
    BY <1>3, <2>1, AccountType DEF RightPassword, Account
  <2>3. [id |-> c, user |-> Target(c), role |-> account[Target(c)].role] \in Token
    BY <2>1 DEF Token, Account
  <2>4. tokens' \subseteq Token /\ waning' \subseteq tokens'
    BY <1>3, <2>3 DEF RightPassword
  <2>5. QED
    BY <1>3, <2>2, <2>4 DEF RightPassword
<1>4. CASE CheckToken(c) \/ CheckRow(c) \/ Use(c)
  BY <1>4 DEF CheckToken, CheckRow, Use
<1>5. CASE Logout(c)
  <2>1. call[c].token \in Token
    BY <1>5, CallKinds DEF Logout, Acting, Shape
  <2>2. QED
    BY <1>5, <2>1 DEF Logout
<1>6. CASE Delete(c)
  <2>1. Target(c) \in Users
    BY <1>6, CallKinds DEF Delete, Acting, Shape, Target
  <2>2. QED
    BY <1>6, <2>1 DEF Delete
<1>7. CASE Provision(c)
  <2>1. Target(c) \in Users
    BY <1>7, CallKinds DEF Provision, Acting, Shape, Target
  <2>2. account' \in [Users -> Account \cup {None}] /\ wrong' \in [Users -> Nat]
    BY <1>7, <2>1, AccountType DEF Provision, Create
  <2>3. gone' \subseteq Users
    BY <1>7 DEF Provision, Create
  <2>4. fence' \in [Calls -> [loggedOut : BOOLEAN, gone : BOOLEAN]]
    <3>1. \A d \in Calls : [fence[d] EXCEPT !.gone = FALSE] \in [loggedOut : BOOLEAN, gone : BOOLEAN]
      OBVIOUS
    <3>2. QED
      BY <1>7, <3>1 DEF Provision, Create
  <2>5. QED
    BY <1>7, <2>2, <2>3, <2>4 DEF Provision, Create
<1>8. QED
  BY <1>1, <1>2, <1>3, <1>4, <1>5, <1>6, <1>7 DEF Step

LEMMA FailureTypeOK == ASSUME IInv, NEW c \in Calls, StepFails(c) PROVE TypeOK'
<1> USE DEF IInv, TypeOK, Goto, credentials, observers, Ended, Release
<1>1. Fail => failures' \in 0..MaxFailures
  BY AttemptsAssumption DEF Fail
<1>2. CASE LoginFails(c)
  <2>1. Target(c) \in Users
    BY <1>2, CallKinds DEF Shape, LoginFails, Target
  <2>2. account' \in [Users -> Account \cup {None}]
    BY <1>2, <2>1, AccountType DEF LoginFails, Account
  <2>3. wrong' \in [Users -> Nat]
    BY <1>2, <2>1 DEF LoginFails
  <2>4. QED
    BY <1>1, <1>2, <2>2, <2>3 DEF LoginFails
<1>3. CASE CheckTokenFails(c) \/ CheckRowFails(c) \/ Crash(c)
  BY <1>1, <1>3 DEF CheckTokenFails, CheckRowFails, Crash
<1>4. CASE LogoutFails(c)
  <2>1. call[c].token \in Token
    BY <1>4, CallKinds DEF LogoutFails, Acting, Shape
  <2>2. QED
    BY <1>1, <1>4, <2>1 DEF LogoutFails
<1>5. CASE DeleteFails(c)
  <2>1. account' \in [Users -> Account \cup {None}]
    BY <1>5 DEF DeleteFails
  <2>2. QED
    BY <1>1, <1>5, <2>1 DEF DeleteFails
<1>6. CASE ProvisionFails(c)
  <2>1. Target(c) \in Users
    BY <1>6, CallKinds DEF ProvisionFails, Acting, Shape, Target
  <2>2. account' \in [Users -> Account \cup {None}] /\ wrong' \in [Users -> Nat]
    BY <1>6, <2>1, AccountType DEF ProvisionFails, Create
  <2>3. gone' \subseteq Users
    BY <1>6 DEF ProvisionFails, Create
  <2>4. fence' \in [Calls -> [loggedOut : BOOLEAN, gone : BOOLEAN]]
    <3>1. \A d \in Calls : [fence[d] EXCEPT !.gone = FALSE] \in [loggedOut : BOOLEAN, gone : BOOLEAN]
      OBVIOUS
    <3>2. QED
      BY <1>6, <3>1 DEF ProvisionFails, Create
  <2>5. QED
    BY <1>1, <1>6, <2>2, <2>3, <2>4 DEF ProvisionFails, Create
<1>7. QED
  BY <1>2, <1>3, <1>4, <1>5, <1>6 DEF StepFails

\* Time passes for accounts and tokens.
Time ==
    \/ \E u \in Users : LockExpires(u)
    \/ \E token \in tokens : TokenWanes(token) \/ TokenExpires(token)
    \/ \E token \in revoked : RevocationEnds(token)

LEMMA TimeTypeOK == ASSUME IInv, Time PROVE TypeOK'
<1> USE DEF IInv, TypeOK, credentials, observers
<1>1. ASSUME NEW u \in Users, LockExpires(u) PROVE TypeOK'
  <2>1. account' \in [Users -> Account \cup {None}]
    BY <1>1, ZenonT(60) DEF LockExpires, Account
  <2>2. QED
    BY <1>1, <2>1 DEF LockExpires
<1>2. QED
  BY <1>1 DEF Time, TokenWanes, TokenExpires, RevocationEnds

LEMMA NextTypeOK == IInv /\ [Next]_vars => TypeOK'
<1>1. IInv /\ UNCHANGED vars => TypeOK'
  BY DEF IInv, TypeOK, vars
<1>2. QED
  BY <1>1, StartTypeOK, StepTypeOK, FailureTypeOK, TimeTypeOK DEF Next, Time

-----------------------------------------------------------------------------
(* Logins, rows and locks.                                                 *)

LEMMA NextShape == ASSUME IInv, [Next]_vars PROVE Shape'
<1>1. TypeOK /\ TypeOK' /\ Shape
  BY NextTypeOK DEF IInv
<1>2. /\ \A c \in Calls : call[c] \in Logins => call[c] \notin Requests
      /\ \A u \in Users : [op |-> "login", token |-> NoToken, target |-> u] \in Logins
      /\ \A op \in Operations, token \in Token, u \in Users :
            [op |-> op, token |-> token, target |-> u] \in Requests
  BY CallKinds DEF Logins, Requests
<1> USE DEF TypeOK, Shape, Goto, credentials, observers, Ended
\* A call that has started is what it was.
<1>3. ASSUME NEW c \in Calls, call' = call, \A d \in Calls \ {c} : pc'[d] = pc[d],
             \/ pc'[c] \in Ended
             \/ pc[c] = "select" /\ pc'[c] = "verify"
             \/ pc[c] \in {"token", "row"} /\ pc'[c] \in {"row", "act"}
      PROVE  Shape'
  BY <1>1, <1>3
<1>4. CASE UNCHANGED vars
  BY <1>1, <1>4 DEF vars
<1>5. ASSUME NEW c \in Calls, NEW u \in Users, StartLogin(c, u) PROVE Shape'
  BY <1>1, <1>2, <1>5 DEF StartLogin
<1>6. ASSUME NEW c \in Calls, NEW token \in tokens, NEW op \in Operations, NEW u \in Users,
             StartRequest(c, token, op, u)
      PROVE  Shape'
  BY <1>1, <1>2, <1>6 DEF StartRequest
<1>7. ASSUME NEW c \in Calls, Start(c) PROVE Shape'
  BY <1>1, <1>5, <1>6, <1>7 DEF Start, Operations, Token
<1>8. ASSUME NEW c \in Calls, Step(c) PROVE Shape'
  BY <1>1, <1>3, <1>8
  DEF Step, SelectForUpdate, WrongPassword, RightPassword, CheckToken, CheckRow, Use, Logout,
      Delete, Provision, Create
<1>9. ASSUME NEW c \in Calls, StepFails(c) PROVE Shape'
  BY <1>1, <1>3, <1>9
  DEF StepFails, LoginFails, CheckTokenFails, CheckRowFails, LogoutFails, DeleteFails,
      ProvisionFails, Create, Crash
<1>10. CASE Time
  BY <1>1, <1>10 DEF Time, LockExpires, TokenWanes, TokenExpires, RevocationEnds
<1>11. QED
  BY <1>4, <1>7, <1>8, <1>9, <1>10 DEF Next, Time

\* A login holds one row, and lets go of it when it ends.
LEMMA Releases ==
    ASSUME TypeOK, NEW c \in Calls, Release(c), NEW u \in Users
    PROVE  rowLock'[u] = IF rowLock[u] = c THEN None ELSE rowLock[u]
BY DEF Release

LEMMA NextRows == ASSUME IInv, [Next]_vars PROVE Rows'
<1>1. TypeOK /\ TypeOK' /\ Shape /\ Rows
  BY NextTypeOK DEF IInv
<1>2. \A c \in Calls : pc[c] \in {"select", "verify"} => Target(c) \in Users
  BY <1>1, CallKinds DEF Shape, Target
<1>3. \A c \in Calls : pc[c] \in {"token", "row", "act"} => Target(c) \in Users
  BY <1>1, CallKinds DEF Shape, Target
<1> USE DEF TypeOK, Goto, credentials, observers, Ended
\* Rows that logins hold are changed by their logins only.
<1>4. ASSUME NEW c \in Calls, pc'[c] # "verify",
             \A d \in Calls \ {c} : pc'[d] = pc[d] /\ call'[d] = call[d],
             \A u \in Users : rowLock[u] = c \/ rowLock'[u] = rowLock[u],
             \A u \in Users : account'[u] = account[u] \/ rowLock[u] = c \/ rowLock[u] = None
      PROVE  Rows'
  BY <1>1, <1>2, <1>4, CallsAssumption DEF Rows, Admissible, Target
<1>5. CASE UNCHANGED vars
  BY <1>1, <1>5 DEF vars, Rows, Admissible, Target
<1>6. ASSUME NEW c \in Calls, Start(c) PROVE Rows'
  BY <1>1, <1>4, <1>6 DEF Start, StartLogin, StartRequest
<1>7. ASSUME NEW c \in Calls, SelectForUpdate(c) PROVE Rows'
  <2>1. /\ Target(c) \in Users /\ rowLock[Target(c)] = None
        /\ UNCHANGED <<account, call>> /\ \A d \in Calls \ {c} : pc'[d] = pc[d]
        /\ \A u \in Users \ {Target(c)} : rowLock'[u] = rowLock[u]
        /\ pc'[c] = "verify" => Admissible(Target(c)) /\ rowLock'[Target(c)] = c
    BY <1>1, <1>2, <1>7 DEF SelectForUpdate
  <2>2. QED
    BY <1>1, <1>2, <2>1, CallsAssumption DEF Rows, Admissible, Target
<1>8. ASSUME NEW c \in Calls, WrongPassword(c) \/ RightPassword(c) \/ LoginFails(c) PROVE Rows'
  <2>1. pc[c] \in {"select", "verify"} /\ Release(c) /\ call' = call
    BY <1>8 DEF WrongPassword, RightPassword, LoginFails
  <2>2. pc'[c] # "verify" /\ \A d \in Calls \ {c} : pc'[d] = pc[d]
    BY <1>1, <1>8 DEF WrongPassword, RightPassword, LoginFails
  <2>3. \/ account' = account
        \/ pc[c] = "verify" /\ \A u \in Users \ {Target(c)} : account'[u] = account[u]
    BY <1>1, <1>8 DEF WrongPassword, RightPassword, LoginFails
  <2>4. pc[c] = "verify" => rowLock[Target(c)] = c
    BY <1>1 DEF Rows
  <2>5. QED
    BY <1>1, <1>4, <2>1, <2>2, <2>3, <2>4, Releases
<1>9. ASSUME NEW c \in Calls,
             CheckToken(c) \/ CheckRow(c) \/ Use(c) \/ Logout(c) \/ CheckTokenFails(c)
               \/ CheckRowFails(c) \/ LogoutFails(c)
      PROVE  Rows'
  BY <1>1, <1>4, <1>9
  DEF CheckToken, CheckRow, Use, Logout, CheckTokenFails, CheckRowFails, LogoutFails
<1>10. ASSUME NEW c \in Calls, Delete(c) \/ DeleteFails(c) PROVE Rows'
  BY <1>1, <1>3, <1>4, <1>10 DEF Delete, DeleteFails, Acting
<1>11. ASSUME NEW c \in Calls, Provision(c) \/ ProvisionFails(c) PROVE Rows'
  <2>1. /\ pc'[c] # "verify" /\ UNCHANGED <<rowLock, call>>
        /\ \A d \in Calls \ {c} : pc'[d] = pc[d]
        /\ \A u \in Users : account'[u] = account[u] \/ account[u] = None
    BY <1>1, <1>3, <1>11 DEF Provision, ProvisionFails, Create, Acting
  <2>2. QED
    BY <1>1, <1>2, <2>1 DEF Rows, Admissible, Target
<1>12. ASSUME NEW c \in Calls, Crash(c) PROVE Rows'
  BY <1>1, <1>4, <1>12, Releases DEF Crash
<1>13. ASSUME NEW u \in Users, LockExpires(u) PROVE Rows'
  <2>1. UNCHANGED <<pc, call, rowLock>>
    BY <1>13 DEF LockExpires
  <2>2. \A v \in Users : Admissible(v) => account'[v] = account[v]
    BY <1>1, <1>13 DEF LockExpires, Admissible
  <2>3. QED
    BY <1>1, <1>2, <2>1, <2>2 DEF Rows, Admissible, Target
<1>14. CASE Time
  <2>1. ASSUME NEW token, TokenWanes(token) \/ TokenExpires(token) \/ RevocationEnds(token)
        PROVE  Rows'
    BY <1>1, <2>1 DEF TokenWanes, TokenExpires, RevocationEnds, Rows, Admissible, Target
  <2>2. QED
    BY <1>13, <1>14, <2>1 DEF Time
<1>15. QED
  BY <1>5, <1>6, <1>7, <1>8, <1>9, <1>10, <1>11, <1>12, <1>14 DEF Next, Step, StepFails, Time

LEMMA NextGuesses == ASSUME IInv, [Next]_vars PROVE Guesses'
<1>1. TypeOK /\ TypeOK' /\ Shape /\ Rows /\ Guesses
  BY NextTypeOK DEF IInv
<1>2. \A c \in Calls : pc[c] = "verify" => Target(c) \in Users /\ Admissible(Target(c))
  BY <1>1, CallKinds DEF Shape, Target, Rows
<1>3. MaxAttempts \in Nat /\ MaxAttempts > 0
  BY AttemptsAssumption
<1> DEFINE Good(u) == /\ wrong[u] <= MaxAttempts
                      /\ Admissible(u) => \/ wrong[u] = 0
                                          \/ /\ wrong[u] <= account[u].attempts
                                             /\ account[u].attempts < MaxAttempts
<1>4. (\A u \in Users : Good(u)) /\ ((\A u \in Users : Good(u)') => Guesses')
  BY <1>1 DEF Guesses
\* An account that is unchanged, deleted or reset stays within its guesses.
<1>5. ASSUME NEW u \in Users,
             \/ wrong'[u] = wrong[u] /\ (account'[u] = account[u] \/ account'[u] = None)
             \/ wrong'[u] = 0
      PROVE  Good(u)'
  BY <1>3, <1>4, <1>5 DEF Admissible
\* An attempt is counted.
<1>6. ASSUME NEW u \in Users, Admissible(u), account'[u] = CountAttempt(account[u]),
             wrong'[u] = wrong[u] \/ wrong'[u] = wrong[u] + 1
      PROVE  Good(u)'
  <2>1. account[u] \in Account /\ wrong[u] \in Nat /\ account[u].attempts \in Nat
    BY <1>1, <1>6 DEF TypeOK, Admissible, Account
  <2>2. /\ account'[u].attempts = account[u].attempts + 1
        /\ account'[u].locked <=> account[u].attempts + 1 >= MaxAttempts
    BY <1>6, <2>1, AccountType DEF Admissible
  <2>3. wrong'[u] <= MaxAttempts
    BY <1>3, <1>4, <1>6, <2>1
  <2>4. Admissible(u)' => \/ wrong'[u] = 0
                          \/ /\ wrong'[u] <= account'[u].attempts
                             /\ account'[u].attempts < MaxAttempts
    BY <1>3, <1>4, <1>6, <2>1, <2>2 DEF Admissible
  <2>5. QED
    BY <2>3, <2>4
<1> HIDE DEF Good
<1> USE DEF TypeOK, Goto, credentials, observers
<1>7. CASE UNCHANGED vars
  BY <1>4, <1>5, <1>7 DEF vars
<1>8. ASSUME NEW c \in Calls, Start(c) PROVE Guesses'
  BY <1>4, <1>5, <1>8 DEF Start, StartLogin, StartRequest
<1>9. ASSUME NEW c \in Calls, WrongPassword(c) PROVE Guesses'
  <2> DEFINE v == Target(c)
  <2>1. v \in Users /\ Admissible(v)
    BY <1>2, <1>9 DEF WrongPassword
  <2>2. account'[v] = CountAttempt(account[v]) /\ wrong'[v] = wrong[v] + 1
    BY <1>1, <1>9, <2>1 DEF WrongPassword, Admissible
  <2>3. \A u \in Users \ {v} : account'[u] = account[u] /\ wrong'[u] = wrong[u]
    BY <1>1, <1>9 DEF WrongPassword
  <2>4. QED
    BY <1>4, <1>5, <1>6, <2>1, <2>2, <2>3
<1>10. ASSUME NEW c \in Calls, RightPassword(c) PROVE Guesses'
  <2>1. \A u \in Users : wrong'[u] = 0 \/ (account'[u] = account[u] /\ wrong'[u] = wrong[u])
    BY <1>1, <1>10 DEF RightPassword
  <2>2. QED
    BY <1>4, <1>5, <2>1
<1>11. ASSUME NEW c \in Calls, LoginFails(c) PROVE Guesses'
  <2> DEFINE v == Target(c)
  <2>1. pc[c] = "verify" => v \in Users /\ Admissible(v)
    BY <1>2
  <2>2. \/ UNCHANGED <<account, wrong>>
        \/ /\ pc[c] = "verify"
           /\ account' = [account EXCEPT ![v] = CountAttempt(@)] /\ wrong' = wrong
        \/ /\ pc[c] = "verify"
           /\ account' = [account EXCEPT ![v] = NewAccount(@.role)]
           /\ wrong' = [wrong EXCEPT ![v] = 0]
    BY <1>11 DEF LoginFails
  <2>3. \A u \in Users \ {v} : account'[u] = account[u] /\ wrong'[u] = wrong[u]
    BY <1>1, <2>2
  <2>4. ASSUME NEW u \in Users, u = v PROVE Good(u)'
    <3>1. CASE UNCHANGED <<account, wrong>>
      BY <1>5, <3>1
    <3>2. CASE pc[c] = "verify" /\ account' = [account EXCEPT ![v] = CountAttempt(@)] /\ wrong' = wrong
      BY <1>1, <1>6, <2>1, <2>4, <3>2
    <3>3. CASE wrong' = [wrong EXCEPT ![v] = 0]
      BY <1>1, <1>5, <2>4, <3>3
    <3>4. QED
      BY <2>2, <3>1, <3>2, <3>3
  <2>5. QED
    BY <1>4, <1>5, <2>3, <2>4
<1>12. ASSUME NEW c \in Calls,
              SelectForUpdate(c) \/ CheckToken(c) \/ CheckRow(c) \/ Use(c) \/ Logout(c)
                \/ CheckTokenFails(c) \/ CheckRowFails(c) \/ LogoutFails(c) \/ Crash(c)
       PROVE  Guesses'
  BY <1>4, <1>5, <1>12
  DEF SelectForUpdate, CheckToken, CheckRow, Use, Logout, CheckTokenFails, CheckRowFails,
      LogoutFails, Crash
<1>13. ASSUME NEW c \in Calls, Delete(c) \/ DeleteFails(c) \/ Provision(c) \/ ProvisionFails(c)
       PROVE  Guesses'
  <2>1. \A u \in Users :
          \/ wrong'[u] = wrong[u] /\ (account'[u] = account[u] \/ account'[u] = None)
          \/ wrong'[u] = 0
    BY <1>1, <1>13 DEF Delete, DeleteFails, Provision, ProvisionFails, Create
  <2>2. QED
    BY <1>4, <1>5, <2>1
<1>14. CASE Time
  <2>1. \A u \in Users :
          \/ wrong'[u] = wrong[u] /\ account'[u] = account[u]
          \/ wrong'[u] = 0
    BY <1>1, <1>14 DEF Time, LockExpires, TokenWanes, TokenExpires, RevocationEnds
  <2>2. QED
    BY <1>4, <1>5, <2>1
<1>15. QED
  BY <1>7, <1>8, <1>9, <1>10, <1>11, <1>12, <1>13, <1>14 DEF Next, Step, StepFails, Time

-----------------------------------------------------------------------------
(* Tokens and deleted users.                                               *)

LEMMA NextIssued == ASSUME IInv, [Next]_vars PROVE Issued'
<1>1. TypeOK /\ TypeOK' /\ Shape /\ Issued
  BY NextTypeOK DEF IInv
<1>2. \A token \in Token : token.id \in Calls
  BY DEF Token
<1>3. \A c \in Calls : call[c] \in Requests => call[c].token \in Token
  BY CallKinds
<1> USE DEF TypeOK, Goto, credentials, observers
\* No call leaves "done", and most steps issue nothing.
<1>4. ASSUME \A c \in Calls : pc[c] = "done" => pc'[c] = "done",
             tokens' \subseteq tokens, call' = call,
             \A token \in loggedOut' \ loggedOut :
                 \E c \in Calls : call[c] \in Requests /\ call[c].token = token
      PROVE  Issued'
  BY <1>1, <1>2, <1>3, <1>4 DEF Issued
<1>5. CASE UNCHANGED vars
  BY <1>4, <1>5 DEF vars
<1>6. ASSUME NEW c \in Calls, NEW u \in Users, StartLogin(c, u) PROVE Issued'
  <2>1. /\ UNCHANGED <<tokens, loggedOut>> /\ call'[c] \in Logins
        /\ \A d \in Calls \ {c} : call'[d] = call[d] /\ pc'[d] = pc[d]
        /\ pc[c] = "idle"
    BY <1>1, <1>6 DEF StartLogin, Logins
  <2>2. QED
    BY <1>1, <1>2, <1>3, <2>1, CallKinds DEF Issued
<1>7. ASSUME NEW c \in Calls, NEW token \in tokens, NEW op, NEW u, StartRequest(c, token, op, u)
      PROVE  Issued'
  <2>1. /\ UNCHANGED <<tokens, loggedOut>> /\ call'[c].token = token
        /\ \A d \in Calls \ {c} : call'[d] = call[d] /\ pc'[d] = pc[d]
        /\ pc[c] = "idle"
    BY <1>1, <1>7 DEF StartRequest
  <2>2. QED
    BY <1>1, <1>2, <1>3, <2>1 DEF Issued
<1>8. ASSUME NEW c \in Calls, RightPassword(c) PROVE Issued'
  <2> DEFINE token == [id |-> c, user |-> Target(c), role |-> account[Target(c)].role]
  <2>1. /\ tokens' = tokens \cup {token} /\ UNCHANGED <<loggedOut, call>>
        /\ pc'[c] = "done" /\ \A d \in Calls \ {c} : pc'[d] = pc[d]
    BY <1>1, <1>8 DEF RightPassword
  <2>2. token.id = c
    OBVIOUS
  <2> HIDE DEF token
  <2>3. QED
    BY <1>1, <1>2, <1>3, <2>1, <2>2 DEF Issued
<1>9. ASSUME NEW c \in Calls, Logout(c) \/ LogoutFails(c) PROVE Issued'
  <2>1. call[c] \in Requests
    BY <1>1, <1>9 DEF Logout, LogoutFails, Acting, Shape
  <2>2. /\ UNCHANGED <<tokens, call>> /\ loggedOut' \subseteq loggedOut \cup {call[c].token}
        /\ pc[c] = "act" /\ \A d \in Calls \ {c} : pc'[d] = pc[d]
    BY <1>1, <1>9 DEF Logout, LogoutFails, Acting
  <2>3. QED
    BY <1>4, <2>1, <2>2
<1>10. ASSUME NEW c \in Calls,
              SelectForUpdate(c) \/ WrongPassword(c) \/ LoginFails(c) \/ CheckToken(c) \/ CheckRow(c)
                \/ CheckTokenFails(c) \/ CheckRowFails(c)
       PROVE  Issued'
  BY <1>1, <1>4, <1>10
  DEF SelectForUpdate, WrongPassword, LoginFails, CheckToken, CheckRow, CheckTokenFails,
      CheckRowFails
<1>11. ASSUME NEW c \in Calls,
              Use(c) \/ Delete(c) \/ DeleteFails(c) \/ Provision(c) \/ ProvisionFails(c) \/ Crash(c)
       PROVE  Issued'
  BY <1>1, <1>4, <1>11
  DEF Use, Delete, DeleteFails, Provision, ProvisionFails, Create, Acting, Crash, Ended
<1>12. CASE Time
  BY <1>1, <1>4, <1>12 DEF Time, LockExpires, TokenWanes, TokenExpires, RevocationEnds
<1>13. QED
  BY <1>5, <1>6, <1>7, <1>8, <1>9, <1>10, <1>11, <1>12 DEF Next, Start, Step, StepFails, Time

LEMMA NextDeletions == ASSUME IInv, [Next]_vars PROVE Deletions'
<1>1. TypeOK /\ TypeOK' /\ Shape /\ Rows /\ Deletions
  BY NextTypeOK DEF IInv
<1>2. \A c \in Calls : pc[c] = "verify" => Target(c) \in Users /\ Admissible(Target(c))
  BY <1>1, CallKinds DEF Shape, Target, Rows
<1>3. \A c \in Calls : call[c] \in Requests => Subject(c) \in Users
  BY CallKinds DEF Subject, Token
<1>4. NoCall \notin Requests /\ Logins \cap Requests = {}
  BY CallKinds
<1> USE DEF TypeOK, Goto, credentials, observers
\* A row that is not there stays away, and who passes has one.
<1>5. ASSUME \A u \in Users : account[u] = None => account'[u] = None,
             \A u \in gone' \ gone : account'[u] = None,
             UNCHANGED <<call, fence>>,
             \A c \in Calls : pc'[c] = "act" => pc[c] = "act" \/ account[Subject(c)] # None
      PROVE  Deletions'
  BY <1>1, <1>3, <1>5 DEF Deletions, Subject, RefusedAfterDeletion
<1>6. CASE UNCHANGED vars
  BY <1>5, <1>6 DEF vars
<1>7. ASSUME NEW c \in Calls, NEW u \in Users, StartLogin(c, u) PROVE Deletions'
  <2>1. /\ UNCHANGED <<account, fence, gone>> /\ pc[c] = "idle" /\ pc'[c] = "select"
        /\ \A d \in Calls \ {c} : call'[d] = call[d] /\ pc'[d] = pc[d]
    BY <1>1, <1>7 DEF StartLogin
  <2>2. ~fence[c].gone
    BY <1>1, <2>1, <1>4 DEF Deletions, Shape
  <2>3. QED
    BY <1>1, <2>1, <2>2 DEF Deletions, Subject, RefusedAfterDeletion
<1>8. ASSUME NEW c \in Calls, NEW token \in tokens, NEW op \in Operations, NEW u \in Users,
             StartRequest(c, token, op, u)
      PROVE  Deletions'
  <2>1. /\ UNCHANGED <<account, gone>> /\ pc[c] = "idle" /\ pc'[c] = "token"
        /\ \A d \in Calls \ {c} : call'[d] = call[d] /\ pc'[d] = pc[d] /\ fence'[d] = fence[d]
        /\ call'[c] \in Requests /\ call'[c].token = token
        /\ fence'[c].gone => token.user \in gone
    BY <1>1, <1>8 DEF StartRequest, Requests
  <2>2. QED
    BY <1>1, <2>1, SMTT(30) DEF Deletions, Subject, RefusedAfterDeletion
<1>9. ASSUME NEW c \in Calls, Start(c) PROVE Deletions'
  BY <1>1, <1>7, <1>8, <1>9 DEF Start, Operations, Token
<1>10. ASSUME NEW c \in Calls, WrongPassword(c) \/ RightPassword(c) \/ LoginFails(c)
       PROVE  Deletions'
  <2>1. \A u \in Users : account[u] = None => account'[u] = None
    BY <1>1, <1>2, <1>10 DEF WrongPassword, RightPassword, LoginFails, Admissible
  <2>2. /\ UNCHANGED <<call, fence, gone>> /\ pc'[c] # "act"
        /\ \A d \in Calls \ {c} : pc'[d] = pc[d]
    BY <1>1, <1>10 DEF WrongPassword, RightPassword, LoginFails
  <2>3. QED
    BY <1>5, <2>1, <2>2
<1>11. ASSUME NEW c \in Calls,
              SelectForUpdate(c) \/ CheckToken(c) \/ CheckTokenFails(c) \/ CheckRow(c)
                \/ CheckRowFails(c)
       PROVE  Deletions'
  BY <1>1, <1>5, <1>11
  DEF SelectForUpdate, CheckToken, CheckTokenFails, CheckRow, CheckRowFails
<1>12. ASSUME NEW c \in Calls, Use(c) \/ Logout(c) \/ LogoutFails(c) \/ Crash(c) PROVE Deletions'
  BY <1>1, <1>5, <1>12 DEF Use, Logout, LogoutFails, Crash
<1>13. ASSUME NEW c \in Calls, Delete(c) \/ DeleteFails(c) PROVE Deletions'
  <2>1. \A u \in Users : account[u] = None => account'[u] = None
    BY <1>1, <1>13 DEF Delete, DeleteFails
  <2>2. \A u \in gone' \ gone : account'[u] = None
    BY <1>1, <1>13 DEF Delete, DeleteFails
  <2>3. UNCHANGED <<call, fence>> /\ pc'[c] # "act" /\ \A d \in Calls \ {c} : pc'[d] = pc[d]
    BY <1>1, <1>13 DEF Delete, DeleteFails
  <2>4. QED
    BY <1>5, <2>1, <2>2, <2>3
<1>14. ASSUME NEW c \in Calls, Provision(c) \/ ProvisionFails(c) PROVE Deletions'
  <2> DEFINE v == Target(c)
  <2>1. call' = call /\ pc'[c] # "act" /\ \A d \in Calls \ {c} : pc'[d] = pc[d]
    BY <1>1, <1>14 DEF Provision, ProvisionFails, Create
  <2>2. CASE UNCHANGED <<account, gone, fence>>
    BY <1>5, <2>1, <2>2
  <2>3. CASE /\ \E role \in Roles : account' = [account EXCEPT ![v] = NewAccount(role)]
             /\ gone' = gone \ {v}
             /\ fence' = [d \in Calls |-> IF Subject(d) = v
                                          THEN [fence[d] EXCEPT !.gone = FALSE]
                                          ELSE fence[d]]
    <3>1. \A u \in Users \ {v} : account'[u] = account[u]
      BY <1>1, <2>3
    <3>2. \A d \in Calls : fence'[d].gone => fence[d].gone /\ Subject(d) # v
      BY <1>1, <2>3
    <3>3. QED
      BY <1>1, <1>3, <2>1, <2>3, <3>1, <3>2 DEF Deletions, Subject, RefusedAfterDeletion
  <2>4. QED
    BY <1>14, <2>2, <2>3 DEF Provision, ProvisionFails, Create
<1>15. CASE Time
  BY <1>1, <1>5, <1>15 DEF Time, LockExpires, TokenWanes, TokenExpires, RevocationEnds
<1>16. QED
  BY <1>6, <1>9, <1>10, <1>11, <1>12, <1>13, <1>14, <1>15 DEF Next, Step, StepFails, Time

LEMMA NextRevocations == ASSUME IInv, [Next]_vars PROVE Revocations'
<1>1. TypeOK /\ TypeOK' /\ Shape /\ Issued /\ Revocations
  BY NextTypeOK DEF IInv
<1>2. \A token \in Token : token.id \in Calls
  BY DEF Token
<1>3. \A c \in Calls : call[c] \in Requests => call[c].token \in Token
  BY CallKinds
<1>4. NoCall \notin Requests /\ Logins \cap Requests = {}
  BY CallKinds
<1> DEFINE Reliable == requireRedis \/ failures = 0
<1>5. failures \in Nat /\ failures' \in Nat /\ (Fail => failures' = failures + 1)
  BY <1>1, AttemptsAssumption DEF TypeOK, Fail
<1> USE DEF TypeOK, Goto, credentials, observers
\* Most steps leave tokens and revocations alone.
<1>6. ASSUME Reliable' => Reliable, tokens' \ waning' \subseteq tokens \ waning,
             loggedOut \cap (tokens' \ waning') \subseteq revoked => 
                 loggedOut' \cap (tokens' \ waning') \subseteq revoked',
             loggedOut \subseteq loggedOut', call' = call,
             \A c \in Calls : fence'[c].loggedOut => fence[c].loggedOut,
             \A c \in Calls :
                 \/ pc'[c] = pc[c]
                 \/ pc'[c] \notin {"row", "act"}
                 \/ pc[c] = "row" /\ pc'[c] = "act"
      PROVE  Revocations'
  BY <1>1, <1>6 DEF Revocations
<1>7. CASE UNCHANGED vars
  BY <1>6, <1>7 DEF vars
<1>8. ASSUME NEW c \in Calls, NEW u \in Users, StartLogin(c, u) PROVE Revocations'
  <2>1. /\ UNCHANGED <<requireRedis, failures, tokens, waning, revoked, loggedOut, fence>>
        /\ call'[c] \in Logins /\ pc'[c] = "select"
        /\ \A d \in Calls \ {c} : call'[d] = call[d] /\ pc'[d] = pc[d]
    BY <1>1, <1>8 DEF StartLogin, Logins
  <2>2. QED
    BY <1>1, <1>4, <2>1 DEF Revocations
<1>9. ASSUME NEW c \in Calls, NEW token \in tokens, NEW op, NEW u, StartRequest(c, token, op, u)
      PROVE  Revocations'
  <2>1. /\ UNCHANGED <<requireRedis, failures, tokens, waning, revoked, loggedOut>>
        /\ call'[c].token = token /\ pc'[c] = "token"
        /\ fence'[c].loggedOut => token \in loggedOut
        /\ \A d \in Calls \ {c} : call'[d] = call[d] /\ pc'[d] = pc[d] /\ fence'[d] = fence[d]
    BY <1>1, <1>9 DEF StartRequest
  <2>2. QED
    BY <1>1, <2>1 DEF Revocations
<1>10. ASSUME NEW c \in Calls, RightPassword(c) PROVE Revocations'
  <2> DEFINE token == [id |-> c, user |-> Target(c), role |-> account[Target(c)].role]
  <2>1. /\ tokens' = tokens \cup {token}
        /\ UNCHANGED <<requireRedis, failures, waning, revoked, loggedOut, fence, call>>
        /\ pc[c] = "verify" /\ pc'[c] = "done" /\ \A d \in Calls \ {c} : pc'[d] = pc[d]
    BY <1>1, <1>10 DEF RightPassword
  <2>2. token.id = c
    OBVIOUS
  <2> HIDE DEF token
  <2>3. token \notin loggedOut /\ \A d \in Calls : call[d] \in Requests => call[d].token # token
    BY <1>1, <2>1, <2>2 DEF Issued
  <2>4. QED
    BY <1>1, <2>1, <2>3 DEF Revocations
<1>11. ASSUME NEW c \in Calls, CheckToken(c) PROVE Revocations'
  <2>1. /\ UNCHANGED <<requireRedis, failures, tokens, waning, revoked, loggedOut, fence, call>>
        /\ \A d \in Calls \ {c} : pc'[d] = pc[d]
        /\ pc[c] = "token" /\ pc'[c] # "act"
        /\ pc'[c] = "row" => call[c].token \notin revoked
    BY <1>1, <1>11 DEF CheckToken
  <2>2. QED
    BY <1>1, <2>1 DEF Revocations
<1>12. ASSUME NEW c \in Calls, CheckTokenFails(c) PROVE Revocations'
  <2>1. /\ UNCHANGED <<requireRedis, tokens, waning, revoked, loggedOut, fence, call>>
        /\ \A d \in Calls \ {c} : pc'[d] = pc[d]
        /\ failures' = failures + 1 /\ pc'[c] # "act"
        /\ requireRedis => pc'[c] = "refused"
    BY <1>1, <1>12 DEF CheckTokenFails, Fail
  <2>2. CASE requireRedis
    BY <1>1, <1>5, <1>6, <2>1, <2>2
  <2>3. CASE ~requireRedis
    BY <1>5, <2>1, <2>3 DEF Revocations
  <2>4. QED
    BY <2>2, <2>3
<1>13. ASSUME NEW c \in Calls, Logout(c) \/ LogoutFails(c) PROVE Revocations'
  <2>1. /\ UNCHANGED <<requireRedis, tokens, waning, fence, call>> /\ pc'[c] \notin {"row", "act"}
        /\ revoked \subseteq revoked' /\ loggedOut \subseteq loggedOut'
        /\ \A d \in Calls \ {c} : pc'[d] = pc[d]
    BY <1>1, <1>13 DEF Logout, LogoutFails
  <2>2. Reliable' => Reliable /\ loggedOut' \ loggedOut \subseteq revoked'
    BY <1>1, <1>5, <1>13 DEF Logout, LogoutFails
  <2>3. QED
    BY <1>6, <2>1, <2>2 DEF Revocations
<1>14. ASSUME NEW c \in Calls,
              SelectForUpdate(c) \/ WrongPassword(c) \/ CheckRow(c) \/ Use(c) \/ Delete(c)
       PROVE  Revocations'
  BY <1>1, <1>6, <1>14 DEF SelectForUpdate, WrongPassword, CheckRow, Use, Delete
<1>15. ASSUME NEW c \in Calls, LoginFails(c) \/ CheckRowFails(c) \/ DeleteFails(c) \/ Crash(c)
       PROVE  Revocations'
  BY <1>1, <1>5, <1>6, <1>15 DEF LoginFails, CheckRowFails, DeleteFails, Crash
<1>16. ASSUME NEW c \in Calls, Provision(c) \/ ProvisionFails(c) PROVE Revocations'
  <2>1. \A d \in Calls : fence'[d].loggedOut => fence[d].loggedOut
    BY <1>1, <1>16 DEF Provision, ProvisionFails, Create
  <2>2. /\ UNCHANGED <<requireRedis, tokens, waning, revoked, loggedOut, call>>
        /\ Reliable' => Reliable
    BY <1>5, <1>16 DEF Provision, ProvisionFails, Create
  <2>3. pc'[c] \notin {"row", "act"} /\ \A d \in Calls \ {c} : pc'[d] = pc[d]
    BY <1>1, <1>16 DEF Provision, ProvisionFails, Create
  <2>4. QED
    BY <1>6, <2>1, <2>2, <2>3
<1>17. CASE Time
  <2>1. UNCHANGED <<requireRedis, failures, loggedOut, pc, call, fence>>
    BY <1>17 DEF Time, LockExpires, TokenWanes, TokenExpires, RevocationEnds
  <2>2. tokens' \ waning' \subseteq tokens \ waning /\ revoked \cap (tokens' \ waning') \subseteq revoked'
    BY <1>1, <1>17 DEF Time, LockExpires, TokenWanes, TokenExpires, RevocationEnds
  <2>3. QED
    BY <1>6, <2>1, <2>2
<1>18. QED
  BY <1>7, <1>8, <1>9, <1>10, <1>11, <1>12, <1>13, <1>14, <1>15, <1>16, <1>17
  DEF Next, Start, Step, StepFails, Time

-----------------------------------------------------------------------------
(* The theorems.                                                           *)

\* No account is locked, no token issued, nobody logged out or gone.
LEMMA InitIInv == Init => IInv
<1> SUFFICES ASSUME Init PROVE IInv
  OBVIOUS
<1> USE DEF Init
<1>1. TypeOK
  <2>1. account \in [Users -> Account \cup {None}]
    BY AccountType
  <2>2. QED
    BY <2>1, AttemptsAssumption DEF TypeOK
<1>2. Shape /\ Rows
  BY DEF Shape, Rows
<1>3. Guesses
  BY AttemptsAssumption DEF Guesses
<1>4. Issued /\ Revocations /\ Deletions
  BY CallKinds DEF Issued, Revocations, Deletions, RefusedAfterDeletion
<1>5. QED
  BY <1>1, <1>2, <1>3, <1>4 DEF IInv

\* The inductive invariant holds always.
THEOREM Invariance == Spec => []IInv
<1>1. Init => IInv
  BY InitIInv
<1>2. IInv /\ [Next]_vars => IInv'
  BY NextTypeOK, NextShape, NextRows, NextGuesses, NextIssued, NextRevocations, NextDeletions
  DEF IInv
<1>3. QED
  BY <1>1, <1>2, PTL DEF Spec

\* Every variable keeps its type.
THEOREM TypeCorrect == Spec => []TypeOK
<1>1. IInv => TypeOK
  BY DEF IInv
<1>2. QED
  BY <1>1, Invariance, PTL

\* At most MaxAttempts wrong passwords of a user are answered per lock, however many
\* logins run at a time.
THEOREM GuessesAreBounded == Spec => []GuessesBounded
<1>1. IInv => GuessesBounded
  BY DEF IInv, Guesses, GuessesBounded
<1>2. QED
  BY <1>1, Invariance, PTL

\* Nobody is served with a token after its logout, on any replica.
THEOREM LogoutIsEffective == Spec => []RefusedAfterLogout
<1>1. IInv => RefusedAfterLogout
  BY DEF IInv, Shape, Revocations, RefusedAfterLogout
<1>2. QED
  BY <1>1, Invariance, PTL

\* Nobody is served after the deletion of his account, on any replica.
THEOREM DeletionIsEffective == Spec => []RefusedAfterDeletion
<1>1. IInv => RefusedAfterDeletion
  BY DEF IInv, Deletions
<1>2. QED
  BY <1>1, Invariance, PTL

\* A lock is lifted by time alone: not by a login that had started before.
THEOREM LocksOutlastLogins == Spec => LockOutlasts
<1>1. ASSUME IInv, Next PROVE LockOutlastsStep
  <2>1. TypeOK /\ Shape /\ Rows
    BY <1>1 DEF IInv
  <2>2. \A c \in Calls : pc[c] = "verify" => Target(c) \in Users /\ Admissible(Target(c))
    BY <2>1, CallKinds DEF Shape, Target, Rows
  <2>3. ASSUME NEW u \in Users, account[u] # None, account[u].locked,
               account'[u] # None, ~account'[u].locked
        PROVE  pc' = pc
    <3>1. account'[u] # account[u] /\ account[u] \in Account /\ ~Admissible(u)
      BY <2>1, <2>3 DEF TypeOK, Admissible
    <3> USE DEF TypeOK, credentials, observers
    <3>2. ASSUME NEW c \in Calls, Start(c) PROVE FALSE
      BY <3>1, <3>2 DEF Start, StartLogin, StartRequest
    <3>3. ASSUME NEW c \in Calls, WrongPassword(c) \/ RightPassword(c) \/ LoginFails(c) PROVE FALSE
      <4>1. pc[c] = "verify" => u # Target(c)
        BY <2>2, <3>1
      <4>2. pc[c] = "verify" => account'[u] = account[u]
        BY <2>1, <3>3, <4>1 DEF WrongPassword, RightPassword, LoginFails
      <4>3. pc[c] # "verify" => account' = account
        BY <3>3 DEF WrongPassword, RightPassword, LoginFails, Goto
      <4>4. QED
        BY <3>1, <4>2, <4>3
    <3>4. ASSUME NEW c \in Calls, Delete(c) \/ DeleteFails(c) \/ Provision(c) \/ ProvisionFails(c)
          PROVE  FALSE
      BY <2>1, <2>3, <3>1, <3>4 DEF Delete, DeleteFails, Provision, ProvisionFails, Create
    <3>5. ASSUME NEW c \in Calls, Step(c) \/ StepFails(c) PROVE FALSE
      BY <3>1, <3>3, <3>4, <3>5
      DEF Step, StepFails, SelectForUpdate, CheckToken, CheckRow, Use, Logout, CheckTokenFails,
          CheckRowFails, LogoutFails, Crash
    <3>6. QED
      BY <1>1, <3>2, <3>5 DEF Next, LockExpires, TokenWanes, TokenExpires, RevocationEnds
  <2>4. QED
    BY <2>3 DEF LockOutlastsStep
<1>2. QED
  BY <1>1, Invariance, PTL DEF Spec, LockOutlasts
=============================================================================
