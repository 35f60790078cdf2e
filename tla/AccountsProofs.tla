---------------------------- MODULE AccountsProofs ----------------------------
(***************************************************************************)
(* Theorems about Accounts: types; that its statements, in any order and   *)
(* whatever is rolled back, keep the contract of sessions; and what its    *)
(* checks guarantee as long as requests do not overlap.                    *)
(***************************************************************************)
EXTENDS Accounts, TLAPS

\* The steps of a request that concern an account, or a session of one.
OfAccount == {"renameHandle", "rename", "beginWithdraw", "withdrawUser",
              "withdrawTokens", "commitWithdraw"}
OfSession == {"readToken", "updateToken", "createToken", "refresh", "beginRestore",
              "restoreUser", "commitRestore", "beginLogout", "logoutToken", "logoutUser"}

\* A request knows what its next statement needs.
RequestsAreFilled ==
    \A r \in Request :
        /\ req[r].pc \in OfAccount \cup OfSession => req[r].user \in User
        /\ req[r].pc \in OfSession => req[r].device \in Device
        /\ req[r].pc \in {"renameHandle", "rename"} => req[r].handle \in Handle
        /\ req[r].pc \in {"registerHandle", "createUser"} =>
                /\ req[r].email \in Email /\ req[r].handle \in Handle
                /\ req[r].device \in Device

\* The row of the account a request is about is never deleted.
SubjectsExist == \A r \in Request : req[r].user # None => Exists(req[r].user)

\* A session is one of an account.
SessionsOfUsers == \A k \in token : Exists(k[1])

IInv == TypeOK /\ RequestsAreFilled /\ SubjectsExist /\ SessionsOfUsers

\* What answering a request, or moving it on, leaves true of all requests.
Requests ==
    /\ req \in [Request -> RequestState]
    /\ RequestsAreFilled
    /\ SubjectsExist

\* The empty tables satisfy the invariant.
LEMMA InitHolds == Init => IInv
  BY DEF Init, IInv, TypeOK, RequestsAreFilled, SubjectsExist, SessionsOfUsers, Idle, RequestState,
         OfAccount, OfSession

\* An answered request asks for nothing.
LEMMA AfterFinish ==
    ASSUME IInv, NEW r \in Request, Finish(r),
           \A i \in User : user[i].state # "none" => user'[i].state # "none"
    PROVE  Requests'
  <1>1. None \notin User
    BY AccountsAssumption
  <1>2. Idle \in RequestState
    BY DEF Idle, RequestState
  <1>3. \A q \in Request : req'[q] = IF q = r THEN Idle ELSE req[q]
    BY DEF Finish, IInv, TypeOK
  <1>4. (req \in [Request -> RequestState])'
    BY <1>2 DEF Finish, IInv, TypeOK
  <1>5. RequestsAreFilled'
    BY <1>3 DEF RequestsAreFilled, IInv, Idle, OfAccount, OfSession
  <1>6. SubjectsExist'
    BY <1>1, <1>3 DEF SubjectsExist, Exists, IInv, TypeOK, RequestState, Idle
  <1>7. QED
    BY <1>4, <1>5, <1>6 DEF Requests

\* Request r goes on to another statement with the same locals.
Moves(r, held) ==
    /\ \/ req[r].pc \in OfSession /\ req'[r].pc \in OfSession
       \/ req[r].pc = "registerHandle" /\ req'[r].pc = "createUser"
       \/ req[r].pc = "renameHandle" /\ req'[r].pc = "rename"
       \/ /\ req[r].pc \in {"beginWithdraw", "withdrawUser", "withdrawTokens"}
               /\ req'[r].pc \in {"withdrawUser", "withdrawTokens", "commitWithdraw"}
    /\ req' = [req EXCEPT ![r].pc = req'[r].pc, ![r].held = held]

\* A request that goes on keeps what it knows.
LEMMA AfterMove ==
    ASSUME IInv, NEW r \in Request, NEW held \in {"nothing", "connection", "row"},
           Moves(r, held), UNCHANGED user
    PROVE  Requests'
  <1>1. /\ req \in [Request -> RequestState] /\ req[r] \in RequestState
        /\ req'[r].pc \in OfAccount \cup OfSession \cup {"createUser"}
    BY DEF IInv, TypeOK, Moves, OfAccount
  <1>2. req'[r].pc \in
          {"idle", "registerHandle", "createUser", "renameHandle", "rename",
           "readToken", "updateToken", "createToken", "refresh",
           "beginRestore", "restoreUser", "commitRestore",
           "beginLogout", "logoutToken", "logoutUser",
           "beginWithdraw", "withdrawUser", "withdrawTokens", "commitWithdraw"}
    BY <1>1 DEF OfAccount, OfSession
  <1>3. (req \in [Request -> RequestState])'
    BY <1>1, <1>2 DEF Moves, RequestState
  <1>4. /\ \A q \in Request \ {r} : req'[q] = req[q]
        /\ req'[r].user = req[r].user /\ req'[r].device = req[r].device
        /\ req'[r].email = req[r].email /\ req'[r].handle = req[r].handle
    BY <1>1 DEF Moves, RequestState
  <1>5. RequestsAreFilled'
    BY <1>4 DEF RequestsAreFilled, IInv, Moves, OfAccount, OfSession
  <1>6. SubjectsExist'
    BY <1>4 DEF SubjectsExist, IInv, Exists
  <1>7. QED
    BY <1>3, <1>5, <1>6 DEF Requests

\* A new request is about an account that exists, or about none yet.
LEMMA AfterArrival ==
    ASSUME IInv, NEW r \in Request, Arrival(r)
    PROVE  Requests'
  <1> USE AccountsAssumption DEF Begin, Idle
  <1>1. ASSUME NEW e \in Email, NEW h \in Handle, NEW d \in Device, Register(r, e, h, d)
        PROVE  Requests'
    BY <1>1 DEF Register, Requests, IInv, TypeOK, RequestState, RequestsAreFilled,
                SubjectsExist, Exists, OfAccount, OfSession
  <1>2. ASSUME NEW i \in User, NEW h \in Handle, ChangeAccountId(r, i, h)
        PROVE  Requests'
    BY <1>2, ZenonT(60) DEF ChangeAccountId, Requests, IInv, TypeOK, RequestState, RequestsAreFilled,
                SubjectsExist, Exists, OfAccount, OfSession
  <1>3. ASSUME NEW i \in User, NEW d \in Device, Login(r, i, d)
        PROVE  Requests'
    BY <1>3, ZenonT(60) DEF Login, Validated, Requests, IInv, TypeOK, RequestState, RequestsAreFilled,
                SubjectsExist, Exists, OfAccount, OfSession
  <1>4. ASSUME NEW i \in User, NEW d \in Device, Refresh(r, i, d), Exists(i)
        PROVE  Requests'
    BY <1>4 DEF Refresh, Requests, IInv, TypeOK, RequestState, RequestsAreFilled,
                SubjectsExist, Exists, OfAccount, OfSession
  <1>5. ASSUME NEW i \in User, NEW d \in Device, Logout(r, i, d)
        PROVE  Requests'
    BY <1>5 DEF Logout, Requests, IInv, TypeOK, RequestState, RequestsAreFilled,
                SubjectsExist, Exists, OfAccount, OfSession
  <1>6. ASSUME NEW i \in User, Withdraw(r, i)
        PROVE  Requests'
    BY <1>6 DEF Withdraw, Requests, IInv, TypeOK, RequestState, RequestsAreFilled,
                SubjectsExist, Exists, OfAccount, OfSession
  <1>7. QED
    BY <1>1, <1>2, <1>3, <1>4, <1>5, <1>6 DEF Arrival, Refresh, IInv, SessionsOfUsers

\* A statement of a request under way leaves the requests as they should be.
LEMMA AfterProgress ==
    ASSUME IInv, NEW r \in Request, Progress(r)
    PROVE  Requests'
  <1>1. /\ req \in [Request -> RequestState] /\ req[r] \in RequestState
        /\ user \in [User -> UserRow \cup {NoUser}]
        /\ req[r].pc \in OfAccount \cup OfSession => req[r].user \in User
        /\ req[r].pc \in {"registerHandle", "createUser"} =>
                req[r].email \in Email /\ req[r].handle \in Handle /\ req[r].device \in Device
    BY DEF IInv, TypeOK, RequestsAreFilled
  <1>2. ASSUME UNCHANGED user, Finish(r)
        PROVE  Requests'
    BY <1>2, AfterFinish
  <1>3. CASE BeginTransaction(r)
    <2>1. PICK step \in {<<"beginRestore", "restoreUser">>, <<"beginLogout", "logoutToken">>,
                         <<"beginWithdraw", "withdrawUser">>} :
            /\ req[r].pc = step[1]
            /\ req' = [req EXCEPT ![r].pc = step[2], ![r].held = "connection"]
      BY <1>3 DEF BeginTransaction
    <2>2. req'[r].pc = step[2]
      BY <1>1, <2>1 DEF RequestState
    <2>3. \/ req[r].pc = "beginRestore" /\ req'[r].pc = "restoreUser"
          \/ req[r].pc = "beginLogout" /\ req'[r].pc = "logoutToken"
          \/ req[r].pc = "beginWithdraw" /\ req'[r].pc = "withdrawUser"
      BY <2>1, <2>2
    <2>4. req' = [req EXCEPT ![r].pc = req'[r].pc, ![r].held = "connection"]
      BY <2>1, <2>2
    <2>5. Moves(r, "connection")
      BY <2>3, <2>4 DEF Moves, OfSession
    <2>6. QED
      BY <1>3, <2>5, AfterMove DEF BeginTransaction
  <1>4. ASSUME NEW pc, Goto(r, pc), UNCHANGED user,
               \/ req[r].pc \in OfSession /\ pc \in OfSession
               \/ req[r].pc = "registerHandle" /\ pc = "createUser"
               \/ req[r].pc = "renameHandle" /\ pc = "rename"
               \/ req[r].pc = "withdrawTokens" /\ pc = "commitWithdraw"
        PROVE  Requests'
    <2>1. req'[r].pc = pc /\ req[r].held \in {"nothing", "connection", "row"}
      BY <1>1, <1>4 DEF Goto, RequestState
    <2>2. req' = [req EXCEPT ![r].pc = req'[r].pc, ![r].held = req[r].held]
      BY <1>1, <1>4, <2>1 DEF Goto, RequestState
    <2>3. Moves(r, req[r].held)
      BY <1>4, <2>1, <2>2 DEF Moves
    <2>4. QED
      BY <1>4, <2>1, <2>3, AfterMove
  <1>5. ASSUME NEW pc, Proceed(r, pc), UNCHANGED user,
               \/ req[r].pc \in OfSession /\ pc \in OfSession
               \/ req[r].pc = "withdrawTokens" /\ pc = "commitWithdraw"
        PROVE  Requests'
    BY <1>2, <1>4, <1>5 DEF Proceed
  <1>6. ASSUME NEW pc, req' = [req EXCEPT ![r].pc = pc, ![r].held = "row"], UNCHANGED user,
               \/ req[r].pc = "restoreUser" /\ pc = "readToken"
               \/ req[r].pc = "withdrawUser" /\ pc = "withdrawTokens"
        PROVE  Requests'
    <2>1. req'[r].pc = pc
      BY <1>1, <1>6 DEF RequestState
    <2>2. Moves(r, "row")
      BY <1>6, <2>1 DEF Moves, OfSession
    <2>3. QED
      BY <1>6, <2>2, AfterMove
  <1>7. CASE CheckHandle(r)
    BY <1>2, <1>4, <1>7 DEF CheckHandle
  <1>8. CASE CreateUser(r)
    <2>1. PICK i \in User :
            /\ ~Exists(i)
            /\ user' = [user EXCEPT ![i] =
                    [email |-> req[r].email, handle |-> req[r].handle, state |-> "active",
                     mayRename |-> TRUE]]
            /\ req' = [req EXCEPT ![r].pc = "createToken", ![r].user = i]
      BY <1>8 DEF CreateUser
    <2>2. \A j \in User : user[j].state # "none" => user'[j].state # "none"
      BY <1>1, <2>1
    <2>3. user'[i].state # "none" /\ req[r].device \in Device
      BY <1>1, <1>8, <2>1 DEF CreateUser
    <2>4. /\ req' \in [Request -> RequestState]
          /\ \A q \in Request \ {r} : req'[q] = req[q]
          /\ req'[r].pc = "createToken" /\ req'[r].user = i
          /\ req'[r].device = req[r].device
      BY <1>1, <2>1, ZenonT(60) DEF RequestState
    <2>5. RequestsAreFilled'
      BY <2>3, <2>4 DEF RequestsAreFilled, IInv, OfAccount, OfSession
    <2>6. SubjectsExist'
      BY <2>2, <2>3, <2>4 DEF SubjectsExist, IInv, TypeOK, RequestState, Exists
    <2>7. QED
      BY <2>4, <2>5, <2>6 DEF Requests
  <1>9. ASSUME \/ Rename(r)
               \/ CommitRestore(r)
               \/ WithdrawStatement(r) /\ req[r].pc = "commitWithdraw" /\ Finish(r)
        PROVE  Requests'
    <2>1. \A j \in User : user[j].state # "none" => user'[j].state # "none"
      BY <1>1, <1>9 DEF Rename, CommitRestore, WithdrawStatement, UserRow, NoUser
    <2>2. QED
      BY <1>9, <2>1, AfterFinish DEF Rename, CommitRestore
  <1>10. CASE RestoreUser(r)
    BY <1>6, <1>10 DEF RestoreUser
  <1>11. CASE ReadToken(r)
    BY <1>4, <1>11 DEF ReadToken, OfSession
  <1>12. CASE UpdateToken(r) \/ CreateToken(r)
    BY <1>2, <1>5, <1>12 DEF UpdateToken, CreateToken, OfSession
  <1>13. CASE UpdateRefreshed(r)
    BY <1>2, <1>13 DEF UpdateRefreshed
  <1>14. CASE LogoutStatement(r)
    BY <1>2, <1>5, <1>14 DEF LogoutStatement, OfSession
  <1>15. CASE WithdrawStatement(r)
    BY <1>5, <1>6, <1>9, <1>15 DEF WithdrawStatement
  <1>16. QED
    BY <1>3, <1>7, <1>8, <1>9, <1>10, <1>11, <1>12, <1>13, <1>14, <1>15 DEF Progress

\* Every step leaves the requests as they should be.
LEMMA RequestsStep == IInv /\ [Next]_vars => Requests'
  <1> SUFFICES ASSUME IInv, [Next]_vars PROVE Requests'
    OBVIOUS
  <1>1. ASSUME NEW r \in Request, Timeout(r) \/ PoolTimeout(r)
        PROVE  Requests'
    <2>1. CASE Finish(r)
      BY <1>1, <2>1, AfterFinish DEF Timeout, PoolTimeout
    <2>2. CASE req' = [req EXCEPT ![r].held = "nothing"] /\ UNCHANGED user
      <3>1. /\ req' \in [Request -> RequestState]
            /\ \A q \in Request :
                /\ req'[q].pc = req[q].pc /\ req'[q].user = req[q].user
                /\ req'[q].device = req[q].device /\ req'[q].email = req[q].email
                /\ req'[q].handle = req[q].handle
        BY <2>2 DEF IInv, TypeOK, RequestState
      <3>2. QED
        BY <2>2, <3>1 DEF Requests, IInv, RequestsAreFilled, SubjectsExist, Exists
    <2>3. QED
      BY <1>1, <2>1, <2>2 DEF Timeout, PoolTimeout
  <1>2. ASSUME NEW i \in User, MonthPasses(i)
        PROVE  Requests'
    <2>1. \A j \in User : user[j].state # "none" => user'[j].state # "none"
      BY <1>2 DEF MonthPasses, IInv, TypeOK, UserRow, NoUser
    <2>2. QED
      BY <1>2, <2>1 DEF MonthPasses, Requests, IInv, TypeOK, RequestState,
                        RequestsAreFilled, SubjectsExist, Exists
  <1>3. CASE Crash
    BY <1>3, AccountsAssumption
       DEF Crash, Requests, RequestState, Idle, RequestsAreFilled, SubjectsExist,
           OfAccount, OfSession
  <1>4. CASE UNCHANGED vars
    BY <1>4 DEF vars, Requests, IInv, TypeOK, RequestsAreFilled, SubjectsExist, Exists
  <1>5. QED
    BY <1>1, <1>2, <1>3, <1>4, AfterArrival, AfterProgress DEF Next

\* Every step keeps the rows of users and what they had well formed, and every row.
LEMMA UsersStep ==
    ASSUME IInv, [Next]_vars
    PROVE  /\ user' \in [User -> UserRow \cup {NoUser}]
           /\ released' \subseteq Handle
           /\ \A i \in User : Exists(i) => Exists(i)'
  <1> USE DEF IInv, TypeOK, UserRow, NoUser, Exists
  <1>1. ASSUME NEW r \in Request, CreateUser(r)
        PROVE  /\ user' \in [User -> UserRow \cup {NoUser}]
               /\ \A i \in User : user[i].state # "none" => user'[i].state # "none"
    <2>1. req[r].email \in Email /\ req[r].handle \in Handle
      BY <1>1 DEF CreateUser, RequestsAreFilled
    <2>2. QED
      BY <1>1, <2>1 DEF CreateUser
  <1>2. ASSUME NEW r \in Request, Rename(r)
        PROVE  /\ user' \in [User -> UserRow \cup {NoUser}]
               /\ \A i \in User : user[i].state # "none" => user'[i].state # "none"
    <2>1. /\ req[r].user \in User /\ req[r].handle \in Handle
          /\ user[req[r].user].state # "none"
      BY <1>2, AccountsAssumption
         DEF Rename, RequestsAreFilled, SubjectsExist, OfAccount
    <2>2. user[req[r].user] \in UserRow
      BY <2>1
    <2> DEFINE row == [user[req[r].user] EXCEPT !.handle = req[r].handle,
                                                  !.mayRename = FALSE]
    <2>3. row \in UserRow /\ row.state = user[req[r].user].state
      BY <2>1, <2>2
    <2>4. user' = [user EXCEPT ![req[r].user] = row]
      BY <1>2 DEF Rename
    <2>5. QED
      BY <2>1, <2>3, <2>4
  <1>3. ASSUME NEW r \in Request, NEW state \in {"active", "recent"},
               req[r].pc \in {"commitRestore", "commitWithdraw"},
               user' = [user EXCEPT ![req[r].user].state = state]
        PROVE  /\ user' \in [User -> UserRow \cup {NoUser}]
               /\ \A i \in User : user[i].state # "none" => user'[i].state # "none"
    <2>1. req[r].user \in User /\ user[req[r].user].state # "none"
      BY <1>3, AccountsAssumption
         DEF RequestsAreFilled, SubjectsExist, OfAccount, OfSession
    <2>2. QED
      BY <1>3, <2>1
  <1>4. ASSUME NEW i \in User, MonthPasses(i)
        PROVE  /\ user' \in [User -> UserRow \cup {NoUser}]
               /\ released' \subseteq Handle
               /\ \A j \in User : user[j].state # "none" => user'[j].state # "none"
    <2>1. user[i] \in UserRow
      BY <1>4 DEF MonthPasses
    <2>2. /\ [user[i] EXCEPT !.state = "old"] \in UserRow
          /\ [user[i] EXCEPT !.mayRename = TRUE] \in UserRow
          /\ [user[i] EXCEPT !.mayRename = TRUE].state = user[i].state
          /\ [user[i] EXCEPT !.state = "old"].state = "old"
      BY <2>1
    <2>3. \/ user' = [user EXCEPT ![i] = [user[i] EXCEPT !.state = "old"]]
          \/ user' = [user EXCEPT ![i] = [user[i] EXCEPT !.mayRename = TRUE]]
      BY <1>4 DEF MonthPasses
    <2>4. released' \subseteq Handle
      BY <1>4, <2>1 DEF MonthPasses
    <2>5. QED
      BY <2>1, <2>2, <2>3, <2>4, ZenonT(60)
  <1>5. ASSUME NEW r \in Request, Progress(r)
        PROVE  /\ UNCHANGED released
               /\ \/ CreateUser(r) \/ Rename(r) \/ UNCHANGED user
                  \/ \E state \in {"active", "recent"} :
                        /\ req[r].pc \in {"commitRestore", "commitWithdraw"}
                        /\ user' = [user EXCEPT ![req[r].user].state = state]
    BY <1>5 DEF Progress, BeginTransaction, CheckHandle, CreateUser, Rename, RestoreUser,
                CommitRestore, ReadToken, UpdateToken, CreateToken, UpdateRefreshed,
                LogoutStatement, WithdrawStatement
  <1>6. ASSUME NEW r \in Request, Arrival(r)
        PROVE  UNCHANGED <<user, released>>
    BY <1>6 DEF Arrival, Register, ChangeAccountId, Login, Refresh, Logout, Withdraw
  <1>7. QED
    BY <1>1, <1>2, <1>3, <1>4, <1>5, <1>6
       DEF Next, vars, Timeout, PoolTimeout, Crash

\* What a step may do to the stored tokens.
LEMMA TokenStep ==
    ASSUME [Next]_vars
    PROVE  \/ UNCHANGED token
           \/ \E r \in Request : req[r].pc = "createToken" /\ token' = token \cup {Key(r)}
           \/ \E r \in Request : req[r].pc = "logoutToken" /\ token' = token \ {Key(r)}
           \/ \E r \in Request : /\ req[r].pc = "withdrawTokens"
                                 /\ token' = {k \in token : k[1] # req[r].user}
  <1>1. ASSUME NEW r \in Request, Arrival(r)
        PROVE  UNCHANGED token
    BY <1>1 DEF Arrival, Register, ChangeAccountId, Login, Refresh, Logout, Withdraw
  <1>2. ASSUME NEW r \in Request, Progress(r)
        PROVE  \/ UNCHANGED token
               \/ CreateToken(r) /\ token' = token \cup {Key(r)}
               \/ req[r].pc = "logoutToken" /\ token' = token \ {Key(r)}
               \/ /\ req[r].pc = "withdrawTokens"
                  /\ token' = {k \in token : k[1] # req[r].user}
    BY <1>2 DEF Progress, BeginTransaction, CheckHandle, CreateUser, Rename, RestoreUser,
                CommitRestore, ReadToken, UpdateToken, CreateToken, UpdateRefreshed,
                LogoutStatement, WithdrawStatement
  <1>3. QED
    BY <1>1, <1>2 DEF Next, vars, Timeout, PoolTimeout, MonthPasses, Crash, CreateToken

\* Every session is one of a user and a device, and of an account that exists.
LEMMA SessionsStep ==
    ASSUME IInv, [Next]_vars
    PROVE  token' \subseteq User \X Device /\ SessionsOfUsers'
  <1>1. token \subseteq User \X Device /\ SessionsOfUsers
    BY DEF IInv, TypeOK
  <1>2. \A i \in User : Exists(i) => Exists(i)'
    BY UsersStep
  <1>3. ASSUME NEW r \in Request, req[r].pc = "createToken"
        PROVE  Key(r) \in User \X Device /\ Exists(Key(r)[1])
    <2>1. req[r].user \in User /\ req[r].device \in Device /\ Exists(req[r].user)
      BY <1>3, AccountsAssumption
         DEF IInv, RequestsAreFilled, SubjectsExist, OfSession
    <2>2. Key(r) \in User \X Device /\ Key(r)[1] = req[r].user
      BY <2>1 DEF Key
    <2>3. QED
      BY <2>1, <2>2
  <1>4. \A k \in token' : k \in token \/ (k \in User \X Device /\ Exists(k[1]))
    <2> SUFFICES ASSUME NEW k \in token', k \notin token
                 PROVE  k \in User \X Device /\ Exists(k[1])
      OBVIOUS
    <2>1. \E r \in Request : req[r].pc = "createToken" /\ k = Key(r)
      BY TokenStep
    <2>2. QED
      BY <1>3, <2>1
  <1>5. \A k \in token' : k \in User \X Device /\ Exists(k[1])
    BY <1>1, <1>4 DEF SessionsOfUsers
  <1>6. \A k \in token' : k[1] \in User
    BY <1>5
  <1>7. QED
    BY <1>2, <1>5, <1>6 DEF SessionsOfUsers, Exists

\* The invariant holds in every reachable state.
THEOREM Invariance == Spec => []IInv
  <1>1. ASSUME IInv, [Next]_vars
        PROVE  IInv'
    <2>1. Requests'
      BY <1>1, RequestsStep
    <2>2. TypeOK'
      BY <1>1, <2>1, UsersStep, SessionsStep DEF TypeOK, Requests
    <2>3. QED
      BY <1>1, <2>1, <2>2, SessionsStep DEF IInv, Requests
  <1>2. QED
    BY <1>1, InitHolds, PTL DEF Spec

\* Rows, sessions and requests stay well formed, whatever requests overlap, time
\* out or are lost.
THEOREM TypesHold == Spec => []TypeOK
  <1>1. IInv => TypeOK
    BY DEF IInv
  <1>2. QED
    BY <1>1, Invariance, PTL

\* In every order of statements, and although those of the token repository stay
\* when the transaction around them is rolled back: a session begins with a login
\* and ends with a logout or a withdrawal, and a refresh does not revive one.
THEOREM SessionsHold == Spec => KeepsSessions
  <1>1. Init => Contract!Init
    BY DEF Init, Contract!Init
  <1>2. ASSUME [Next]_vars
        PROVE  [Contract!Next]_token
    <2>1. ASSUME NEW r \in Request, req[r].pc = "createToken", token' = token \cup {Key(r)}
          PROVE  Contract!Next
      BY <2>1 DEF Contract!Next, Contract!Enter, At
    <2>2. ASSUME NEW r \in Request, req[r].pc = "logoutToken", token' = token \ {Key(r)}
          PROVE  Contract!Next
      BY <2>2 DEF Contract!Next, Contract!Leave, At
    <2>3. ASSUME NEW r \in Request, req[r].pc = "withdrawTokens",
                 token' = {k \in token : k[1] # req[r].user}
          PROVE  Contract!Next
      BY <2>3 DEF Contract!Next, Contract!Close, At
    <2>4. QED
      BY <1>2, <2>1, <2>2, <2>3, TokenStep
  <1>3. QED
    BY <1>1, <1>2, PTL DEF Spec, KeepsSessions, Contract!Spec

-----------------------------------------------------------------------------
(* As long as requests do not overlap *)

OneAtATime == \A r, q \in Request : r = q

OldHandlesAreReleased == \A i \in User : user[i].state = "old" => user[i].handle \in released

\* The handle a request has found free still is when it is written, and whoever
\* changes his is still active.
ChecksHold ==
    \A r \in Request :
        /\ req[r].pc \in {"createUser", "rename"} =>
            \A i \in User : user[i].handle = req[r].handle => req[r].handle \in released
        /\ req[r].pc \in {"renameHandle", "rename"} => user[req[r].user].state = "active"

\* A withdrawal that is about to commit has ended every session.
WithdrawersHaveLeft ==
    \A r \in Request : req[r].pc = "commitWithdraw" =>
        \A d \in Device : <<req[r].user, d>> \notin token

SerialInv ==
    OldHandlesAreReleased /\ SharedHandlesWereReleased /\ ChecksHold /\ WithdrawersHaveLeft

Over == \A r \in Request : req'[r] = Idle

\* Whether the account of r comes back or withdraws.
Turns(r, state) ==
    /\ user' = [user EXCEPT ![req[r].user].state = state]
    /\ UNCHANGED <<token, released>>

\* A request that goes on writes no account; of what the invariant asks, it has
\* found out what the next step needs.
GoesOn(r) ==
    /\ UNCHANGED <<user, released>>
    /\ \/ req'[r].pc \notin {"renameHandle", "createUser", "rename", "commitWithdraw"}
       \/ /\ req'[r].pc = "renameHandle"
          /\ \E i \in User, h \in Handle : ChangeAccountId(r, i, h) /\ req'[r].user = i
       \/ /\ req'[r].handle = req[r].handle /\ req'[r].user = req[r].user
          /\ \/ /\ HandleFree(req[r].handle)
                /\ <<req[r].pc, req'[r].pc>> \in {<<"registerHandle", "createUser">>,
                                                 <<"renameHandle", "rename">>}
             \/ req'[r].pc = req[r].pc /\ UNCHANGED token
             \/ /\ req'[r].pc = "commitWithdraw"
                /\ token' = {k \in token : k[1] # req[r].user}

\* What a step does, as far as the invariant asks.
LEMMA SerialSteps ==
    ASSUME IInv, OneAtATime, [Next]_vars
    PROVE  \/ UNCHANGED vars
           \/ Over /\ UNCHANGED <<user, released>>
           \/ Over /\ \E r \in Request :
                \/ Rename(r)
                \/ Turns(r, "active") /\ req[r].pc = "commitRestore"
                \/ Turns(r, "recent") /\ req[r].pc = "commitWithdraw"
           \/ \E r \in Request : CreateUser(r) \/ GoesOn(r)
           \/ \E i \in User : MonthPasses(i)
<1>1. req \in [Request -> RequestState] /\ \A r \in Request : req[r] \in RequestState
  BY DEF IInv, TypeOK
<1>2. ASSUME NEW r \in Request, Finish(r) PROVE Over
  BY <1>1, <1>2 DEF Finish, Over, OneAtATime
<1>3. ASSUME NEW r \in Request, NEW pc, Goto(r, pc)
      PROVE  req'[r].pc = pc /\ req'[r].user = req[r].user /\ req'[r].handle = req[r].handle
  BY <1>1, <1>3 DEF Goto, RequestState
<1>4. ASSUME NEW r \in Request, NEW e \in Email, NEW h \in Handle, NEW d \in Device,
             Register(r, e, h, d)
      PROVE  GoesOn(r)
  BY <1>1, <1>4 DEF Register, Begin, Idle, GoesOn
<1>5. ASSUME NEW r \in Request, NEW i \in User, NEW h \in Handle, ChangeAccountId(r, i, h)
      PROVE  GoesOn(r)
  <2>1. req'[r].pc = "renameHandle" /\ req'[r].user = i /\ UNCHANGED <<user, released>>
    BY <1>1, <1>5 DEF ChangeAccountId, Begin, Idle
  <2> QED
    BY <1>5, <2>1 DEF GoesOn
<1>6. ASSUME NEW r \in Request, NEW i \in User, NEW d \in Device,
             Login(r, i, d) \/ Refresh(r, i, d) \/ Logout(r, i, d)
      PROVE  GoesOn(r)
  <2>1. /\ UNCHANGED <<user, released>>
        /\ req'[r].pc \in {"readToken", "beginRestore", "refresh", "beginLogout"}
    BY <1>1, <1>6 DEF Login, Refresh, Logout, Begin, Idle
  <2> QED
    BY <2>1 DEF GoesOn
<1>7. ASSUME NEW r \in Request, NEW i \in User, Withdraw(r, i) PROVE GoesOn(r)
  <2>1. UNCHANGED <<user, released>> /\ req'[r].pc = "beginWithdraw"
    BY <1>1, <1>7 DEF Withdraw, Begin, Idle
  <2> QED
    BY <2>1 DEF GoesOn
<1>8. ASSUME NEW r \in Request, BeginTransaction(r) \/ RestoreUser(r) \/ ReadToken(r)
      PROVE  GoesOn(r)
  <2>1. /\ UNCHANGED <<user, released>>
        /\ req'[r].pc \in {"restoreUser", "logoutToken", "withdrawUser", "readToken",
                            "updateToken", "createToken"}
    BY <1>1, <1>8 DEF BeginTransaction, RestoreUser, ReadToken, Goto, RequestState
  <2> QED
    BY <2>1 DEF GoesOn
<1>9. ASSUME NEW r \in Request, CheckHandle(r)
      PROVE  GoesOn(r) \/ (Over /\ UNCHANGED <<user, released>>)
  BY <1>2, <1>3, <1>9 DEF CheckHandle, GoesOn
<1>10. ASSUME NEW r \in Request, Rename(r) PROVE Over
  BY <1>2, <1>10 DEF Rename
<1>11. ASSUME NEW r \in Request, CommitRestore(r)
       PROVE  Over /\ Turns(r, "active") /\ req[r].pc = "commitRestore"
  BY <1>2, <1>11 DEF CommitRestore, Turns
<1>12. ASSUME NEW r \in Request, UpdateToken(r) \/ CreateToken(r)
       PROVE  GoesOn(r) \/ (Over /\ UNCHANGED <<user, released>>)
  BY <1>2, <1>3, <1>12 DEF UpdateToken, CreateToken, Proceed, GoesOn
<1>13. ASSUME NEW r \in Request, UpdateRefreshed(r) PROVE Over /\ UNCHANGED <<user, released>>
  BY <1>2, <1>13 DEF UpdateRefreshed
<1>14. ASSUME NEW r \in Request, LogoutStatement(r)
       PROVE  GoesOn(r) \/ (Over /\ UNCHANGED <<user, released>>)
  BY <1>2, <1>3, <1>14 DEF LogoutStatement, Proceed, GoesOn
<1>15. ASSUME NEW r \in Request, WithdrawStatement(r)
       PROVE  \/ GoesOn(r)
              \/ Over /\ UNCHANGED <<user, released>>
              \/ Over /\ Turns(r, "recent") /\ req[r].pc = "commitWithdraw"
  <2>1. CASE req[r].pc = "withdrawUser"
    <3>1. UNCHANGED <<user, released>> /\ req'[r].pc = "withdrawTokens"
      BY <1>1, <1>15, <2>1 DEF WithdrawStatement, RequestState
    <3> QED
      BY <3>1 DEF GoesOn
  <2>2. CASE req[r].pc = "withdrawTokens"
    BY <1>2, <1>3, <1>15, <2>2 DEF WithdrawStatement, Proceed, GoesOn
  <2>3. CASE req[r].pc = "commitWithdraw"
    BY <1>2, <1>15, <2>3 DEF WithdrawStatement, Turns
  <2> QED
    BY <1>15, <2>1, <2>2, <2>3 DEF WithdrawStatement
<1>16. ASSUME NEW r \in Request, Timeout(r)
       PROVE  GoesOn(r) \/ (Over /\ UNCHANGED <<user, released>>)
  <2>1. UNCHANGED <<user, token, released>>
    BY <1>16 DEF Timeout
  <2>2. CASE req' = [req EXCEPT ![r].held = "nothing"]
    <3>1. req'[r].pc = req[r].pc /\ req'[r].user = req[r].user /\ req'[r].handle = req[r].handle
      BY <1>1, <2>2 DEF RequestState
    <3> QED
      BY <2>1, <3>1 DEF GoesOn
  <2> QED
    BY <1>2, <1>16, <2>1, <2>2 DEF Timeout
<1>17. ASSUME NEW r \in Request, PoolTimeout(r) PROVE Over /\ UNCHANGED <<user, released>>
  BY <1>2, <1>17 DEF PoolTimeout
<1>18. CASE Crash
  BY <1>18 DEF Crash, Over
<1>19. ASSUME NEW r \in Request, Arrival(r) PROVE GoesOn(r)
  BY <1>4, <1>5, <1>6, <1>7, <1>19 DEF Arrival
<1> QED
  BY <1>8, <1>9, <1>10, <1>11, <1>12, <1>13, <1>14, <1>15, <1>16, <1>17, <1>18, <1>19
     DEF Next, Progress

\* A request that is over needs nothing.
LEMMA OverKeeps == Over => ChecksHold' /\ WithdrawersHaveLeft'
  BY DEF Over, Idle, ChecksHold, WithdrawersHaveLeft

\* A request that goes on writes no account, and finds what it has found out as it was.
LEMMA GoesOnKeeps ==
    ASSUME IInv, OneAtATime, SerialInv, NEW r \in Request, GoesOn(r)
    PROVE  SerialInv'
<1>1. UNCHANGED <<user, released>>
  BY DEF GoesOn
<1>2. OldHandlesAreReleased' /\ SharedHandlesWereReleased'
  BY <1>1 DEF SerialInv, OldHandlesAreReleased, SharedHandlesWereReleased, Exists
<1>3. ASSUME HandleFree(req[r].handle), NEW i \in User, user[i].handle = req[r].handle
      PROVE  req[r].handle \in released
  BY <1>3 DEF HandleFree, SerialInv, OldHandlesAreReleased
<1>4. ChecksHold'
  <2>1. ASSUME NEW i \in User, NEW h \in Handle, ChangeAccountId(r, i, h),
               req'[r].user = i, req'[r].pc = "renameHandle"
        PROVE  ChecksHold'
    BY <1>1, <2>1 DEF ChangeAccountId, ChecksHold, OneAtATime
  <2>2. CASE /\ req'[r].handle = req[r].handle /\ req'[r].user = req[r].user
             /\ HandleFree(req[r].handle)
             /\ \/ req'[r].pc = "createUser"
                \/ req'[r].pc = "rename" /\ req[r].pc = "renameHandle"
    BY <1>1, <1>3, <2>2 DEF SerialInv, ChecksHold, OneAtATime
  <2>3. CASE /\ req'[r].handle = req[r].handle /\ req'[r].user = req[r].user
             /\ req'[r].pc = req[r].pc
    BY <1>1, <2>3 DEF SerialInv, ChecksHold, OneAtATime
  <2>4. CASE req'[r].pc \notin {"renameHandle", "createUser", "rename"}
    BY <2>4 DEF ChecksHold, OneAtATime
  <2> QED
    BY <2>1, <2>2, <2>3, <2>4 DEF GoesOn
<1>5. WithdrawersHaveLeft'
  <2> SUFFICES ASSUME req'[r].pc = "commitWithdraw", NEW d \in Device
               PROVE  <<req'[r].user, d>> \notin token'
    BY DEF WithdrawersHaveLeft, OneAtATime
  <2> QED
    BY DEF GoesOn, SerialInv, WithdrawersHaveLeft
<1> QED
  BY <1>2, <1>4, <1>5 DEF SerialInv

\* The account created, or renamed, has a handle that was found free.
LEMMA HandleGiven ==
    ASSUME IInv, SerialInv, NEW r \in Request, CreateUser(r) \/ Rename(r)
    PROVE  OldHandlesAreReleased' /\ SharedHandlesWereReleased'
<1>1. /\ user \in [User -> UserRow \cup {NoUser}]
      /\ req[r].pc \in {"createUser", "rename"} /\ UNCHANGED released
  BY DEF IInv, TypeOK, CreateUser, Rename
<1>2. PICK n \in User :
          /\ user'[n].handle = req[r].handle /\ user'[n].state = "active"
          /\ \A i \in User \ {n} : user'[i] = user[i]
  <2>1. CASE CreateUser(r)
    BY <1>1, <2>1 DEF CreateUser
  <2>2. CASE Rename(r)
    <3>1. req[r].user \in User /\ user[req[r].user].state = "active"
      BY <2>2 DEF Rename, IInv, RequestsAreFilled, OfAccount, SerialInv, ChecksHold
    <3>2. user[req[r].user] \in UserRow
      BY <1>1, <3>1 DEF NoUser
    <3> QED
      BY <1>1, <2>2, <3>1, <3>2 DEF Rename, UserRow
  <2> QED
    BY <2>1, <2>2
<1>3. \A i \in User : user[i].handle = req[r].handle => req[r].handle \in released
  BY <1>1 DEF SerialInv, ChecksHold
<1>4. OldHandlesAreReleased'
  BY <1>1, <1>2 DEF SerialInv, OldHandlesAreReleased
<1>5. SharedHandlesWereReleased'
  BY <1>1, <1>2, <1>3 DEF SerialInv, SharedHandlesWereReleased, Exists
<1> QED
  BY <1>4, <1>5

\* An account that withdraws, or comes back, keeps its handle.
LEMMA TurnKeeps ==
    ASSUME IInv, SerialInv, NEW r \in Request, NEW state \in {"active", "recent"},
           Turns(r, state), req[r].user \in User, Exists(req[r].user)
    PROVE  OldHandlesAreReleased' /\ SharedHandlesWereReleased'
<1>1. user \in [User -> UserRow \cup {NoUser}] /\ user[req[r].user] \in UserRow
  BY DEF IInv, TypeOK, Exists, NoUser
<1>2. /\ \A i \in User : user'[i].handle = user[i].handle /\ (Exists(i)' <=> Exists(i))
      /\ \A i \in User : user'[i].state = "old" => user[i].state = "old"
      /\ UNCHANGED released
  BY <1>1 DEF Turns, UserRow, Exists
<1> QED
  BY <1>2 DEF SerialInv, OldHandlesAreReleased, SharedHandlesWereReleased

\* Time gives up the handles of those who have been away.
LEMMA MonthKeeps ==
    ASSUME IInv, SerialInv, NEW n \in User, MonthPasses(n)
    PROVE  SerialInv'
<1>1. /\ user \in [User -> UserRow \cup {NoUser}]
      /\ \A r \in Request : req[r].user # n
      /\ UNCHANGED <<token, req>> /\ released \subseteq released'
  BY DEF IInv, TypeOK, MonthPasses
<1>2. /\ \A i \in User : user'[i].handle = user[i].handle /\ (Exists(i)' <=> Exists(i))
      /\ \A i \in User \ {n} : user'[i] = user[i]
      /\ user'[n].state = "old" => user[n].state = "old" \/ user[n].handle \in released'
  <2>1. user[n] \in UserRow
    BY <1>1 DEF MonthPasses, NoUser
  <2> QED
    BY <1>1, <2>1 DEF MonthPasses, UserRow, Exists
<1>3. OldHandlesAreReleased' /\ SharedHandlesWereReleased'
  BY <1>1, <1>2 DEF SerialInv, OldHandlesAreReleased, SharedHandlesWereReleased
<1>4. ChecksHold'
  <2> SUFFICES ASSUME NEW r \in Request
               PROVE  /\ req[r].pc \in {"createUser", "rename"} =>
                            \A i \in User :
                                user'[i].handle = req[r].handle => req[r].handle \in released'
                      /\ req[r].pc \in {"renameHandle", "rename"} =>
                            user'[req[r].user].state = "active"
    BY <1>1 DEF ChecksHold
  <2>1. req[r].pc \in {"renameHandle", "rename"} => req[r].user \in User \ {n}
    BY <1>1 DEF IInv, RequestsAreFilled, OfAccount
  <2> QED
    BY <1>1, <1>2, <2>1 DEF SerialInv, ChecksHold
<1>5. WithdrawersHaveLeft'
  BY <1>1 DEF SerialInv, WithdrawersHaveLeft
<1> QED
  BY <1>3, <1>4, <1>5 DEF SerialInv

LEMMA SerialStep ==
    ASSUME IInv, OneAtATime, SerialInv, [Next]_vars
    PROVE  SerialInv'
<1>1. CASE UNCHANGED vars
  BY <1>1 DEF vars, SerialInv, OldHandlesAreReleased, SharedHandlesWereReleased, ChecksHold,
      WithdrawersHaveLeft, Exists
<1>2. CASE Over /\ UNCHANGED <<user, released>>
  BY <1>2, OverKeeps
     DEF SerialInv, OldHandlesAreReleased, SharedHandlesWereReleased, Exists
<1>3. ASSUME NEW r \in Request, Over, Rename(r) PROVE SerialInv'
  BY <1>3, OverKeeps, HandleGiven DEF SerialInv
<1>4. ASSUME NEW r \in Request, Over, NEW state \in {"active", "recent"}, Turns(r, state),
             req[r].pc \in {"commitRestore", "commitWithdraw"}
      PROVE  SerialInv'
  <2>1. req[r].user \in User /\ Exists(req[r].user)
    BY <1>4, AccountsAssumption
       DEF IInv, RequestsAreFilled, SubjectsExist, OfAccount, OfSession
  <2> QED
    BY <1>4, <2>1, OverKeeps, TurnKeeps DEF SerialInv
<1>5. ASSUME NEW r \in Request, CreateUser(r) PROVE SerialInv'
  <2>1. req'[r].pc = "createToken"
    BY <1>5 DEF CreateUser, IInv, TypeOK
  <2>2. ChecksHold' /\ WithdrawersHaveLeft'
    BY <2>1 DEF ChecksHold, WithdrawersHaveLeft, OneAtATime
  <2> QED
    BY <1>5, <2>2, HandleGiven DEF SerialInv
<1> QED
  BY <1>1, <1>2, <1>3, <1>4, <1>5, SerialSteps, GoesOnKeeps, MonthKeeps

\* Whoever turns from active to withdrawn has no session left.
LEMMA WithdrawalStep ==
    ASSUME IInv, OneAtATime, SerialInv, [Next]_vars,
           NEW i \in User, NEW d \in Device,
           user[i].state = "active", user'[i].state = "recent"
    PROVE  <<i, d>> \notin token'
<1>1. user \in [User -> UserRow \cup {NoUser}] /\ user[i] \in UserRow
  BY DEF IInv, TypeOK, NoUser
<1>2. ASSUME NEW r \in Request, Turns(r, "recent"), req[r].pc = "commitWithdraw"
      PROVE  <<i, d>> \notin token'
  BY <1>1, <1>2 DEF Turns, SerialInv, WithdrawersHaveLeft
<1>3. ASSUME NEW r \in Request, Turns(r, "active") PROVE FALSE
  BY <1>1, <1>3 DEF Turns, UserRow
<1>4. ASSUME NEW r \in Request, Rename(r) PROVE FALSE
  BY <1>1, <1>4 DEF Rename, UserRow
<1>5. ASSUME NEW r \in Request, CreateUser(r) PROVE FALSE
  BY <1>1, <1>5 DEF CreateUser, Exists
<1>6. ASSUME NEW n \in User, MonthPasses(n) PROVE FALSE
  BY <1>1, <1>6 DEF MonthPasses, UserRow
<1> QED
  BY <1>2, <1>3, <1>4, <1>5, <1>6, SerialSteps DEF GoesOn, vars

\* With one request at a time, what register and changeAccountId have checked still
\* holds when they write, and a withdrawal has ended the sessions when it commits.
THEOREM SerialInvariance == ASSUME OneAtATime PROVE Spec => []SerialInv
<1>1. Init => SerialInv
  BY AccountsAssumption
     DEF Init, NoUser, Idle, SerialInv, OldHandlesAreReleased, SharedHandlesWereReleased,
         ChecksHold, WithdrawersHaveLeft, Exists
<1>2. IInv /\ SerialInv /\ [Next]_vars => SerialInv'
  BY OneAtATime, SerialStep
<1> QED
  BY <1>1, <1>2, Invariance, PTL DEF Spec

\* With one request at a time, two accounts have the same account id only when one of
\* those who had it was away for 30 days.
THEOREM HandlesHold == ASSUME OneAtATime PROVE Spec => []SharedHandlesWereReleased
<1>1. SerialInv => SharedHandlesWereReleased
  BY DEF SerialInv
<1> QED
  BY <1>1, SerialInvariance, PTL

\* UsersService.withdraw: with one request at a time, whatever times out, an account is
\* withdrawn without a session left, although tokens are deleted on another connection.
THEOREM WithdrawalsHold == ASSUME OneAtATime PROVE Spec => WithdrawalEndsSessions
<1>1. IInv /\ SerialInv /\ [Next]_vars =>
        \A i \in User, d \in Device :
            user[i].state = "active" /\ user'[i].state = "recent" => <<i, d>> \notin token'
  BY OneAtATime, WithdrawalStep
<1> QED
  BY <1>1, Invariance, SerialInvariance, PTL DEF Spec, WithdrawalEndsSessions

=============================================================================
