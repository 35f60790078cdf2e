------------------------------- MODULE Accounts -------------------------------
(***************************************************************************)
(* Accounts and sessions: AuthService and UsersService over the tables     *)
(* user and refresh_token.  The token repository does not take part in the *)
(* transactions around it: its statements run on a connection of their     *)
(* own, take effect at once, and stay if the transaction is rolled back.   *)
(* The pool of connections is finite; a transaction keeps one of them.     *)
(***************************************************************************)
EXTENDS Naturals, FiniteSets

CONSTANTS
    User,      \* ids a user row may get: a bound on accounts ever made
    Email,
    Handle,    \* account ids
    Device,
    Request,   \* HTTP requests in flight at a time
    PoolSize,  \* connections
    None       \* "no value"

ASSUME AccountsAssumption ==
    /\ PoolSize \in Nat \ {0}
    /\ None \notin User \cup Email \cup Handle \cup Device

VARIABLES
    user,      \* user[i]: the row with id i, NoUser if there is none
    token,     \* the pairs <<user, device>> with a stored refresh token
    released,  \* the handles an account withdrawn for 30 days has had
    req        \* req[r]: the next statement of request r, with its locals

vars == <<user, token, released, req>>

\* Withdrawn less than 30 days ago is "recent", longer "old".  mayRename: the
\* account id was never changed, or more than 30 days ago.
NoUser == [email |-> None, handle |-> None, state |-> "none", mayRename |-> TRUE]
UserRow ==
    [email : Email, handle : Handle, state : {"active", "recent", "old"},
     mayRename : BOOLEAN]

\* held: what the request's transaction keeps until it ends: nothing (there is
\* none), a connection, or a connection and the lock on the user's row.
Idle == [pc |-> "idle", user |-> None, device |-> None, email |-> None,
         handle |-> None, held |-> "nothing"]
RequestState ==
    [pc : {"idle", "registerHandle", "createUser", "renameHandle", "rename",
           "readToken", "updateToken", "createToken", "refresh",
           "beginRestore", "restoreUser", "commitRestore",
           "beginLogout", "logoutToken", "logoutUser",
           "beginWithdraw", "withdrawUser", "withdrawTokens", "commitWithdraw"},
     user : User \cup {None}, device : Device \cup {None}, email : Email \cup {None},
     handle : Handle \cup {None}, held : {"nothing", "connection", "row"}]

\* Rows, sessions and requests are well formed.
TypeOK ==
    /\ user \in [User -> UserRow \cup {NoUser}]
    /\ token \subseteq User \X Device
    /\ released \subseteq Handle
    /\ req \in [Request -> RequestState]

Init ==
    /\ user = [i \in User |-> NoUser]
    /\ token = {}
    /\ released = {}
    /\ req = [r \in Request |-> Idle]

-----------------------------------------------------------------------------

Exists(i) == user[i].state # "none"
Withdrawn(i) == user[i].state \in {"recent", "old"}
Key(r) == <<req[r].user, req[r].device>>

\* The statements that run on the connection of their transaction.
OnTransaction == {"restoreUser", "commitRestore", "logoutUser", "withdrawUser",
                  "commitWithdraw"}

\* A connection is left for a statement outside any transaction.
Free == Cardinality({q \in Request : req[q].held # "nothing"}) < PoolSize

\* No other transaction has written the row of i.
RowFree(r, i) == \A q \in Request \ {r} : req[q].held = "row" => req[q].user # i

Begin(r, step) == req[r].pc = "idle" /\ Free /\ req' = [req EXCEPT ![r] = step]
Goto(r, pc) == req' = [req EXCEPT ![r].pc = pc]

\* The answer, an error or not: whatever a transaction holds is given back.
Finish(r) == req' = [req EXCEPT ![r] = Idle]

\* The next statement of the transaction, if there is one and it is still open.
Proceed(r, pc) ==
    \/ req[r].held # "nothing" /\ Goto(r, pc)
    \/ req[r].held = "nothing" /\ Finish(r)

\* BEGIN waits for a connection and keeps it.
BeginTransaction(r) ==
    /\ Free
    /\ \E step \in {<<"beginRestore", "restoreUser">>, <<"beginLogout", "logoutToken">>,
                    <<"beginWithdraw", "withdrawUser">>} :
        /\ req[r].pc = step[1]
        /\ req' = [req EXCEPT ![r].pc = step[2], ![r].held = "connection"]
    /\ UNCHANGED <<user, token, released>>

\* Mutant: only a transaction that has written is timed.
TimeoutOfWriters(r) ==
    /\ req[r].held = "row"
    /\ \/ req[r].pc \in OnTransaction /\ Finish(r)
       \/ req[r].pc \notin OnTransaction /\ req' = [req EXCEPT ![r].held = "nothing"]
    /\ UNCHANGED <<user, token, released>>

\* An interactive transaction that takes too long is rolled back, and its next
\* statement fails.  A statement of the token repository is not part of it and
\* still runs.
Timeout(r) ==
    /\ req[r].held # "nothing"
    /\ \/ req[r].pc \in OnTransaction /\ Finish(r)
       \/ req[r].pc \notin OnTransaction /\ req' = [req EXCEPT ![r].held = "nothing"]
    /\ UNCHANGED <<user, token, released>>

\* A statement, or a BEGIN, that has waited too long for a connection fails.
PoolTimeout(r) ==
    /\ req[r].pc \notin OnTransaction \cup {"idle"} /\ ~Free
    /\ Finish(r)
    /\ UNCHANGED <<user, token, released>>

-----------------------------------------------------------------------------
(* AuthService.register and UsersService.changeAccountId *)

\* checkDuplicateEmail: some withdrawn account with the email, of several any;
\* active ones are not looked at.
EmailFree(e) ==
    LET withdrawn == {i \in User : user[i].email = e /\ Withdrawn(i)}
    IN  withdrawn = {} \/ \E i \in withdrawn : user[i].state = "old"

\* A bound of the model: every registration under way gets an id.
IdLeft ==
    Cardinality({i \in User : ~Exists(i)})
        > Cardinality({q \in Request : req[q].pc \in {"registerHandle", "createUser"}})

\* checkDuplicateAccountId: some account with the handle, of several any.
HandleFree(h) ==
    LET holders == {i \in User : user[i].handle = h}
    IN  holders = {} \/ \E i \in holders : user[i].state = "old"
HandleTaken(h) == \E i \in User : user[i].handle = h /\ user[i].state # "old"

\* Mutant: the device id is not validated.
RegisterAnyDevice(r, e, h, d) ==
    /\ EmailFree(e) /\ IdLeft
    /\ \E id \in {d, None} :
        Begin(r, [Idle EXCEPT !.pc = "registerHandle", !.email = e, !.handle = h,
                              !.device = id])
    /\ UNCHANGED <<user, token, released>>

\* validateDeviceId, then the check of the email.
Register(r, e, h, d) ==
    /\ EmailFree(e) /\ IdLeft
    /\ Begin(r, [Idle EXCEPT !.pc = "registerHandle", !.email = e, !.handle = h, !.device = d])
    /\ UNCHANGED <<user, token, released>>

\* checkAccountIdChangeCooldown
ChangeAccountId(r, i, h) ==
    /\ user[i].state = "active" /\ user[i].mayRename
    /\ Begin(r, [Idle EXCEPT !.pc = "renameHandle", !.user = i, !.handle = h])
    /\ UNCHANGED <<user, token, released>>

\* Mutant: a withdrawn account does not keep its handle.
CheckHandleActive(r) ==
    /\ Free
    /\ \E step \in {<<"registerHandle", "createUser">>, <<"renameHandle", "rename">>} :
        /\ req[r].pc = step[1]
        /\ \/ /\ \A i \in User : user[i].handle = req[r].handle => user[i].state # "active"
              /\ Goto(r, step[2])
           \/ HandleTaken(req[r].handle) /\ Finish(r)
    /\ UNCHANGED <<user, token, released>>

CheckHandle(r) ==
    /\ Free
    /\ \E step \in {<<"registerHandle", "createUser">>, <<"renameHandle", "rename">>} :
        /\ req[r].pc = step[1]
        /\ \/ HandleFree(req[r].handle) /\ Goto(r, step[2])
           \/ HandleTaken(req[r].handle) /\ Finish(r)
    /\ UNCHANGED <<user, token, released>>

\* The unique indexes hold deleted_at, which is NULL: they refuse nothing here.
CreateUser(r) ==
    /\ req[r].pc = "createUser" /\ Free
    /\ \E i \in User :
        /\ ~Exists(i)
        /\ user' = [user EXCEPT ![i] =
                [email |-> req[r].email, handle |-> req[r].handle, state |-> "active",
                 mayRename |-> TRUE]]
        /\ req' = [req EXCEPT ![r].pc = "createToken", ![r].user = i]
    /\ UNCHANGED <<token, released>>

\* update by id: the account may have been withdrawn since it was checked.
Rename(r) ==
    LET i == req[r].user
    IN  /\ req[r].pc = "rename" /\ Free /\ RowFree(r, i)
        /\ user' = [user EXCEPT ![i].handle = req[r].handle, ![i].mayRename = FALSE]
        /\ Finish(r)
        /\ UNCHANGED <<token, released>>

-----------------------------------------------------------------------------
(* AuthService.login *)

\* getValidatedUserByEmail: ordered by deleted_at descending, NULL first: an active
\* account if there is one, else a withdrawn one (the last; here, any recent one).
Validated(i) ==
    \/ user[i].state = "active"
    \/ /\ user[i].state = "recent"
       /\ \A j \in User : user[j].email = user[i].email => user[j].state # "active"

Login(r, i, d) ==
    /\ Validated(i)
    /\ Begin(r, [Idle EXCEPT !.pc = IF user[i].state = "active" THEN "readToken"
                                    ELSE "beginRestore",
                             !.user = i, !.device = d])
    /\ UNCHANGED <<user, token, released>>

\* restoreUser: resetDeletedAt locks the row; the token is stored meanwhile.
RestoreUser(r) ==
    /\ req[r].pc = "restoreUser" /\ RowFree(r, req[r].user)
    /\ req' = [req EXCEPT ![r].pc = "readToken", ![r].held = "row"]
    /\ UNCHANGED <<user, token, released>>

CommitRestore(r) ==
    /\ req[r].pc = "commitRestore"
    /\ user' = [user EXCEPT ![req[r].user].state = "active"]
    /\ Finish(r)
    /\ UNCHANGED <<token, released>>

\* handleStoreRefreshToken
ReadToken(r) ==
    /\ req[r].pc = "readToken" /\ Free
    /\ Goto(r, IF Key(r) \in token THEN "updateToken" ELSE "createToken")
    /\ UNCHANGED <<user, token, released>>

\* Without its row, P2025: the login fails.
UpdateToken(r) ==
    /\ req[r].pc = "updateToken" /\ Free
    /\ \/ Key(r) \in token /\ Proceed(r, "commitRestore")
       \/ Key(r) \notin token /\ Finish(r)
    /\ UNCHANGED <<user, token, released>>

\* The primary key refuses a second row: the login fails.
CreateToken(r) ==
    /\ req[r].pc = "createToken" /\ Free
    /\ \/ Key(r) \notin token /\ token' = token \cup {Key(r)} /\ Proceed(r, "commitRestore")
       \/ Key(r) \in token /\ UNCHANGED token /\ Finish(r)
    /\ UNCHANGED <<user, released>>

-----------------------------------------------------------------------------
(* AuthService.refreshAccessToken and logout, UsersService.withdraw *)

\* checkValidRefreshToken: the token presented is the one stored.  Which tokens
\* there are is left out: it may also be another one, and the request fails.
Refresh(r, i, d) ==
    /\ <<i, d>> \in token
    /\ Begin(r, [Idle EXCEPT !.pc = "refresh", !.user = i, !.device = d])
    /\ UNCHANGED <<user, token, released>>

\* Mutant: stores the new token whether or not there is a row.
UpsertRefreshed(r) ==
    /\ req[r].pc = "refresh" /\ Free
    /\ token' = token \cup {Key(r)}
    /\ Finish(r)
    /\ UNCHANGED <<user, released>>

\* updateToken replaces the stored token, whichever it is by now; without its
\* row, P2025.
UpdateRefreshed(r) ==
    /\ req[r].pc = "refresh" /\ Free
    /\ Finish(r)
    /\ UNCHANGED <<user, token, released>>

\* The access token proves who asks; nobody looks whether the account is active.
Logout(r, i, d) ==
    /\ Exists(i)
    /\ Begin(r, [Idle EXCEPT !.pc = "beginLogout", !.user = i, !.device = d])
    /\ UNCHANGED <<user, token, released>>

\* logoutTransaction: the token, then the user's notification token.
LogoutStatement(r) ==
    \/ /\ req[r].pc = "logoutToken" /\ Free
       /\ \/ Key(r) \in token /\ token' = token \ {Key(r)} /\ Proceed(r, "logoutUser")
          \/ Key(r) \notin token /\ UNCHANGED token /\ Finish(r)
       /\ UNCHANGED <<user, released>>
    \/ /\ req[r].pc = "logoutUser" /\ RowFree(r, req[r].user)
       /\ Finish(r)
       /\ UNCHANGED <<user, token, released>>

Withdraw(r, i) ==
    /\ Exists(i)
    /\ Begin(r, [Idle EXCEPT !.pc = "beginWithdraw", !.user = i])
    /\ UNCHANGED <<user, token, released>>

\* Mutant: the sessions are left to expire.
WithdrawUserOnly(r) ==
    \/ /\ req[r].pc = "withdrawUser" /\ RowFree(r, req[r].user)
       /\ req' = [req EXCEPT ![r].pc = "commitWithdraw", ![r].held = "row"]
       /\ UNCHANGED <<user, token, released>>
    \/ /\ req[r].pc = "commitWithdraw"
       /\ user' = [user EXCEPT ![req[r].user].state = "recent"]
       /\ Finish(r)
       /\ UNCHANGED <<token, released>>

\* withdrawTransaction
WithdrawStatement(r) ==
    \/ /\ req[r].pc = "withdrawUser" /\ RowFree(r, req[r].user)
       /\ req' = [req EXCEPT ![r].pc = "withdrawTokens", ![r].held = "row"]
       /\ UNCHANGED <<user, token, released>>
    \/ /\ req[r].pc = "withdrawTokens" /\ Free
       /\ token' = {k \in token : k[1] # req[r].user}
       /\ Proceed(r, "commitWithdraw")
       /\ UNCHANGED <<user, released>>
    \/ /\ req[r].pc = "commitWithdraw"
       /\ user' = [user EXCEPT ![req[r].user].state = "recent"]
       /\ Finish(r)
       /\ UNCHANGED <<token, released>>

-----------------------------------------------------------------------------

\* Thirty days pass since the withdrawal, or since the last change of handle.
MonthPasses(i) ==
    /\ \/ /\ user[i].state = "recent"
          /\ user' = [user EXCEPT ![i].state = "old"]
          /\ released' = released \cup {user[i].handle}
       \/ /\ ~user[i].mayRename
          /\ user' = [user EXCEPT ![i].mayRename = TRUE]
          /\ UNCHANGED released
    /\ \A r \in Request : req[r].user # i
    /\ UNCHANGED <<token, req>>

\* The process stops: requests vanish, transactions are rolled back.
Crash ==
    /\ \E r \in Request : req[r].pc # "idle"
    /\ req' = [r \in Request |-> Idle]
    /\ UNCHANGED <<user, token, released>>

Arrival(r) ==
    \/ \E e \in Email, h \in Handle, d \in Device : Register(r, e, h, d)
    \/ \E i \in User :
        \/ \E h \in Handle : ChangeAccountId(r, i, h)
        \/ \E d \in Device : Login(r, i, d) \/ Refresh(r, i, d) \/ Logout(r, i, d)
        \/ Withdraw(r, i)

Progress(r) ==
    \/ BeginTransaction(r)
    \/ CheckHandle(r) \/ CreateUser(r) \/ Rename(r)
    \/ RestoreUser(r) \/ CommitRestore(r)
    \/ ReadToken(r) \/ UpdateToken(r) \/ CreateToken(r)
    \/ UpdateRefreshed(r) \/ LogoutStatement(r) \/ WithdrawStatement(r)

Next ==
    \/ \E r \in Request : Arrival(r) \/ Progress(r) \/ Timeout(r) \/ PoolTimeout(r)
    \/ \E i \in User : MonthPasses(i)
    \/ Crash

Spec == Init /\ [][Next]_vars

\* Continuations run, the server answers, waiters for a connection or a row are
\* served in turn, and the timer of a transaction fires.
FairSpec ==
    /\ Spec
    /\ \A r \in Request : SF_vars(Progress(r)) /\ WF_vars(Timeout(r))

-----------------------------------------------------------------------------

\* Only a login opens a session and only a logout or a withdrawal closes it: a
\* refresh that was checked before either does not bring it back.
At(steps) == {r \in Request : req[r].pc \in steps}
Contract == INSTANCE SessionContract WITH
    sessions <- token,
    entering <- {Key(r) : r \in At({"createToken"})},
    leaving <- {Key(r) : r \in At({"logoutToken"})},
    closing <- {req[r].user : r \in At({"withdrawTokens"})}
KeepsSessions == Contract!Spec

\* Every request is answered, although transactions that hold every connection
\* of the pool may each wait for one more.
RequestsFinish == \A r \in Request : req[r].pc # "idle" ~> req[r].pc = "idle"

\* While requests do not overlap: two accounts share a handle only after one that
\* was withdrawn for 30 days has given it up.
SharedHandlesWereReleased ==
    \A i, j \in User :
        Exists(i) /\ i # j /\ user[i].handle = user[j].handle => user[i].handle \in released

\* While requests do not overlap: an account is withdrawn without a session left.
WithdrawalEndsSessions ==
    [][\A i \in User, d \in Device :
            user[i].state = "active" /\ user'[i].state = "recent" => <<i, d>> \notin token']_vars

\* "An account id that exists already": no two active accounts have the same.
ActiveHandlesDistinct ==
    \A i, j \in User :
        user[i].state = "active" /\ user[j].state = "active" /\ user[i].handle = user[j].handle
            => i = j

=============================================================================
