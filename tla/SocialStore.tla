----------------------------- MODULE SocialStore -----------------------------
(***************************************************************************)
(* The tables that friendships, friend reports and gathering invitations   *)
(* share, and the way PostgreSQL runs the repositories' statements on      *)
(* them.  Every awaited repository call is one statement: it takes effect  *)
(* at one instant, on committed rows (READ COMMITTED), once no row it      *)
(* writes is locked by another transaction.  A method marked               *)
(* @Transactional runs several statements: what they did so far is kept in *)
(* pending[r], invisible to the other requests, and at the same time is    *)
(* the set of row locks the transaction holds.                             *)
(***************************************************************************)
EXTENDS Naturals

CONSTANTS
    User,         \* users; withdrawal is the business of the account modules
    FriendId,     \* ids a friend row may get: a bound on live rows
    GatheringId,  \* ids a gathering may get: a bound on gatherings ever made
    Request,      \* HTTP requests in flight at a time; one slot is one request
    GroupMember,  \* members of the group a GROUP gathering is created for
    None          \* "no value"

ASSUME StoreAssumption ==
    /\ None \notin User \cup FriendId \cup GatheringId
    /\ GroupMember \subseteq User

VARIABLES
    friend,         \* friend[i]: the row with id i, NoFriend if there is none
    gathering,      \* gathering[g]: the row with id g, NoGathering if none
    participation,  \* participation[<<g, u>>]: status of u's row for g, or "NONE"
    report,         \* report[<<u, v>>]: number of reports of v filed by u
    blocked,        \* blocked_user: the pairs <<blocker, blocked>>
    pending,        \* pending[r]: uncommitted writes and row locks of r
    req             \* req[r]: the next statement of request r, with its locals

tables == <<friend, gathering, participation, report, blocked>>
vars == <<friend, gathering, participation, report, blocked, pending, req>>

NoFriend == [sender |-> None, receiver |-> None, status |-> "NONE"]
NoGathering == [host |-> None, type |-> None, ended |-> FALSE, deleted |-> FALSE]
Idle == [pc |-> "idle", user |-> None, peer |-> None, gathering |-> None,
         row |-> None, invitees |-> {}, todo |-> {}]

TransactionSteps ==
    {"unfriendRows", "unfriendInvitations", "reportInvitations", "reportSave",
     "reportBlock", "reportRows", "dropGathering", "dropInvitations", "commit"}

Steps ==
    TransactionSteps \cup
    {"idle", "saveFriend", "acceptFriend", "rejectFriend", "checkInvitees",
     "saveFriendGathering", "saveGroupGathering", "acceptInvitation",
     "rejectInvitation"}

\* A write that is not committed, named by its table and key: a friend or a
\* participation deleted, a gathering soft-deleted, a block or a report added.
Write ==
    ({"friend"} \X FriendId)
        \cup ({"gathering"} \X GatheringId)
        \cup ({"participation"} \X (GatheringId \X User))
        \cup ({"report", "blocked"} \X (User \X User))

RequestState ==
    [pc : Steps, user : User \cup {None}, peer : User \cup {None},
     gathering : GatheringId \cup {None}, row : FriendId \cup {None},
     invitees : SUBSET User, todo : SUBSET User]

\* The rows are well formed: each table, each transaction and each request in
\* flight holds values the entity classes allow.
TypeOK ==
    /\ friend \in [FriendId ->
            [sender : User, receiver : User, status : {"PENDING", "ACCEPTED"}]
                \cup {NoFriend}]
    /\ gathering \in [GatheringId ->
            [host : User, type : {"FRIEND", "GROUP"}, ended : BOOLEAN, deleted : BOOLEAN]
                \cup {NoGathering}]
    /\ participation \in [GatheringId \X User -> {"NONE", "PENDING", "ACCEPTED"}]
    /\ report \in [User \X User -> Nat]
    /\ blocked \subseteq User \X User
    /\ pending \in [Request -> SUBSET Write]
    /\ req \in [Request -> RequestState]

Init ==
    /\ friend = [i \in FriendId |-> NoFriend]
    /\ gathering = [g \in GatheringId |-> NoGathering]
    /\ participation = [p \in GatheringId \X User |-> "NONE"]
    /\ report = [p \in User \X User |-> 0]
    /\ blocked = {}
    /\ pending = [r \in Request |-> {}]
    /\ req = [r \in Request |-> Idle]

-----------------------------------------------------------------------------
(* What the repositories' queries select. *)

\* findOneBySenderAndReceiverId, deleteByUserIds: either direction.
RowsBetween(u, v) ==
    {i \in FriendId : \/ friend[i].sender = u /\ friend[i].receiver = v
                      \/ friend[i].sender = v /\ friend[i].receiver = u}

\* The rows the unique index on (sender_id, receiver_id) compares a new row with.
SameKey(u, v) == {i \in FriendId : friend[i].sender = u /\ friend[i].receiver = v}

\* Mutant: without the condition on the status.
AllBetween(u, v) ==
    {p \in GatheringId \X User :
        /\ participation[p] # "NONE"
        /\ \/ p[2] = u /\ gathering[p[1]].host = v
           \/ p[2] = v /\ gathering[p[1]].host = u}

\* deleteAllPendingInvitation: invitations between two users, whoever hosts and
\* whatever the type of the gathering.
PendingBetween(u, v) ==
    {p \in GatheringId \X User :
        /\ participation[p] = "PENDING"
        /\ \/ p[2] = u /\ gathering[p[1]].host = v
           \/ p[2] = v /\ gathering[p[1]].host = u}

\* Mutant: retracts only the invitations still open.
OpenRowsOfGathering(g) ==
    {p \in GatheringId \X User : p[1] = g /\ participation[p] = "PENDING"}

\* deleteAllByGatheringId.
RowsOfGathering(g) ==
    {p \in GatheringId \X User : p[1] = g /\ participation[p] # "NONE"}

\* The active_gathering view.
Active(g) == gathering[g].host # None /\ ~gathering[g].deleted

\* v4(): an id no row carries and no request in flight remembers.
FreshFriend(i) ==
    /\ friend[i].status = "NONE"
    /\ \A q \in Request : req[q].row # i
FreshGathering(g) ==
    /\ gathering[g].host = None
    /\ \A q \in Request : req[q].gathering # g

-----------------------------------------------------------------------------
(* Statements and transactions. *)

\* No other transaction holds one of the locks.
Unlocked(r, locks) == \A q \in Request \ {r} : pending[q] \cap locks = {}

\* A request arrives and its first check passes; step is its next statement.
\* A request whose check fails is answered 4xx and leaves no trace.
Begin(r, step) ==
    /\ req[r].pc = "idle"
    /\ req' = [req EXCEPT ![r] = step]

\* The answer, whatever it is: the slot is free again.
Finish(r) == req' = [req EXCEPT ![r] = Idle]

\* Mutant: rows are written under another transaction's lock.
ExecuteUnlocked(r, writes, next) ==
    /\ pending' = [pending EXCEPT ![r] = @ \cup writes]
    /\ req' = [req EXCEPT ![r].pc = next]
    /\ UNCHANGED tables

\* One statement of a transaction: its writes join the uncommitted ones.
Execute(r, writes, next) ==
    /\ Unlocked(r, writes)
    /\ pending' = [pending EXCEPT ![r] = @ \cup writes]
    /\ req' = [req EXCEPT ![r].pc = next]
    /\ UNCHANGED tables

Rollback(r) ==
    /\ pending' = [pending EXCEPT ![r] = {}]
    /\ Finish(r)
    /\ UNCHANGED tables

\* The transactional method returns: all of its writes become visible at once.
Commit(r) ==
    /\ req[r].pc = "commit"
    /\ friend' = [i \in FriendId |->
            IF <<"friend", i>> \in pending[r] THEN NoFriend ELSE friend[i]]
    /\ gathering' = [g \in GatheringId |->
            IF <<"gathering", g>> \in pending[r]
            THEN [gathering[g] EXCEPT !.deleted = TRUE] ELSE gathering[g]]
    /\ participation' = [p \in GatheringId \X User |->
            IF <<"participation", p>> \in pending[r] THEN "NONE" ELSE participation[p]]
    /\ report' = [p \in User \X User |->
            IF <<"report", p>> \in pending[r] THEN report[p] + 1 ELSE report[p]]
    /\ blocked' = blocked \cup {p \in User \X User : <<"blocked", p>> \in pending[r]}
    /\ pending' = [pending EXCEPT ![r] = {}]
    /\ Finish(r)

=============================================================================
