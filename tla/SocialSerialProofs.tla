-------------------------- MODULE SocialSerialProofs --------------------------
(***************************************************************************)
(* What the checks before a write guarantee as long as requests do not     *)
(* overlap, for any number of users and ids.                               *)
(***************************************************************************)
EXTENDS SocialGraphProofs

OneAtATime == \A r, q \in Request : r = q

\* What the request in flight has read of friendships still holds when it writes.
ChecksHold ==
    \A r \in Request :
        LET u == req[r].user
        IN  /\ req[r].pc = "saveFriend" => RowsBetween(u, req[r].peer) = {}
            /\ req[r].pc = "rejectFriend" => ~ReadsFriend(u, req[r].peer)
            /\ req[r].pc = "checkInvitees" =>
                \A v \in req[r].invitees \ req[r].todo : ReadsFriend(u, v)
            /\ req[r].pc = "saveFriendGathering" =>
                \A v \in req[r].invitees \ {u} : ReadsFriend(u, v)

\* Who deletes friend rows deletes those between two users, and their open
\* invitations before he commits.
InvitationsGoToo ==
    \A r \in Request :
        /\ \A i \in FriendId : <<"friend", i>> \in pending[r] =>
            /\ req[r].pc \in {"unfriendInvitations", "commit"}
            /\ i \in RowsBetween(req[r].user, req[r].peer)
            /\ req[r].pc = "commit" => InvitationLocks(r) \subseteq pending[r]
        /\ req[r].pc \in {"reportSave", "reportBlock", "reportRows"} =>
            InvitationLocks(r) \subseteq pending[r]

SerialInv ==
    /\ ChecksHold
    /\ InvitationsGoToo
    /\ OneRowPerPair
    /\ OpenInvitationsAreFromFriends

-----------------------------------------------------------------------------
(* What a step does to friend rows and to the request in flight *)

\* A request that is over has nothing left to write, and nobody else has.
Over == \A r \in Request : req'[r] = Idle /\ pending'[r] = {}

\* A request that goes on changes no table.
GoesOn(r) ==
    /\ UNCHANGED tables
    /\ \/ \E u, v \in User :
            \/ RequestFriend(r, u, v)
            \/ AcceptFriend(r, u, v)
            \/ RejectFriend(r, u, v)
            \/ Unfriend(r, u, v)
            \/ ReportFriend(r, u, v)
       \/ \E u \in User, g \in GatheringId :
            \/ \E invitees \in SUBSET User : CreateFriendGathering(r, u, g, invitees)
            \/ CreateGroupGathering(r, u, g)
            \/ AcceptInvitation(r, u, g)
            \/ RejectInvitation(r, u, g)
            \/ DeleteGathering(r, u, g)
       \/ \E v \in User : CheckInvitee(r, v)
       \/ UnfriendStatement(r) \/ ReportStatement(r) \/ DropStatement(r)

\* A request that writes what is committed at once is over with it.
Writes(r) ==
    SaveFriend(r) \/ UpdateFriend(r) \/ DeleteFriend(r) \/ SaveGathering(r)
        \/ AnswerInvitation(r) \/ Commit(r)

LEMMA FinishIsOver ==
    ASSUME IInv, OneAtATime, NEW r \in Request, Finish(r),
           pending'[r] = {}
    PROVE  Over
<1>1. req \in [Request -> RequestState]
  BY DEF IInv, TypeOK
<1> QED
  BY <1>1 DEF Finish, Over, OneAtATime

LEMMA SerialSteps ==
    ASSUME IInv, OneAtATime, [Next]_vars
    PROVE  \/ \E r \in Request : GoesOn(r)
           \/ Over /\ \E r \in Request : Writes(r)
           \/ Over /\ UNCHANGED tables
           \/ \E g \in GatheringId : EndGathering(g)
           \/ UNCHANGED vars
<1>0. /\ pending \in [Request -> SUBSET Write]
      /\ \A r \in Request : req[r].pc \notin TransactionSteps => pending[r] = {}
  BY DEF IInv, TypeOK, TransactionsConsistent, WritesInTransactions
<1>1. ASSUME NEW r \in Request, NEW u \in User, NEW v \in User,
             \/ RequestFriend(r, u, v)
             \/ AcceptFriend(r, u, v)
             \/ RejectFriend(r, u, v)
             \/ Unfriend(r, u, v)
             \/ ReportFriend(r, u, v)
      PROVE  GoesOn(r)
  <2>1. UNCHANGED tables
    BY <1>1, AfterFriendshipArrival DEF IInv
  <2> QED
    BY <1>1, <2>1 DEF GoesOn
<1>2. ASSUME NEW r \in Request, NEW u \in User, NEW g \in GatheringId,
             \/ \E invitees \in SUBSET User : CreateFriendGathering(r, u, g, invitees)
             \/ CreateGroupGathering(r, u, g)
             \/ AcceptInvitation(r, u, g)
             \/ RejectInvitation(r, u, g)
             \/ DeleteGathering(r, u, g)
      PROVE  GoesOn(r)
  <2>1. UNCHANGED tables
    BY <1>2, AfterInvitationArrival DEF IInv
  <2> QED
    BY <1>2, <2>1 DEF GoesOn
<1>3. ASSUME NEW r \in Request, NEW v \in User, CheckInvitee(r, v) PROVE GoesOn(r)
  BY <1>3 DEF CheckInvitee, GoesOn
<1>4. ASSUME NEW r \in Request, UnfriendStatement(r) \/ ReportStatement(r) \/ DropStatement(r)
      PROVE  GoesOn(r)
  <2>1. UNCHANGED tables
    BY <1>4, AfterStatement DEF IInv
  <2> QED
    BY <1>4, <2>1 DEF GoesOn
<1>5. ASSUME NEW r \in Request,
             SaveFriend(r) \/ UpdateFriend(r) \/ DeleteFriend(r) \/ SaveGathering(r)
                \/ AnswerInvitation(r)
      PROVE  Over /\ Writes(r)
  <2>1. Finish(r) /\ UNCHANGED pending
    BY <1>5 DEF SaveFriend, UpdateFriend, DeleteFriend, SaveGathering, AnswerInvitation
  <2>2. req[r].pc \notin TransactionSteps
    BY <1>5 DEF SaveFriend, UpdateFriend, DeleteFriend, SaveGathering, AnswerInvitation,
        TransactionSteps
  <2> QED
    BY <1>0, <1>5, <2>1, <2>2, FinishIsOver DEF Writes
<1>6. ASSUME NEW r \in Request, Commit(r) PROVE Over /\ Writes(r)
  BY <1>0, <1>6, FinishIsOver DEF Commit, Writes
<1>7. ASSUME NEW r \in Request, Rollback(r) PROVE Over /\ UNCHANGED tables
  BY <1>0, <1>7, FinishIsOver DEF Rollback
<1>8. CASE Crash
  BY <1>8 DEF Crash, Over
<1> QED
  BY <1>1, <1>2, <1>3, <1>4, <1>5, <1>6, <1>7, <1>8, NextCases

-----------------------------------------------------------------------------
(* The request in flight *)

\* The same friend rows answer the same queries.
LEMMA SameQueries ==
    ASSUME UNCHANGED friend
    PROVE  /\ \A u, v : RowsBetween(u, v)' = RowsBetween(u, v)
           /\ \A u, v : ReadsFriend(u, v)' = ReadsFriend(u, v)
  BY DEF RowsBetween, ReadsFriend

\* A request that is over needs nothing.
LEMMA OverKeeps == Over => ChecksHold' /\ InvitationsGoToo'
  BY DEF Over, ChecksHold, InvitationsGoToo, Idle

\* What a new request has just read of friendships.
LEMMA ArrivalChecks ==
    ASSUME IInv, OneAtATime, OneRowPerPair, NEW r \in Request, NEW u \in User, NEW v \in User,
           UNCHANGED tables,
           \/ RequestFriend(r, u, v)
           \/ AcceptFriend(r, u, v)
           \/ RejectFriend(r, u, v)
           \/ Unfriend(r, u, v)
           \/ ReportFriend(r, u, v)
    PROVE  ChecksHold'
<1>1. req \in [Request -> RequestState]
  BY DEF IInv, TypeOK
<1>2. /\ RowsBetween(u, v)' = RowsBetween(u, v)
      /\ ReadsFriend(u, v)' = ReadsFriend(u, v)
  BY SameQueries DEF tables
<1>3. CASE RequestFriend(r, u, v)
  <2>1. req'[r].pc = "saveFriend" /\ req'[r].user = u /\ req'[r].peer = v
        /\ RowsBetween(u, v) = {}
    BY <1>1, <1>3 DEF RequestFriend, Begin, About, Idle
  <2> QED
    BY <1>2, <2>1 DEF ChecksHold, OneAtATime
<1>4. CASE RejectFriend(r, u, v)
  <2>1. PICK i \in RowsBetween(u, v) :
            /\ friend[i].status = "PENDING"
            /\ Begin(r, [About("rejectFriend", u, v) EXCEPT !.row = None])
    BY <1>4 DEF RejectFriend, ReadPendingRequest
  <2>2. req'[r].pc = "rejectFriend" /\ req'[r].user = u /\ req'[r].peer = v
    BY <1>1, <2>1 DEF Begin, About, Idle
  <2>3. \A j \in RowsBetween(u, v) : i = j
    BY <2>1 DEF OneRowPerPair, RowsBetween
  <2>4. ~ReadsFriend(u, v)
    BY <2>1, <2>3 DEF ReadsFriend
  <2> QED
    BY <1>2, <2>2, <2>4 DEF ChecksHold, OneAtATime
<1>5. CASE AcceptFriend(r, u, v) \/ Unfriend(r, u, v) \/ ReportFriend(r, u, v)
  <2>1. req'[r].pc \in {"acceptFriend", "unfriendRows", "reportInvitations"}
    BY <1>1, <1>5 DEF AcceptFriend, ReadPendingRequest, Unfriend, ReportFriend,
        ReadAcceptedFriend, Begin, About, Idle
  <2> QED
    BY <2>1 DEF ChecksHold, OneAtATime
<1> QED
  BY <1>3, <1>4, <1>5

\* A check of one invitee more.
LEMMA InviteeChecks ==
    ASSUME IInv, OneAtATime, ChecksHold, NEW r \in Request, NEW v \in User, CheckInvitee(r, v)
    PROVE  ChecksHold'
<1>1. req \in [Request -> RequestState]
  BY DEF IInv, TypeOK
<1>3. UNCHANGED friend /\ req[r].pc = "checkInvitees"
  BY DEF CheckInvitee, tables
<1>4. \A x, w : ReadsFriend(x, w)' = ReadsFriend(x, w)
  BY <1>3 DEF ReadsFriend, RowsBetween
<1>5. \A w \in req[r].invitees \ req[r].todo : ReadsFriend(req[r].user, w)
  BY <1>3 DEF ChecksHold
<1>6. CASE /\ ReadsFriend(req[r].user, v)
           /\ req' = [req EXCEPT ![r].todo = req[r].todo \ {v}]
  <2>1. /\ req'[r].pc = "checkInvitees" /\ req'[r].user = req[r].user
        /\ req'[r].invitees = req[r].invitees /\ req'[r].todo = req[r].todo \ {v}
    BY <1>1, <1>3, <1>6 DEF RequestState
  <2> QED
    BY <1>4, <1>5, <1>6, <2>1 DEF ChecksHold, OneAtATime
<1>7. CASE /\ ReadsFriend(req[r].user, v)
           /\ req[r].todo = {v}
           /\ req' = [req EXCEPT ![r] =
                    [Idle EXCEPT !.pc = "saveFriendGathering",
                                 !.user = req[r].user,
                                 !.gathering = req[r].gathering,
                                 !.invitees = req[r].invitees \cup {req[r].user}]]
  <2>1. /\ req'[r].pc = "saveFriendGathering" /\ req'[r].user = req[r].user
        /\ req'[r].invitees = req[r].invitees \cup {req[r].user}
    BY <1>1, <1>7 DEF Idle
  <2>2. \A w \in req[r].invitees : ReadsFriend(req[r].user, w)
    BY <1>5, <1>7
  <2> QED
    BY <1>4, <2>1, <2>2 DEF ChecksHold, OneAtATime
<1>8. CASE Finish(r)
  BY <1>1, <1>8 DEF Finish, Idle, ChecksHold, OneAtATime
<1> QED
  BY <1>6, <1>7, <1>8 DEF CheckInvitee

\* A request that goes on finds what it has read as it was.
LEMMA GoesOnChecks ==
    ASSUME IInv, OneAtATime, ChecksHold, OneRowPerPair, NEW r \in Request, GoesOn(r)
    PROVE  ChecksHold'
<1>1. req \in [Request -> RequestState]
  BY DEF IInv, TypeOK
<1>2. UNCHANGED tables
  BY DEF GoesOn
<1>3. ASSUME NEW u \in User, NEW g \in GatheringId, NEW invitees \in SUBSET User,
             CreateFriendGathering(r, u, g, invitees)
      PROVE  ChecksHold'
  <2>1. req'[r].pc = "checkInvitees" /\ req'[r].invitees = invitees /\ req'[r].todo = invitees
    BY <1>1, <1>3 DEF CreateFriendGathering, Begin, Idle
  <2> QED
    BY <2>1 DEF ChecksHold, OneAtATime
<1>4. ASSUME NEW u \in User, NEW g \in GatheringId,
             \/ CreateGroupGathering(r, u, g)
             \/ AcceptInvitation(r, u, g)
             \/ RejectInvitation(r, u, g)
             \/ DeleteGathering(r, u, g)
      PROVE  ChecksHold'
  <2>1. req'[r].pc \in {"saveGroupGathering", "acceptInvitation", "rejectInvitation",
                        "dropGathering"}
    BY <1>1, <1>4 DEF CreateGroupGathering, AcceptInvitation, RejectInvitation, ReadInvitation,
        DeleteGathering, Begin, Idle
  <2> QED
    BY <2>1 DEF ChecksHold, OneAtATime
<1>5. ASSUME UnfriendStatement(r) \/ ReportStatement(r) \/ DropStatement(r)
      PROVE  ChecksHold'
  <2>1. PICK W, next : Statement(r, req[r].pc, W, next) /\ req'[r].pc = next
    BY <1>5, AfterStatement DEF IInv
  <2>2. next \notin {"saveFriend", "rejectFriend", "checkInvitees", "saveFriendGathering"}
    BY <2>1 DEF Statement
  <2> QED
    BY <2>1, <2>2 DEF ChecksHold, OneAtATime
<1> QED
  BY <1>2, <1>3, <1>4, <1>5, ArrivalChecks, InviteeChecks DEF GoesOn

\* A transaction adds the writes of one statement; what it retracts it finds again.
LEMMA StatementRetracts ==
    ASSUME IInv, OneAtATime, InvitationsGoToo, NEW r \in Request,
           UnfriendStatement(r) \/ ReportStatement(r) \/ DropStatement(r)
    PROVE  InvitationsGoToo'
<1>1. PICK W, next :
          /\ Statement(r, req[r].pc, W, next)
          /\ UNCHANGED tables
          /\ pending'[r] = pending[r] \cup W
          /\ req'[r].pc = next
          /\ req'[r].user = req[r].user /\ req'[r].peer = req[r].peer
  BY AfterStatement DEF IInv
<1>2. /\ RowsBetween(req[r].user, req[r].peer)' = RowsBetween(req[r].user, req[r].peer)
      /\ InvitationLocks(r)' = InvitationLocks(r)
  BY <1>1 DEF RowsBetween, InvitationLocks, PendingBetween, tables
<1>3. ASSUME NEW i \in FriendId, <<"friend", i>> \in pending'[r]
      PROVE  /\ next \in {"unfriendInvitations", "commit"}
             /\ i \in RowsBetween(req[r].user, req[r].peer)
             /\ next = "commit" => InvitationLocks(r) \subseteq pending'[r]
  <2>1. CASE <<"friend", i>> \in pending[r]
    <3>1. req[r].pc \in {"unfriendInvitations", "commit"}
          /\ i \in RowsBetween(req[r].user, req[r].peer)
      BY <2>1 DEF InvitationsGoToo
    <3>2. W = InvitationLocks(r) /\ next = "commit"
      BY <1>1, <3>1 DEF Statement
    <3> QED
      BY <1>1, <3>1, <3>2
  <2>2. CASE <<"friend", i>> \in W
    <3>1. /\ W = FriendLocks(r)
          /\ \/ next = "unfriendInvitations"
             \/ req[r].pc = "reportRows" /\ next = "commit"
      BY <1>1, <2>2 DEF Statement, InvitationLocks
    <3>2. i \in RowsBetween(req[r].user, req[r].peer)
      BY <2>2, <3>1 DEF FriendLocks
    <3>3. req[r].pc = "reportRows" => InvitationLocks(r) \subseteq pending[r]
      BY DEF InvitationsGoToo
    <3> QED
      BY <1>1, <3>1, <3>2, <3>3
  <2> QED
    BY <1>1, <1>3, <2>1, <2>2
<1>4. next \in {"reportSave", "reportBlock", "reportRows"} => InvitationLocks(r) \subseteq pending'[r]
  BY <1>1 DEF InvitationsGoToo, Statement
<1> QED
  BY <1>1, <1>2, <1>3, <1>4 DEF InvitationsGoToo, OneAtATime

\* No other request has anything to retract.
LEMMA GoesOnRetracts ==
    ASSUME IInv, OneAtATime, InvitationsGoToo, NEW r \in Request, GoesOn(r)
    PROVE  InvitationsGoToo'
<1>1. ASSUME UNCHANGED pending, req[r].pc \notin TransactionSteps,
             req'[r].pc \notin {"reportSave", "reportBlock", "reportRows"}
      PROVE  InvitationsGoToo'
  <2>1. pending'[r] = {}
    BY <1>1 DEF IInv, TransactionsConsistent, WritesInTransactions
  <2> QED
    BY <1>1, <2>1 DEF InvitationsGoToo, OneAtATime
<1>2. ASSUME NEW u \in User, NEW v \in User,
             \/ RequestFriend(r, u, v)
             \/ AcceptFriend(r, u, v)
             \/ RejectFriend(r, u, v)
             \/ Unfriend(r, u, v)
             \/ ReportFriend(r, u, v)
      PROVE  InvitationsGoToo'
  BY <1>1, <1>2, AfterFriendshipArrival DEF IInv, TransactionSteps
<1>3. ASSUME NEW u \in User, NEW g \in GatheringId,
             \/ \E invitees \in SUBSET User : CreateFriendGathering(r, u, g, invitees)
             \/ CreateGroupGathering(r, u, g)
             \/ AcceptInvitation(r, u, g)
             \/ RejectInvitation(r, u, g)
             \/ DeleteGathering(r, u, g)
      PROVE  InvitationsGoToo'
  BY <1>1, <1>3, AfterInvitationArrival DEF IInv, TransactionSteps
<1>4. ASSUME NEW v \in User, CheckInvitee(r, v) PROVE InvitationsGoToo'
  BY <1>1, <1>4, AfterCheckInvitee DEF IInv, TransactionsConsistent, TypeInv, TransactionSteps
<1> QED
  BY <1>2, <1>3, <1>4, StatementRetracts DEF GoesOn

-----------------------------------------------------------------------------
(* Friend rows *)

FriendRow == [sender : User, receiver : User, status : {"PENDING", "ACCEPTED"}]

LEMMA FriendTypes ==
    ASSUME IInv
    PROVE  /\ friend \in [FriendId -> FriendRow \cup {NoFriend}]
           /\ \A u \in User, v \in User : \A i \in RowsBetween(u, v) : friend[i] \in FriendRow
           /\ \A i \in FriendId : friend[i].status # "NONE" => friend[i] \in FriendRow
           /\ req \in [Request -> RequestState]
<1>1. friend \in [FriendId -> FriendRow \cup {NoFriend}] /\ req \in [Request -> RequestState]
  BY DEF IInv, TypeOK, FriendRow
<1>2. \A u \in User, v \in User : \A i \in RowsBetween(u, v) : friend[i] # NoFriend
  BY StoreAssumption DEF RowsBetween, NoFriend
<1>3. NoFriend.status = "NONE"
  BY DEF NoFriend
<1> QED
  BY <1>1, <1>2, <1>3 DEF RowsBetween

\* Rows that are deleted leave at most one for each pair.
LEMMA RowsGo ==
    ASSUME IInv, OneRowPerPair, NEW D,
           friend' = [i \in FriendId |-> IF i \in D THEN NoFriend ELSE friend[i]]
    PROVE  OneRowPerPair'
<1> SUFFICES ASSUME NEW i \in FriendId, NEW j \in FriendId, friend'[i].status # "NONE",
                    (j \in RowsBetween(friend[i].sender, friend[i].receiver))'
             PROVE  i = j
  BY DEF OneRowPerPair
<1>1. friend'[i] = friend[i] /\ friend[i] \in FriendRow
  <2>1. friend'[i] # NoFriend
    BY DEF NoFriend
  <2> QED
    BY <2>1, FriendTypes
<1>2. \/ friend'[j].sender = friend[i].sender /\ friend'[j].receiver = friend[i].receiver
      \/ friend'[j].sender = friend[i].receiver /\ friend'[j].receiver = friend[i].sender
  BY <1>1 DEF RowsBetween
<1>3. friend'[j] = friend[j]
  <2>1. friend'[j].sender # None
    BY <1>1, <1>2, StoreAssumption DEF FriendRow
  <2>2. friend'[j] # NoFriend
    BY <2>1 DEF NoFriend
  <2> QED
    BY <2>2
<1>4. j \in RowsBetween(friend[i].sender, friend[i].receiver)
  BY <1>2, <1>3 DEF RowsBetween
<1> QED
  BY <1>1, <1>4 DEF OneRowPerPair

\* A request is saved only where there is no row: the check still holds.
LEMMA SaveFriendKeepsOne ==
    ASSUME IInv, ChecksHold, OneRowPerPair, NEW r \in Request, SaveFriend(r)
    PROVE  OneRowPerPair'
<1> DEFINE u == req[r].user
           v == req[r].peer
<1>1. u \in User /\ v \in User /\ RowsBetween(u, v) = {}
  BY DEF SaveFriend, ChecksHold, IInv, TransactionsConsistent, ArgumentsOK, UserSteps
<1>2. CASE UNCHANGED friend
  BY <1>2 DEF OneRowPerPair, RowsBetween
<1>3. ASSUME NEW n \in FriendId,
             friend' = [friend EXCEPT ![n] =
                    [sender |-> u, receiver |-> v, status |-> "PENDING"]]
      PROVE  OneRowPerPair'
  <2> SUFFICES ASSUME NEW i \in FriendId, NEW j \in FriendId, friend'[i].status # "NONE",
                      (j \in RowsBetween(friend[i].sender, friend[i].receiver))',
                      i # j
               PROVE  FALSE
    BY DEF OneRowPerPair
  <2>1. /\ \A k \in FriendId \ {n} : friend'[k] = friend[k]
        /\ friend'[n].sender = u /\ friend'[n].receiver = v
    BY <1>3, FriendTypes
  <2>5. \/ friend'[j].sender = friend'[i].sender /\ friend'[j].receiver = friend'[i].receiver
        \/ friend'[j].sender = friend'[i].receiver /\ friend'[j].receiver = friend'[i].sender
    BY DEF RowsBetween
  <2>2. CASE i = n
    <3>1. j \in RowsBetween(u, v)
      BY <2>1, <2>2, <2>5 DEF RowsBetween
    <3> QED
      BY <1>1, <3>1
  <2>3. CASE j = n
    <3>1. i \in RowsBetween(u, v)
      BY <2>1, <2>3, <2>5 DEF RowsBetween
    <3> QED
      BY <1>1, <3>1
  <2>4. CASE i # n /\ j # n
    BY <2>1, <2>4, <2>5 DEF OneRowPerPair, RowsBetween
  <2> QED
    BY <2>2, <2>3, <2>4
<1> QED
  BY <1>2, <1>3 DEF SaveFriend

\* An accepted row is the row it was.
LEMMA UpdatedRow ==
    ASSUME IInv, NEW r \in Request, UpdateFriend(r)
    PROVE  \A i \in FriendId :
            /\ friend'[i].sender = friend[i].sender /\ friend'[i].receiver = friend[i].receiver
            /\ friend'[i].status = "NONE" <=> friend[i].status = "NONE"
            /\ friend[i].status = "ACCEPTED" => friend'[i].status = "ACCEPTED"
<1>1. req[r].row \in FriendId
  BY DEF UpdateFriend, IInv, TransactionsConsistent, ArgumentsOK
<1>2. CASE UNCHANGED friend
  BY <1>2
<1>3. CASE /\ friend[req[r].row].status # "NONE"
           /\ friend' = [friend EXCEPT ![req[r].row].status = "ACCEPTED"]
  BY <1>1, <1>3, FriendTypes DEF FriendRow
<1> QED
  BY <1>2, <1>3 DEF UpdateFriend

LEMMA OneRowStep ==
    ASSUME IInv, OneAtATime, ChecksHold, OneRowPerPair, [Next]_vars PROVE OneRowPerPair'
<1>1. CASE UNCHANGED friend
  BY <1>1 DEF OneRowPerPair, RowsBetween
<1>2. ASSUME NEW r \in Request, UpdateFriend(r) PROVE OneRowPerPair'
  BY <1>2, UpdatedRow DEF OneRowPerPair, RowsBetween
<1>3. ASSUME NEW r \in Request, DeleteFriend(r) PROVE OneRowPerPair'
  <2> DEFINE D == RowsBetween(req[r].user, req[r].peer)
  <2>1. friend' = [i \in FriendId |-> IF i \in D THEN NoFriend ELSE friend[i]]
    BY <1>3 DEF DeleteFriend
  <2> QED
    BY <2>1, RowsGo
<1>4. ASSUME NEW r \in Request, Commit(r) PROVE OneRowPerPair'
  <2> DEFINE D == {i \in FriendId : <<"friend", i>> \in pending[r]}
  <2>1. friend' = [i \in FriendId |-> IF i \in D THEN NoFriend ELSE friend[i]]
    BY <1>4 DEF Commit
  <2> QED
    BY <2>1, RowsGo
<1>5. ASSUME NEW r \in Request, SaveGathering(r) \/ AnswerInvitation(r) PROVE UNCHANGED friend
  BY <1>5 DEF SaveGathering, AnswerInvitation
<1>6. \/ UNCHANGED friend
      \/ \E r \in Request : Writes(r)
  BY SerialSteps DEF GoesOn, tables, EndGathering, vars
<1> QED
  BY <1>1, <1>2, <1>3, <1>4, <1>5, <1>6, SaveFriendKeepsOne DEF Writes

-----------------------------------------------------------------------------
(* Open invitations *)

\* A gathering that ends keeps its host and its type.
LEMMA EndKeeps ==
    ASSUME IInv, NEW g \in GatheringId, EndGathering(g)
    PROVE  /\ \A h \in GatheringId :
                gathering'[h].host = gathering[h].host /\ gathering'[h].type = gathering[h].type
           /\ UNCHANGED <<friend, participation, pending, req>>
<1>1. gathering \in [GatheringId -> GatheringRow \cup {NoGathering}]
  BY DEF IInv, TypeOK, GatheringRow
<1>2. gathering[g] \in GatheringRow
  <2>1. gathering[g] # NoGathering
    BY DEF EndGathering, Active, NoGathering
  <2> QED
    BY <1>1, <2>1
<1>3. UNCHANGED <<friend, participation, pending, req>>
      /\ gathering' = [gathering EXCEPT ![g].ended = TRUE]
  BY DEF EndGathering
<1> QED
  BY <1>1, <1>2, <1>3 DEF GatheringRow

LEMMA EndKeepsRetracting ==
    ASSUME IInv, InvitationsGoToo, ChecksHold, NEW g \in GatheringId, EndGathering(g)
    PROVE  ChecksHold' /\ InvitationsGoToo'
<1>1. UNCHANGED <<friend, participation, pending, req>>
  BY EndKeeps
<1>2. \A u, v : PendingBetween(u, v)' = PendingBetween(u, v)
  BY <1>1, EndKeeps DEF PendingBetween
<1>3. ChecksHold'
  BY <1>1 DEF ChecksHold, RowsBetween, ReadsFriend
<1>4. InvitationsGoToo'
  BY <1>1, <1>2 DEF InvitationsGoToo, InvitationLocks, RowsBetween
<1> QED
  BY <1>3, <1>4

\* The checks and the retractions in flight stay what they are.
LEMMA RequestStep ==
    ASSUME IInv, OneAtATime, SerialInv, [Next]_vars
    PROVE  ChecksHold' /\ InvitationsGoToo'
<1>1. CASE UNCHANGED vars
  BY <1>1 DEF vars, SerialInv, ChecksHold, InvitationsGoToo, InvitationLocks, PendingBetween,
      RowsBetween, ReadsFriend
<1> QED
  BY <1>1, SerialSteps, OverKeeps, GoesOnChecks, GoesOnRetracts, EndKeepsRetracting DEF SerialInv

\* Friends stay friends while rows are added, accepted, or deleted where there is
\* no friendship.
LEMMA FriendsStay ==
    ASSUME IInv, ChecksHold, NEW r \in Request,
           SaveFriend(r) \/ UpdateFriend(r) \/ DeleteFriend(r)
    PROVE  \A u, v : ReadsFriend(u, v) => ReadsFriend(u, v)'
<1>1. ASSUME \A i \in FriendId : friend[i].status = "ACCEPTED" =>
                /\ friend'[i].sender = friend[i].sender /\ friend'[i].receiver = friend[i].receiver
                /\ friend'[i].status = "ACCEPTED"
      PROVE  \A u, v : ReadsFriend(u, v) => ReadsFriend(u, v)'
  BY <1>1 DEF ReadsFriend, RowsBetween
<1>2. CASE SaveFriend(r)
  <2>1. CASE UNCHANGED friend
    BY <1>1, <2>1
  <2>2. ASSUME NEW n \in FriendId, FreshFriend(n),
               friend' = [friend EXCEPT ![n] =
                    [sender |-> req[r].user, receiver |-> req[r].peer, status |-> "PENDING"]]
        PROVE  \A u, v : ReadsFriend(u, v) => ReadsFriend(u, v)'
    <3>1. \A i \in FriendId \ {n} : friend'[i] = friend[i]
      BY <2>2, FriendTypes
    <3>2. friend[n].status = "NONE"
      BY <2>2 DEF FreshFriend
    <3> QED
      BY <1>1, <3>1, <3>2
  <2> QED
    BY <1>2, <2>1, <2>2 DEF SaveFriend
<1>3. CASE UpdateFriend(r)
  BY <1>1, <1>3, UpdatedRow
<1>4. CASE DeleteFriend(r)
  <2> DEFINE D == RowsBetween(req[r].user, req[r].peer)
  <2>1. \A i \in D : friend[i].status # "ACCEPTED"
    BY <1>4 DEF DeleteFriend, ChecksHold, ReadsFriend
  <2>2. \A i \in FriendId \ D : friend'[i] = friend[i]
    BY <1>4 DEF DeleteFriend
  <2> QED
    BY <1>1, <2>1, <2>2
<1> QED
  BY <1>2, <1>3, <1>4

\* As long as friends stay friends, invitations that are not new stay from friends.
LEMMA NoNewInvitation ==
    ASSUME OpenInvitationsAreFromFriends,
           \A u, v : ReadsFriend(u, v) => ReadsFriend(u, v)',
           \A g \in GatheringId :
                gathering'[g].host = gathering[g].host /\ gathering'[g].type = gathering[g].type,
           \A g \in GatheringId, u \in User :
                participation'[<<g, u>>] = "PENDING" => participation[<<g, u>>] = "PENDING"
    PROVE  OpenInvitationsAreFromFriends'
  BY DEF OpenInvitationsAreFromFriends

\* Whoever parts takes the open invitations between the two with him.
LEMMA CommitKeepsOpen ==
    ASSUME IInv, InvitationsGoToo, OpenInvitationsAreFromFriends, NEW r \in Request, Commit(r)
    PROVE  OpenInvitationsAreFromFriends'
<1> SUFFICES ASSUME NEW g \in GatheringId, NEW u \in User,
                    participation'[<<g, u>>] = "PENDING", gathering'[g].type = "FRIEND"
             PROVE  ReadsFriend(gathering[g].host, u)'
  BY DEF OpenInvitationsAreFromFriends
<1>1. /\ participation[<<g, u>>] = "PENDING"
      /\ <<"participation", <<g, u>>>> \notin pending[r]
  BY DEF Commit
<1>2. gathering'[g].host = gathering[g].host /\ gathering'[g].type = gathering[g].type
  <2>1. gathering[g] \in GatheringRow
    <3>1. gathering[g] # NoGathering
      BY <1>1 DEF IInv, TransactionsConsistent, InvitationsHaveGathering, NoGathering
    <3> QED
      BY <3>1 DEF IInv, TypeOK, GatheringRow
  <2>2. gathering'[g] = gathering[g] \/ gathering'[g] = [gathering[g] EXCEPT !.deleted = TRUE]
    BY DEF Commit
  <2> QED
    BY <2>1, <2>2 DEF GatheringRow
<1>3. PICK i \in RowsBetween(gathering[g].host, u) : friend[i].status = "ACCEPTED"
  BY <1>1, <1>2 DEF OpenInvitationsAreFromFriends, ReadsFriend
<1>4. <<"friend", i>> \notin pending[r]
  <2> SUFFICES ASSUME <<"friend", i>> \in pending[r] PROVE FALSE
    OBVIOUS
  <2>1. i \in RowsBetween(req[r].user, req[r].peer) /\ InvitationLocks(r) \subseteq pending[r]
    BY DEF InvitationsGoToo, Commit, RowsBetween
  <2>2. <<g, u>> \in PendingBetween(req[r].user, req[r].peer)
    BY <1>1, <1>3, <2>1 DEF PendingBetween, RowsBetween
  <2> QED
    BY <1>1, <2>1, <2>2 DEF InvitationLocks
<1>5. friend'[i] = friend[i]
  BY <1>3, <1>4 DEF Commit, RowsBetween
<1> QED
  BY <1>2, <1>3, <1>5 DEF ReadsFriend, RowsBetween

\* A gathering is saved with invitations to friends only.
LEMMA SaveGatheringInvites ==
    ASSUME IInv, ChecksHold, NEW r \in Request, SaveGathering(r)
    PROVE  LET g == req[r].gathering
           IN  /\ g \in GatheringId /\ gathering[g].host = None
               /\ UNCHANGED friend
               /\ \A h \in GatheringId \ {g} :
                    /\ gathering'[h] = gathering[h]
                    /\ \A u \in User : participation'[<<h, u>>] = participation[<<h, u>>]
               /\ gathering'[g].type = "FRIEND" => \A u \in User :
                    participation'[<<g, u>>] = "PENDING" => ReadsFriend(gathering'[g].host, u)
<1> DEFINE g == req[r].gathering
<1>1. g \in GatheringId /\ gathering[g].host = None /\ UNCHANGED friend
  BY DEF SaveGathering, IInv, TransactionsConsistent, ArgumentsOK, GatheringsInFlight,
      CreatingSteps, GatheringSteps
<1>2. gathering \in [GatheringId -> GatheringRow \cup {NoGathering}]
  BY DEF IInv, TypeOK, GatheringRow
<1>3. /\ \A h \in GatheringId \ {g} : gathering'[h] = gathering[h]
      /\ gathering'[g].host = req[r].user
      /\ gathering'[g].type = IF req[r].pc = "saveFriendGathering" THEN "FRIEND" ELSE "GROUP"
  BY <1>1, <1>2 DEF SaveGathering
<1>4. \A h \in GatheringId, u \in User :
        participation'[<<h, u>>] =
            IF h # g \/ u \notin req[r].invitees THEN participation[<<h, u>>]
            ELSE IF u = req[r].user THEN "ACCEPTED" ELSE "PENDING"
  BY DEF SaveGathering
<1>5. \A u \in User : participation[<<g, u>>] = "NONE"
  BY <1>1 DEF IInv, TransactionsConsistent, InvitationsHaveGathering
<1>6. ASSUME gathering'[g].type = "FRIEND", NEW u \in User, participation'[<<g, u>>] = "PENDING"
      PROVE  ReadsFriend(gathering'[g].host, u)
  <2>1. req[r].pc = "saveFriendGathering" /\ u \in req[r].invitees \ {req[r].user}
    BY <1>1, <1>3, <1>4, <1>5, <1>6
  <2> QED
    BY <1>3, <2>1 DEF ChecksHold
<1> QED
  BY <1>1, <1>3, <1>4, <1>6

LEMMA OpenStep ==
    ASSUME IInv, OneAtATime, SerialInv, [Next]_vars PROVE OpenInvitationsAreFromFriends'
<1>0. ChecksHold /\ InvitationsGoToo /\ OpenInvitationsAreFromFriends
  BY DEF SerialInv
<1>1. CASE UNCHANGED <<friend, gathering, participation>>
  BY <1>0, <1>1 DEF OpenInvitationsAreFromFriends, ReadsFriend, RowsBetween
<1>2. ASSUME NEW g \in GatheringId, EndGathering(g) PROVE OpenInvitationsAreFromFriends'
  BY <1>0, <1>2, EndKeeps, SameQueries, NoNewInvitation
<1>3. ASSUME NEW r \in Request, SaveFriend(r) \/ UpdateFriend(r) \/ DeleteFriend(r)
      PROVE  OpenInvitationsAreFromFriends'
  <2>1. UNCHANGED <<gathering, participation>>
    BY <1>3 DEF SaveFriend, UpdateFriend, DeleteFriend
  <2> QED
    BY <1>0, <1>3, <2>1, FriendsStay, NoNewInvitation
<1>4. ASSUME NEW r \in Request, AnswerInvitation(r) PROVE OpenInvitationsAreFromFriends'
  <2>1. UNCHANGED <<friend, gathering>>
    BY <1>4 DEF AnswerInvitation
  <2>2. \A g \in GatheringId, u \in User :
            participation'[<<g, u>>] = "PENDING" => participation[<<g, u>>] = "PENDING"
    BY <1>4 DEF AnswerInvitation, IInv, TypeOK
  <2> QED
    BY <1>0, <2>1, <2>2, SameQueries, NoNewInvitation
<1>5. ASSUME NEW r \in Request, SaveGathering(r) PROVE OpenInvitationsAreFromFriends'
  <2> DEFINE g == req[r].gathering
  <2> SUFFICES ASSUME NEW h \in GatheringId, NEW u \in User,
                      participation'[<<h, u>>] = "PENDING", gathering'[h].type = "FRIEND"
               PROVE  ReadsFriend(gathering[h].host, u)'
    BY DEF OpenInvitationsAreFromFriends
  <2>1. ReadsFriend(gathering'[h].host, u)
    <3>1. CASE h = g
      BY <1>0, <1>5, <3>1, SaveGatheringInvites
    <3>2. CASE h # g
      BY <1>0, <1>5, <3>2, SaveGatheringInvites DEF OpenInvitationsAreFromFriends
    <3> QED
      BY <3>1, <3>2
  <2>2. UNCHANGED friend
    BY <1>5 DEF SaveGathering
  <2> QED
    BY <2>1, <2>2 DEF ReadsFriend, RowsBetween
<1>6. \/ UNCHANGED <<friend, gathering, participation>>
      \/ \E g \in GatheringId : EndGathering(g)
      \/ \E r \in Request : Writes(r)
  BY SerialSteps DEF GoesOn, tables, vars
<1> QED
  BY <1>0, <1>1, <1>2, <1>3, <1>4, <1>5, <1>6, CommitKeepsOpen DEF Writes

\* Only SaveGathering makes gatherings, and it has checked whom it invites.
LEMMA InviteStep ==
    ASSUME IInv, OneAtATime, SerialInv, [Next]_vars,
           NEW g \in GatheringId, NEW u \in User,
           gathering[g].host = None, gathering'[g].type = "FRIEND",
           participation'[<<g, u>>] = "PENDING"
    PROVE  ReadsFriend(gathering'[g].host, u)
<1>1. gathering'[g].host # None
  BY Inductive DEF IInv, TransactionsConsistent, InvitationsHaveGathering
<1>2. ASSUME NEW r \in Request, SaveGathering(r) PROVE ReadsFriend(gathering'[g].host, u)
  BY <1>1, <1>2, SaveGatheringInvites DEF SerialInv
<1>3. ASSUME NEW r \in Request, Commit(r) PROVE FALSE
  <2>1. gathering[g] = NoGathering
    BY StoreAssumption DEF IInv, TypeOK
  <2>2. gathering'[g] = gathering[g] \/ gathering'[g] = [gathering[g] EXCEPT !.deleted = TRUE]
    BY <1>3 DEF Commit
  <2> QED
    BY <1>1, <2>1, <2>2 DEF NoGathering
<1>4. ASSUME NEW h \in GatheringId, EndGathering(h) PROVE FALSE
  BY <1>1, <1>4, EndKeeps
<1>5. gathering' # gathering
  BY <1>1
<1>6. \/ \E h \in GatheringId : EndGathering(h)
      \/ \E r \in Request : SaveGathering(r) \/ Commit(r)
  BY <1>5, SerialSteps
     DEF GoesOn, tables, vars, Writes, SaveFriend, UpdateFriend, DeleteFriend, AnswerInvitation
<1> QED
  BY <1>2, <1>3, <1>4, <1>6

-----------------------------------------------------------------------------
(* The theorems *)

LEMMA SerialInitHolds == Init => SerialInv
<1> SUFFICES ASSUME Init PROVE SerialInv
  OBVIOUS
<1>1. ChecksHold /\ InvitationsGoToo
  BY DEF Init, Idle, ChecksHold, InvitationsGoToo
<1>2. OneRowPerPair /\ OpenInvitationsAreFromFriends
  BY DEF Init, NoFriend, NoGathering, OneRowPerPair, OpenInvitationsAreFromFriends
<1> QED
  BY <1>1, <1>2 DEF SerialInv

\* With one request at a time, the checks of every handler still hold when it writes.
THEOREM SerialInvariance == ASSUME OneAtATime PROVE Spec => []SerialInv
<1>1. Init => SerialInv
  BY SerialInitHolds
<1>2. IInv /\ SerialInv /\ [Next]_vars => SerialInv'
  BY OneAtATime, RequestStep, OneRowStep, OpenStep DEF SerialInv
<1> QED
  BY <1>1, <1>2, Invariance, PTL DEF Spec

\* FriendsService.request: with one request at a time, two users have at most one
\* row, in whichever direction.
THEOREM OneRowHolds == ASSUME OneAtATime PROVE Spec => []OneRowPerPair
<1>1. SerialInv => OneRowPerPair
  BY DEF SerialInv
<1> QED
  BY <1>1, SerialInvariance, PTL

\* Unfriending and reporting retract what creating a gathering handed out: with
\* one request at a time, an open invitation of a friend is from a friend.
THEOREM OpenInvitationsHold == ASSUME OneAtATime PROVE Spec => []OpenInvitationsAreFromFriends
<1>1. SerialInv => OpenInvitationsAreFromFriends
  BY DEF SerialInv
<1> QED
  BY <1>1, SerialInvariance, PTL

\* GatheringsService.create: with one request at a time, whoever is invited to a
\* FRIEND gathering is a friend of its host when the invitation is written.
THEOREM InvitesHold == ASSUME OneAtATime PROVE Spec => FriendGatheringsInviteFriends
<1> DEFINE Invites ==
        \A g \in GatheringId, u \in User :
            /\ gathering[g].host = None /\ gathering'[g].type = "FRIEND"
            /\ participation'[<<g, u>>] = "PENDING"
            => ReadsFriend(gathering'[g].host, u)
<1>1. IInv /\ SerialInv /\ [Next]_vars => Invites
  BY OneAtATime, InviteStep
<1> QED
  BY <1>1, Invariance, SerialInvariance, PTL DEF Spec, FriendGatheringsInviteFriends

=============================================================================
