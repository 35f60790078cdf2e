------------------------------ MODULE Friendship ------------------------------
(***************************************************************************)
(* Friend requests, their answers, unfriending and the report of a friend: *)
(* FriendsService and FriendReportsWriteSerivce over SocialStore.  The     *)
(* first action of a handler is its check, the others its writes.          *)
(***************************************************************************)
EXTENDS SocialStore

\* The arguments of a handler about two users.
About(pc, u, v) == [Idle EXCEPT !.pc = pc, !.user = u, !.peer = v]

\* The locks of friendsRepository.deleteByUserIds and of deletePending, for the
\* users request r is about.
FriendLocks(r) == {"friend"} \X RowsBetween(req[r].user, req[r].peer)
InvitationLocks(r) == {"participation"} \X PendingBetween(req[r].user, req[r].peer)
ReportedPair(r) == <<req[r].user, req[r].peer>>

-----------------------------------------------------------------------------
(* FriendsService.request *)

\* Mutant: looks for a request in one direction only.
RequestFriendOneWay(r, u, v) ==
    /\ SameKey(u, v) = {}
    /\ Begin(r, About("saveFriend", u, v))
    /\ UNCHANGED <<tables, pending>>

\* checkExistFriend: no row in either direction, whatever its status.  Nothing
\* keeps a user from asking himself.
RequestFriend(r, u, v) ==
    /\ RowsBetween(u, v) = {}
    /\ Begin(r, About("saveFriend", u, v))
    /\ UNCHANGED <<tables, pending>>

\* The insert waits for a transaction deleting the row with its key; if a row
\* with its key is left, the unique index refuses it and the request fails.
SaveFriend(r) ==
    LET u == req[r].user
        v == req[r].peer
    IN  /\ req[r].pc = "saveFriend"
        /\ Unlocked(r, {"friend"} \X SameKey(u, v))
        /\ \/ /\ SameKey(u, v) = {}
              /\ \E i \in FriendId :
                    /\ FreshFriend(i)
                    /\ friend' = [friend EXCEPT ![i] =
                            [sender |-> u, receiver |-> v, status |-> "PENDING"]]
           \/ SameKey(u, v) # {} /\ UNCHANGED friend
        /\ Finish(r)
        /\ UNCHANGED <<gathering, participation, report, blocked, pending>>

-----------------------------------------------------------------------------
(* FriendsService.accept and reject *)

\* checkExistPendingRequest: findFirst returns any row of the pair.
ReadPendingRequest(r, u, v, pc) ==
    \E i \in RowsBetween(u, v) :
        /\ friend[i].status = "PENDING"
        /\ Begin(r, [About(pc, u, v) EXCEPT !.row = IF pc = "acceptFriend" THEN i ELSE None])
        /\ UNCHANGED <<tables, pending>>

AcceptFriend(r, u, v) == ReadPendingRequest(r, u, v, "acceptFriend")
RejectFriend(r, u, v) == ReadPendingRequest(r, u, v, "rejectFriend")

\* Mutant: the row is written even if it is gone.
UpsertFriend(r) ==
    LET i == req[r].row
    IN  /\ req[r].pc = "acceptFriend"
        /\ Unlocked(r, {<<"friend", i>>})
        /\ friend' = [friend EXCEPT ![i].status = "ACCEPTED"]
        /\ Finish(r)
        /\ UNCHANGED <<gathering, participation, report, blocked, pending>>

\* updateById: the status is set whatever it is by now; without the row, P2025.
UpdateFriend(r) ==
    LET i == req[r].row
    IN  /\ req[r].pc = "acceptFriend"
        /\ Unlocked(r, {<<"friend", i>>})
        /\ friend' = IF friend[i].status = "NONE" THEN friend
                     ELSE [friend EXCEPT ![i].status = "ACCEPTED"]
        /\ Finish(r)
        /\ UNCHANGED <<gathering, participation, report, blocked, pending>>

\* deleteByUserIds outside a transaction: every row of the pair, of any status.
DeleteFriend(r) ==
    /\ req[r].pc = "rejectFriend"
    /\ Unlocked(r, FriendLocks(r))
    /\ friend' = [i \in FriendId |->
            IF i \in RowsBetween(req[r].user, req[r].peer) THEN NoFriend ELSE friend[i]]
    /\ Finish(r)
    /\ UNCHANGED <<gathering, participation, report, blocked, pending>>

-----------------------------------------------------------------------------
(* FriendsService.unfriend and FriendReportsWriteSerivce.report *)

\* checkExistAcceptedFriend, and the same check at the head of report.
ReadAcceptedFriend(r, u, v, pc) ==
    /\ \E i \in RowsBetween(u, v) : friend[i].status = "ACCEPTED"
    /\ Begin(r, About(pc, u, v))
    /\ UNCHANGED <<tables, pending>>

Unfriend(r, u, v) == ReadAcceptedFriend(r, u, v, "unfriendRows")
ReportFriend(r, u, v) == ReadAcceptedFriend(r, u, v, "reportInvitations")

\* Mutant: the open invitations stay.
UnfriendRowsOnly(r) ==
    /\ req[r].pc = "unfriendRows"
    /\ Execute(r, FriendLocks(r), "commit")

\* deleteTransaction: the friend rows first, then the pending invitations.
UnfriendStatement(r) ==
    \/ /\ req[r].pc = "unfriendRows"
       /\ Execute(r, FriendLocks(r), "unfriendInvitations")
    \/ /\ req[r].pc = "unfriendInvitations"
       /\ Execute(r, InvitationLocks(r), "commit")

\* Mutant: the report is saved through another connection, as the repositories
\* that do not use the transaction host save their rows.
ReportOutside(r) ==
    \/ /\ req[r].pc = "reportInvitations"
       /\ Execute(r, InvitationLocks(r), "reportSave")
    \/ /\ req[r].pc = "reportSave"
       /\ report' = [report EXCEPT ![ReportedPair(r)] = @ + 1]
       /\ req' = [req EXCEPT ![r].pc = "reportBlock"]
       /\ UNCHANGED <<friend, gathering, participation, blocked, pending>>
    \/ /\ req[r].pc = "reportBlock"
       /\ ReportedPair(r) \notin blocked
       /\ Execute(r, {<<"blocked", ReportedPair(r)>>}, "reportRows")
    \/ /\ req[r].pc = "reportRows"
       /\ Execute(r, FriendLocks(r), "commit")

\* reportTransaction takes the two tables in the opposite order, with the report
\* and the block in between.  A report is no row another transaction writes.
ReportStatement(r) ==
    \/ /\ req[r].pc = "reportInvitations"
       /\ Execute(r, InvitationLocks(r), "reportSave")
    \/ /\ req[r].pc = "reportSave"
       /\ pending' = [pending EXCEPT ![r] = @ \cup {<<"report", ReportedPair(r)>>}]
       /\ req' = [req EXCEPT ![r].pc = "reportBlock"]
       /\ UNCHANGED tables
    \/ /\ req[r].pc = "reportBlock"
       /\ ReportedPair(r) \notin blocked
       /\ Execute(r, {<<"blocked", ReportedPair(r)>>}, "reportRows")
    \/ /\ req[r].pc = "reportRows"
       /\ Execute(r, FriendLocks(r), "commit")

\* Mutant: the transaction is tried again.
ReportRetried(r) ==
    /\ req[r].pc = "reportBlock"
    /\ ReportedPair(r) \in blocked
    /\ pending' = [pending EXCEPT ![r] = {}]
    /\ req' = [req EXCEPT ![r].pc = "reportInvitations"]
    /\ UNCHANGED tables

\* The primary key of blocked_user refuses a second block: all is rolled back.
ReportRefused(r) ==
    /\ req[r].pc = "reportBlock"
    /\ ReportedPair(r) \in blocked
    /\ Rollback(r)

-----------------------------------------------------------------------------

FriendshipArrival(r) ==
    \E u, v \in User :
        \/ RequestFriend(r, u, v)
        \/ AcceptFriend(r, u, v)
        \/ RejectFriend(r, u, v)
        \/ Unfriend(r, u, v)
        \/ ReportFriend(r, u, v)

FriendshipStep(r) ==
    \/ SaveFriend(r)
    \/ UpdateFriend(r)
    \/ DeleteFriend(r)
    \/ UnfriendStatement(r)
    \/ ReportStatement(r)
    \/ ReportRefused(r)

=============================================================================
