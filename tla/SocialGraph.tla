----------------------------- MODULE SocialGraph -----------------------------
(***************************************************************************)
(* Friendship and Invitations at work on the same tables: every            *)
(* interleaving of the statements of the requests in flight, with the      *)
(* transactions that deadlock, time out or lose their connection.          *)
(***************************************************************************)
EXTENDS Friendship, Invitations

-----------------------------------------------------------------------------
(* Lock waits *)

\* The row locks the next statement of r asks for.
Wants(r) ==
    LET pc == req[r].pc
    IN  CASE pc = "saveFriend" -> {"friend"} \X SameKey(req[r].user, req[r].peer)
          [] pc = "acceptFriend" -> {<<"friend", req[r].row>>}
          [] pc \in {"rejectFriend", "unfriendRows", "reportRows"} -> FriendLocks(r)
          [] pc \in {"unfriendInvitations", "reportInvitations"} -> InvitationLocks(r)
          [] pc = "reportBlock" -> {<<"blocked", ReportedPair(r)>>}
          [] pc \in {"acceptInvitation", "rejectInvitation"} ->
                {<<"participation", <<req[r].gathering, req[r].user>>>>}
          [] pc = "dropGathering" -> {<<"gathering", req[r].gathering>>}
          [] pc = "dropInvitations" -> {"participation"} \X RowsOfGathering(req[r].gathering)
          [] OTHER -> {}

WaitsFor(r, q) == q # r /\ pending[q] \cap Wants(r) # {}

\* r is on a cycle of transactions each waiting for another one of them.
Deadlocked(r) ==
    \E S \in SUBSET Request :
        /\ r \in S
        /\ \A p \in S : (\E q \in S : WaitsFor(p, q)) /\ (\E q \in S : WaitsFor(q, p))

\* PostgreSQL's deadlock detector aborts one of them; the request fails.
DeadlockVictim(r) == Deadlocked(r) /\ Rollback(r)

\* An interactive transaction that outlives Prisma's time limit, or loses its
\* connection, is rolled back wherever it is.
Timeout(r) == req[r].pc \in TransactionSteps /\ Rollback(r)

\* The process stops: requests vanish, the database rolls transactions back.
Crash ==
    /\ \E r \in Request : req[r].pc # "idle"
    /\ req' = [r \in Request |-> Idle]
    /\ pending' = [r \in Request |-> {}]
    /\ UNCHANGED tables

-----------------------------------------------------------------------------

Progress(r) ==
    \/ FriendshipStep(r)
    \/ InvitationStep(r)
    \/ Commit(r)
    \/ DeadlockVictim(r)

Next ==
    \/ \E r \in Request :
        \/ FriendshipArrival(r)
        \/ InvitationArrival(r)
        \/ Progress(r)
        \/ Timeout(r)
    \/ \E g \in GatheringId : EndGathering(g)
    \/ Crash

Spec == Init /\ [][Next]_vars

\* The event loop runs every pending continuation, the server answers every
\* statement, and a lock's waiters are served in turn: no request is overtaken
\* for ever.  Nothing else is fair: nobody has to send a request.
FairSpec == Spec /\ \A r \in Request : SF_vars(Progress(r))

-----------------------------------------------------------------------------
(* What holds however the requests interleave *)

\* One report is filed exactly when one block is added: a report that fails in
\* the middle, or a second report of a friend befriended again, leaves neither.
ReportsMatchBlocks ==
    \A p \in User \X User : report[p] = IF p \in blocked THEN 1 ELSE 0

\* Deleting a gathering leaves no invitation to it, not even one that was being
\* accepted, rejected or retracted at the same time.
DeletedGatheringHasNoInvitations ==
    \A g \in GatheringId, u \in User :
        gathering[g].deleted => participation[<<g, u>>] = "NONE"

\* What guests see of gatherings: no handler un-answers an invitation, retracts
\* an accepted one, re-invites, or deletes a gathering by halves.
Asking(steps) == {r \in Request : req[r].pc \in steps}
Answering(step) == {<<req[r].gathering, req[r].user>> : r \in Asking({step})}
Contract == INSTANCE InvitationContract WITH
    accepting <- Answering("acceptInvitation"),
    leaving <- Answering("rejectInvitation"),
    parting <- {{req[r].user, req[r].peer} : r \in Asking({"commit"})},
    deleting <- {req[r].gathering : r \in Asking({"commit"})}
KeepsContract == Contract!Spec

\* Every request is answered: lock waits, the deadlock between unfriending and
\* reporting included, come to an end.
RequestsFinish == \A r \in Request : req[r].pc # "idle" ~> req[r].pc = "idle"

-----------------------------------------------------------------------------
(* What holds as long as requests do not overlap (one slot) *)

\* Two users have one relation: the 409 of a second request keeps the number of
\* rows between them at one, in whichever direction.
OneRowPerPair ==
    \A i, j \in FriendId :
        friend[i].status # "NONE" /\ j \in RowsBetween(friend[i].sender, friend[i].receiver)
            => i = j

\* A friend's invitation that is still open comes from a friend: unfriending and
\* reporting retract what creating a gathering handed out.
OpenInvitationsAreFromFriends ==
    \A g \in GatheringId, u \in User :
        participation[<<g, u>>] = "PENDING" /\ gathering[g].type = "FRIEND"
            => ReadsFriend(gathering[g].host, u)

\* Creating a FRIEND gathering invites friends only: whoever gets an invitation
\* is a friend of the host at the instant it is written.
FriendGatheringsInviteFriends ==
    [][\A g \in GatheringId, u \in User :
            /\ gathering[g].host = None /\ gathering'[g].type = "FRIEND"
            /\ participation'[<<g, u>>] = "PENDING"
        => ReadsFriend(gathering'[g].host, u)]_vars

=============================================================================
