----------------------------- MODULE Invitations -----------------------------
(***************************************************************************)
(* Gatherings and the invitations to them: the writing handlers of         *)
(* GatheringsService and GatheringInvitationsWriter over SocialStore.      *)
(***************************************************************************)
EXTENDS SocialStore

\* checkIsFriend: findFirst returns some row of the pair, and it is ACCEPTED.
ReadsFriend(u, v) == \E i \in RowsBetween(u, v) : friend[i].status = "ACCEPTED"
ReadsNoFriend(u, v) ==
    \/ RowsBetween(u, v) = {}
    \/ \E i \in RowsBetween(u, v) : friend[i].status # "ACCEPTED"

-----------------------------------------------------------------------------
(* GatheringsService.create *)

\* A FRIEND gathering: the invitees are checked before anything is written.  A
\* host who befriended himself does not list himself: he would have two rows.
CreateFriendGathering(r, host, g, invitees) ==
    /\ FreshGathering(g)
    /\ invitees # {} /\ host \notin invitees
    /\ Begin(r, [Idle EXCEPT !.pc = "checkInvitees", !.user = host, !.gathering = g,
                             !.invitees = invitees, !.todo = invitees])
    /\ UNCHANGED <<tables, pending>>

\* A GROUP gathering: the invitees are the group's members; nobody checks that
\* the host is one of them.
CreateGroupGathering(r, host, g) ==
    /\ FreshGathering(g)
    /\ Begin(r, [Idle EXCEPT !.pc = "saveGroupGathering", !.user = host,
                             !.gathering = g, !.invitees = GroupMember])
    /\ UNCHANGED <<tables, pending>>

\* Mutant: any row between the two makes them friends.
CheckInviteeAnyRow(r, v) ==
    /\ req[r].pc = "checkInvitees"
    /\ v \in req[r].todo
    /\ \/ /\ RowsBetween(req[r].user, v) # {}
          /\ req' = [req EXCEPT ![r].todo = req[r].todo \ {v},
                               ![r].pc = IF req[r].todo = {v} THEN "saveFriendGathering"
                                         ELSE "checkInvitees",
                               ![r].invitees = IF req[r].todo = {v}
                                               THEN req[r].invitees \cup {req[r].user}
                                               ELSE req[r].invitees]
       \/ RowsBetween(req[r].user, v) = {} /\ Finish(r)
    /\ UNCHANGED <<tables, pending>>

\* checkIsFriendAll: one query per invitee, answered in any order; the first
\* refusal rejects the whole.  Then the host joins the invitees.
CheckInvitee(r, v) ==
    /\ req[r].pc = "checkInvitees"
    /\ v \in req[r].todo
    /\ \/ /\ ReadsFriend(req[r].user, v)
          /\ \/ /\ req[r].todo # {v}
                /\ req' = [req EXCEPT ![r].todo = req[r].todo \ {v}]
             \/ /\ req[r].todo = {v}
                /\ req' = [req EXCEPT ![r] =
                        [Idle EXCEPT !.pc = "saveFriendGathering",
                                     !.user = req[r].user,
                                     !.gathering = req[r].gathering,
                                     !.invitees = req[r].invitees \cup {req[r].user}]]
       \/ ReadsNoFriend(req[r].user, v) /\ Finish(r)
    /\ UNCHANGED <<tables, pending>>

\* createTransaction only inserts rows with fresh keys: nothing of it is seen or
\* waited for before it commits, so it is one step.
SaveGathering(r) ==
    LET g == req[r].gathering
        host == req[r].user
    IN  /\ req[r].pc \in {"saveFriendGathering", "saveGroupGathering"}
        /\ gathering' = [gathering EXCEPT ![g] =
                [host |-> host, ended |-> FALSE, deleted |-> FALSE,
                 type |-> IF req[r].pc = "saveFriendGathering" THEN "FRIEND" ELSE "GROUP"]]
        /\ participation' = [p \in GatheringId \X User |->
                IF p[1] # g \/ p[2] \notin req[r].invitees THEN participation[p]
                ELSE IF p[2] = host THEN "ACCEPTED" ELSE "PENDING"]
        /\ Finish(r)
        /\ UNCHANGED <<friend, report, blocked, pending>>

-----------------------------------------------------------------------------
(* GatheringInvitationsWriter.accept and reject *)

\* checkIsParticipant: the row exists and is the user's, whatever its status.
ReadInvitation(r, u, g, pc) ==
    /\ participation[<<g, u>>] # "NONE"
    /\ Begin(r, [Idle EXCEPT !.pc = pc, !.user = u, !.gathering = g])
    /\ UNCHANGED <<tables, pending>>

AcceptInvitation(r, u, g) == ReadInvitation(r, u, g, "acceptInvitation")
RejectInvitation(r, u, g) == ReadInvitation(r, u, g, "rejectInvitation")

\* updateStatus and delete by id: without the row, P2025 and nothing changes.
AnswerInvitation(r) ==
    LET p == <<req[r].gathering, req[r].user>>
    IN  /\ req[r].pc \in {"acceptInvitation", "rejectInvitation"}
        /\ Unlocked(r, {<<"participation", p>>})
        /\ participation' =
                IF participation[p] = "NONE" THEN participation
                ELSE [participation EXCEPT ![p] =
                        IF req[r].pc = "acceptInvitation" THEN "ACCEPTED" ELSE "NONE"]
        /\ Finish(r)
        /\ UNCHANGED <<friend, gathering, report, blocked, pending>>

-----------------------------------------------------------------------------
(* GatheringsService.delete, and the end of a gathering *)

DeleteGathering(r, host, g) ==
    /\ Active(g) /\ gathering[g].host = host /\ ~gathering[g].ended
    /\ Begin(r, [Idle EXCEPT !.pc = "dropGathering", !.user = host, !.gathering = g])
    /\ UNCHANGED <<tables, pending>>

DropStatement(r) ==
    LET g == req[r].gathering
    IN  \/ /\ req[r].pc = "dropGathering"
           /\ Execute(r, {<<"gathering", g>>}, "dropInvitations")
        \/ /\ req[r].pc = "dropInvitations"
           /\ Execute(r, {"participation"} \X RowsOfGathering(g), "commit")

\* ended_at is written by a job outside this repository.
EndGathering(g) ==
    /\ Active(g) /\ ~gathering[g].ended
    /\ \A q \in Request : <<"gathering", g>> \notin pending[q]
    /\ gathering' = [gathering EXCEPT ![g].ended = TRUE]
    /\ UNCHANGED <<friend, participation, report, blocked, pending, req>>

-----------------------------------------------------------------------------

InvitationArrival(r) ==
    \E u \in User, g \in GatheringId :
        \/ \E invitees \in SUBSET User : CreateFriendGathering(r, u, g, invitees)
        \/ CreateGroupGathering(r, u, g)
        \/ AcceptInvitation(r, u, g)
        \/ RejectInvitation(r, u, g)
        \/ DeleteGathering(r, u, g)

InvitationStep(r) ==
    \/ \E v \in User : CheckInvitee(r, v)
    \/ SaveGathering(r)
    \/ AnswerInvitation(r)
    \/ DropStatement(r)

=============================================================================
