--------------------------- MODULE MCSocialLiveness ---------------------------
(* SocialGraph under its fairness, for the handlers that wait for a lock or hold
   one while they ask for another; everything they do once arrived is kept. *)
EXTENDS SocialGraph

WaitingArrival(r) ==
    \/ \E u, v \in User :
        /\ u # v
        /\ \/ RequestFriend(r, u, v)
           \/ AcceptFriend(r, u, v)
           \/ Unfriend(r, u, v)
           \/ ReportFriend(r, u, v)
    \/ \E u \in User, g \in GatheringId :
        \/ \E invitees \in SUBSET User : CreateFriendGathering(r, u, g, invitees)
        \/ AcceptInvitation(r, u, g)
        \/ DeleteGathering(r, u, g)

MCNext == \E r \in Request : WaitingArrival(r) \/ Progress(r)

MCSpec == Init /\ [][MCNext]_vars /\ \A r \in Request : SF_vars(Progress(r))

=============================================================================
