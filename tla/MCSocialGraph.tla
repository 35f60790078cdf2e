---------------------------- MODULE MCSocialGraph ----------------------------
(* Instances of SocialGraph for TLC. *)
EXTENDS SocialGraphInv, TLC

\* Users, requests and ids are interchangeable; a symmetric set of users only
\* where no user is a member of the group or all are.
Symmetry ==
    Permutations(User) \cup Permutations(Request)
        \cup Permutations(FriendId) \cup Permutations(GatheringId)

\* Requests of a user about himself are left to the serial instance.
AboutOthers == \A r \in Request : req[r].peer = None \/ req[r].peer # req[r].user

=============================================================================
