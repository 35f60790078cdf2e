------------------------------- MODULE MCFeeds -------------------------------
(* Instances of Notifications, with the feeds it extends, for TLC. *)
EXTENDS Notifications, TLC

Symmetry ==
    Permutations(User) \cup Permutations(Request)
        \cup Permutations(FeedId) \cup Permutations(CommentId)

\* All users are friends of all, or none of any, and all have the same number of
\* rows in a gathering: steps of the environment lead to the others.
Alike ==
    /\ friends \in {{}, Pair}
    /\ \A p, q \in DOMAIN roster : roster[p] = roster[q]

MCInit == Init /\ Alike

MCSpec == MCInit /\ [][Next]_vars

=============================================================================
