-------------------------- MODULE InvitationContract --------------------------
(***************************************************************************)
(* What gatherings promise to hosts and guests, with every step atomic:    *)
(* an invitation is open until its guest answers it or it is retracted, an *)
(* accepted one stays until its guest leaves or the gathering is deleted,  *)
(* and a deleted gathering takes all of its invitations with it.  Nothing  *)
(* happens that no user is asking for: what they ask for is the            *)
(* environment's, and changes freely.                                      *)
(***************************************************************************)
CONSTANTS User, GatheringId, None
VARIABLES
    gathering, participation,
    accepting, leaving,  \* the invitations their guests are accepting, rejecting
    parting,             \* the pairs of users parting, as sets
    deleting             \* the gatherings their hosts are deleting

Rows == GatheringId \X User

Init ==
    /\ \A g \in GatheringId : gathering[g].host = None
    /\ participation = [p \in Rows |-> "NONE"]

\* All the invitations go out with the gathering; only the host's is accepted.
Hold(g, host, guests) ==
    /\ gathering[g].host = None
    /\ \E type \in {"FRIEND", "GROUP"} :
        gathering' = [gathering EXCEPT ![g] =
            [host |-> host, type |-> type, ended |-> FALSE, deleted |-> FALSE]]
    /\ participation' = [p \in Rows |->
            IF p[1] = g /\ p[2] \in guests
            THEN IF p[2] = host THEN "ACCEPTED" ELSE "PENDING"
            ELSE participation[p]]

Accept(p) ==
    /\ p \in accepting
    /\ participation[p] = "PENDING"
    /\ participation' = [participation EXCEPT ![p] = "ACCEPTED"]
    /\ UNCHANGED gathering

Leave(p) ==
    /\ p \in leaving
    /\ participation' = [participation EXCEPT ![p] = "NONE"]
    /\ UNCHANGED gathering

\* Two users part: open invitations between them are retracted, no others.
Part(u, v) ==
    /\ {u, v} \in parting
    /\ \E retracted \in SUBSET {p \in Rows : /\ participation[p] = "PENDING"
                                             /\ {gathering[p[1]].host, p[2]} = {u, v}} :
        participation' = [p \in Rows |->
            IF p \in retracted THEN "NONE" ELSE participation[p]]
    /\ UNCHANGED gathering

Delete(g) ==
    /\ g \in deleting
    /\ gathering[g].host # None
    /\ gathering' = [gathering EXCEPT ![g].deleted = TRUE]
    /\ participation' = [p \in Rows |-> IF p[1] = g THEN "NONE" ELSE participation[p]]

End(g) ==
    /\ ~gathering[g].deleted
    /\ gathering' = [gathering EXCEPT ![g].ended = TRUE]
    /\ UNCHANGED participation

Next ==
    \/ \E g \in GatheringId :
        \/ \E host \in User, guests \in SUBSET User : Hold(g, host, guests)
        \/ Delete(g)
        \/ End(g)
    \/ \E p \in Rows : Accept(p) \/ Leave(p)
    \/ \E u, v \in User : Part(u, v)

Spec == Init /\ [][Next]_<<gathering, participation>>

=============================================================================
