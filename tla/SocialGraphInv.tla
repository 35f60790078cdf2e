---------------------------- MODULE SocialGraphInv ----------------------------
(***************************************************************************)
(* The inductive strengthening of SocialGraph's invariants: what the       *)
(* transactions in flight have written, and which rows their locks keep    *)
(* from changing under them.                                               *)
(***************************************************************************)
EXTENDS SocialGraph

CreatingSteps == {"checkInvitees", "saveFriendGathering", "saveGroupGathering"}
GatheringSteps ==
    CreatingSteps \cup {"acceptInvitation", "rejectInvitation", "dropGathering", "dropInvitations"}
UserSteps ==
    {"saveFriend", "rejectFriend", "unfriendRows", "unfriendInvitations",
     "reportInvitations", "reportSave", "reportBlock", "reportRows"}

\* A request has the arguments its next statement reads.
ArgumentsOK ==
    \A r \in Request :
        /\ req[r].pc \in GatheringSteps => req[r].user \in User /\ req[r].gathering \in GatheringId
        /\ req[r].pc \in UserSteps => req[r].user \in User /\ req[r].peer \in User
        /\ req[r].pc = "acceptFriend" => req[r].row \in FriendId

\* A gathering being deleted exists.
DroppedExist ==
    \A r \in Request :
        /\ req[r].pc = "dropGathering" => gathering[req[r].gathering].host # None
        /\ \A g \in GatheringId : <<"gathering", g>> \in pending[r] => gathering[g].host # None

\* Nothing is uncommitted, and nothing is locked, outside a transaction.
WritesInTransactions ==
    \A r \in Request :
        req[r].pc \notin TransactionSteps \ {"unfriendRows", "reportInvitations", "dropGathering"}
            => pending[r] = {}

\* A row is written by one open transaction at most; only reports are not rows
\* that exist before the transaction commits.
WritesExclude ==
    \A r, q \in Request : \A w \in pending[r] \cap pending[q] : r = q \/ w[1] = "report"

\* A transaction that has added a block has added its report, and no committed
\* block is in its way; it commits a report only together with the block.
ReportsInFlight ==
    \A r \in Request, p \in User \X User :
        /\ <<"report", p>> \in pending[r] =>
            /\ req[r].pc \in {"reportBlock", "reportRows", "commit"}
            /\ req[r].pc = "reportBlock" => p = ReportedPair(r)
            /\ req[r].pc # "reportBlock" => <<"blocked", p>> \in pending[r]
        /\ req[r].pc = "reportBlock" => <<"report", ReportedPair(r)>> \in pending[r]
        /\ <<"blocked", p>> \in pending[r] => <<"report", p>> \in pending[r] /\ p \notin blocked

\* A gathering being created is nobody's yet; when the deletion
\* of one is about to commit, every invitation to it goes with it.
GatheringsInFlight ==
    \A r \in Request :
        /\ req[r].pc \in CreatingSteps =>
            /\ gathering[req[r].gathering].host = None
            /\ \A q \in Request \ {r} : req[q].gathering # req[r].gathering
        /\ req[r].pc = "dropInvitations" => <<"gathering", req[r].gathering>> \in pending[r]
        /\ \A g \in GatheringId : <<"gathering", g>> \in pending[r] =>
            /\ req[r].pc \in {"dropInvitations", "commit"}
            /\ g = req[r].gathering
            /\ req[r].pc = "commit" =>
                \A u \in User : participation[<<g, u>>] # "NONE" => <<"participation", <<g, u>>>> \in pending[r]

\* An invitation being retracted is open, and between the two users who part,
\* unless its gathering is deleted with it.
InvitationsInFlight ==
    \A r \in Request, p \in GatheringId \X User : <<"participation", p>> \in pending[r] =>
        /\ req[r].pc \in {"reportSave", "reportBlock", "reportRows", "commit"}
        /\ \/ <<"gathering", p[1]>> \in pending[r]
           \/ /\ \A g \in GatheringId : <<"gathering", g>> \notin pending[r]
              /\ participation[p] = "PENDING"
              /\ {gathering[p[1]].host, p[2]} = {req[r].user, req[r].peer}

\* Invitations exist only to gatherings that do, and that are not deleted.
InvitationsHaveGathering ==
    \A g \in GatheringId, u \in User : participation[<<g, u>>] # "NONE" =>
        gathering[g].host # None /\ ~gathering[g].deleted

\* Every open transaction is consistent with the rows it has locked: the fact
\* the atomicity of unfriending, reporting and deleting rests on.
TransactionsConsistent ==
    /\ ArgumentsOK
    /\ DroppedExist
    /\ WritesInTransactions
    /\ WritesExclude
    /\ ReportsInFlight
    /\ GatheringsInFlight
    /\ InvitationsInFlight
    /\ InvitationsHaveGathering

IInv == TypeOK /\ TransactionsConsistent /\ ReportsMatchBlocks

=============================================================================
