------------------------------ MODULE MCNotices ------------------------------
(* An instance of Notifications with the table that the controller describes *)
(* beside the one the code makes of it, for TLC.                             *)
EXTENDS Notifications

VARIABLE kept  \* history: notice, had the deletions answered 204 deleted anything

MCInit == Init /\ kept = EmptyBag

MCNext ==
    \/ FeedsNext /\ UNCHANGED <<notices, kept>>
    \/ PostedElsewhere /\ UNCHANGED kept
    \/ \E e \in BagToSet(task) : (Tell(e) \/ DropEvent(e)) /\ UNCHANGED kept
    \/ \E n \in BagToSet(outbox) :
        \/ Save(n) /\ kept' = kept (+) SetToBag({n})
        \/ LoseNotice(n) /\ UNCHANGED kept
    \/ \E u \in User :
        \/ ReadAll(u) /\ UNCHANGED kept
        \/ DeleteAll(u) /\ kept' = Of(User \ {u}, kept)
    \/ \E n \in BagToSet(notice) : DeleteNotification /\ kept' = kept (-) SetToBag({n})
    \/ Crash /\ UNCHANGED kept

MCSpec == MCInit /\ [][MCNext]_<<vars, kept>>

\* A notification whose deletion was answered 204, by itself or with all others of
\* its user, is gone: notifications.controller.ts names the two requests a deletion,
\* and their answer its completion.  The code has them mark rows read.
DeletedNoticesAreGone == notice = kept

=============================================================================
