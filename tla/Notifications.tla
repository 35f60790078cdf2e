---------------------------- MODULE Notifications ----------------------------
(***************************************************************************)
(* Notifications of what has been committed: NotificationsManager, the     *)
(* use-cases around the services, and NotificationsService over the table  *)
(* notification.  Nobody awaits them: an event waits in the process until  *)
(* its receivers are read, its rows until they are inserted, and both are  *)
(* lost with an error or with the process.  Rows that say the same are rows *)
(* of their own: events and notifications are bags.                        *)
(***************************************************************************)
EXTENDS Feeds

VARIABLES
    outbox,  \* the rows whose insert has been sent
    notice,  \* the rows of notification
    read     \* those of them with read_at

notices == <<outbox, notice, read>>
vars == <<environment, tables, req, made, task, notices>>

Notice ==
    [user : User, source : Item \cup GatheringId \cup {None},
     type : {"GATHERING_FEED_WRITEN", "FRIEND_FEED_WRITEN", "FEED_COMMENT",
             "FEED_COMMENT_MENTIONED", "FRIEND_REQUEST", "FRIEND_REQUEST_ACCEPTED",
             "GATHERING_INVITATION_RECEIVED", "GATHERING_INVITATION_ACCEPTED",
             "GROUP_INVITATION"}]

\* Rows, requests, events and notifications are well formed.
TypeOK ==
    /\ FeedsTypeOK
    /\ IsABag(outbox) /\ BagToSet(outbox) \subseteq Notice
    /\ IsABag(notice) /\ BagToSet(notice) \subseteq Notice
    /\ IsABag(read) /\ read \sqsubseteq notice

Init == FeedsInit /\ outbox = EmptyBag /\ notice = EmptyBag /\ read = EmptyBag

\* How many copies of e are in bag B.
Copies(e, B) == IF BagIn(e, B) THEN B[e] ELSE 0

-----------------------------------------------------------------------------
(* Events of the other components, posted when their transaction has committed *)

Post(type, source, u, users) ==
    /\ Asked
    /\ Publish(type, source, u, users)
    /\ UNCHANGED <<environment, tables, req, notices>>

FriendRequestUseCase(u, v) == Post("friendRequest", None, u, {v})
FriendAcceptanceUseCase(u, v) == Post("friendAcceptance", None, u, {v})
GroupCreationUseCase(u, users) == Post("groupCreation", None, u, users \ {u})
GatheringInvitationAcceptanceUseCase(u, v, g) == Post("invitationAcceptance", g, u, {v})
GatheringCreation(u, users) == Post("gatheringCreation", None, u, users \ {u})

-----------------------------------------------------------------------------
(* NotificationsManager: the receivers are read in several statements, as if they
   were one.  A user who has withdrawn, or a row that is gone, ends it with nothing
   sent; who is lost to a list between two of them might as well lose his row. *)

Notify(e, rows) ==
    /\ task' = task (-) SetToBag({e})
    /\ outbox' = outbox (+) rows
    /\ UNCHANGED <<environment, tables, req, made, notice, read>>

\* One row for each of the users.
Rows(users, type, source) ==
    SetToBag({[user |-> u, type |-> type, source |-> source] : u \in users})

\* One row for each participation but the writer's, of whatever status, withdrawn
\* users among them: a user who was named twice is told twice.
ParticipantRows(g, writer, source) ==
    [n \in {[user |-> u, type |-> "GATHERING_FEED_WRITEN", source |-> source] :
            u \in {v \in User \ {writer} : roster[<<g, v>>] > 0}} |-> roster[<<g, n.user>>]]

NotifyGatheringFeedCreation(e) ==
    /\ e.type = "gatheringFeed"
    /\ e.actor \in active
    /\ Notify(e, ParticipantRows(feed[e.source].about, e.actor, e.source))

\* The tagged users who are active, the writer among them if he has tagged himself.
NotifyFriendFeedCreation(e) ==
    /\ e.type = "friendFeed"
    /\ e.actor \in active
    /\ Notify(e, Rows(e.to \cap active, "FRIEND_FEED_WRITEN", e.source))

\* Mutant: who is mentioned in a comment on his own feed is told twice.
NotifyMentionAndWriter(e) ==
    LET c == comment[e.source]
        f == feed[c.feed]
    IN  /\ e.type = "comment"
        /\ Stored(c.feed) /\ ~f.deleted
        /\ {f.writer, e.actor} \cup ({c.mentioned} \ {None}) \subseteq active
        /\ Notify(e, Rows({c.mentioned} \ {None}, "FEED_COMMENT_MENTIONED", e.source)
                     (+) Rows({f.writer} \ {e.actor}, "FEED_COMMENT", e.source))

NotifyFeedCommentAndMention(e) ==
    LET c == comment[e.source]
        f == feed[c.feed]
    IN  /\ e.type = "comment"
        /\ Stored(c.feed) /\ ~f.deleted
        /\ {f.writer, e.actor} \cup ({c.mentioned} \ {None}) \subseteq active
        /\ Notify(e, Rows({c.mentioned} \ {None}, "FEED_COMMENT_MENTIONED", e.source)
                     (+) Rows({f.writer} \ {c.mentioned, e.actor}, "FEED_COMMENT", e.source))

\* The use-cases read one receiver who must be active, or the active ones of many;
\* the acceptance of an invitation reads the gathering first.
NotifyUseCase(e, event, type) ==
    /\ e.type = event
    /\ e.actor \in active
    /\ e.source \in GatheringId => gathering[e.source] # "deleted"
    /\ Notify(e, Rows(e.to \cap active, type, e.source))

\* A read has failed: nothing is sent.
DropEvent(e) == Notify(e, EmptyBag)

\* The insert runs, or fails unnoticed.
Save(n) ==
    /\ notice' = notice (+) SetToBag({n})
    /\ outbox' = outbox (-) SetToBag({n})
    /\ UNCHANGED <<environment, tables, req, made, task, read>>
LoseNotice(n) ==
    /\ outbox' = outbox (-) SetToBag({n})
    /\ UNCHANGED <<environment, tables, req, made, task, notice, read>>

\* The process stops: what it was about to do is lost.
Crash ==
    /\ req' = [r \in Request |-> Idle]
    /\ task' = EmptyBag /\ outbox' = EmptyBag
    /\ UNCHANGED <<environment, tables, made, notice, read>>

-----------------------------------------------------------------------------
(* NotificationsService *)

\* The rows of bag B that are for one of the users.
Of(users, B) == [n \in {m \in BagToSet(B) : m.user \in users} |-> B[n]]

\* All rows of the users get their read mark; those of others keep what they have.
MarkRead(users) ==
    /\ Asked
    /\ read' = Of(users, notice) (+) Of(User \ users, read)
    /\ UNCHANGED <<environment, tables, req, task, outbox, notice>>

ReadAll(u) == MarkRead({u})

\* deleteAll calls readAll.
DeleteAll(u) == ReadAll(u)

\* delete calls readAll with the id of the notification, which no user has.
DeleteNotification == MarkRead({})

ChangeNotifications ==
    (\E u \in User : ReadAll(u) \/ DeleteAll(u)) \/ DeleteNotification

-----------------------------------------------------------------------------

PostedElsewhere ==
    \E u, v \in User :
        \/ FriendRequestUseCase(u, v) \/ FriendAcceptanceUseCase(u, v)
        \/ GroupCreationUseCase(u, {u, v}) \/ GatheringCreation(u, {u, v})
        \/ \E g \in GatheringId : GatheringInvitationAcceptanceUseCase(u, v, g)

\* What the receiver of an event does in the end.
Tell(e) ==
    \/ NotifyGatheringFeedCreation(e) \/ NotifyFriendFeedCreation(e)
    \/ NotifyFeedCommentAndMention(e)
    \/ NotifyUseCase(e, "friendRequest", "FRIEND_REQUEST")
    \/ NotifyUseCase(e, "friendAcceptance", "FRIEND_REQUEST_ACCEPTED")
    \/ NotifyUseCase(e, "gatheringCreation", "GATHERING_INVITATION_RECEIVED")
    \/ NotifyUseCase(e, "invitationAcceptance", "GATHERING_INVITATION_ACCEPTED")
    \/ NotifyUseCase(e, "groupCreation", "GROUP_INVITATION")

Next ==
    \/ FeedsNext /\ UNCHANGED notices
    \/ PostedElsewhere
    \/ \E e \in BagToSet(task) : Tell(e) \/ DropEvent(e)
    \/ \E n \in BagToSet(outbox) : Save(n) \/ LoseNotice(n)
    \/ ChangeNotifications
    \/ Crash

Spec == Init /\ [][Next]_vars

-----------------------------------------------------------------------------

\* A report is filed together with a row that hides its subject from the reporter,
\* or not at all: neither a failed insert, nor a timeout, nor a feed hidden by
\* another request in between leaves one without the other.
ReportsHide ==
    [][\A p \in User \X Item :
            report'[p] # report[p]
                => p \notin hidden /\ p \in hidden' /\ report'[p] = report[p] + 1]_vars

\* The rows inserted, or on their way.
Sent == outbox (+) notice

\* Nobody is told of one feed or comment in two ways, nor twice in the same: not a
\* mentioned writer of the feed, not a participant whom the writer has tagged.  Who
\* has several rows in a gathering is told once for each, of those he was given.
\* Nobody is told of his own, except a writer who has befriended and tagged himself.
ToldOnce ==
    \A n \in BagToSet(Sent) :
        /\ n.source \in Item =>
            /\ \A m \in BagToSet(Sent) : m.source = n.source /\ m.user = n.user => m = n
            /\ Copies(n, Sent) <= IF n.type = "GATHERING_FEED_WRITEN"
                                  THEN invited[<<feed[n.source].about, n.user>>] ELSE 1
        /\ n.source \in FeedId /\ n.user = feed[n.source].writer =>
            n.type = "FRIEND_FEED_WRITEN" /\ {n.user} \in befriended
        /\ n.source \in CommentId => n.user # comment[n.source].writer

\* A notification tells of a row that was committed, and only those it concerns:
\* the friends a feed is shown to, the user a comment mentions, the feed's writer.
NoticesFollowCommits ==
    \A n \in BagToSet(Sent) :
        /\ n.type = "GATHERING_FEED_WRITEN" =>
            Stored(n.source) /\ feed[n.source].about # None
        /\ n.type = "FRIEND_FEED_WRITEN" => <<n.source, n.user>> \in visible
        /\ n.type = "FEED_COMMENT" => n.user = feed[comment[n.source].feed].writer
        /\ n.type = "FEED_COMMENT_MENTIONED" => n.user = comment[n.source].mentioned

=============================================================================
