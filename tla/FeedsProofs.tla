----------------------------- MODULE FeedsProofs -----------------------------
(***************************************************************************)
(* Theorems about feeds and notifications: what requests that overlap can  *)
(* duplicate, whom a feed is shown to, what a report hides, and what is    *)
(* told to whom, for any numbers of users, requests and rows.              *)
(***************************************************************************)
EXTENDS Notifications, FiniteSetTheorems, TLAPS

\* The locals of a request are those its handler has set.
RequestsOK ==
    \A r \in Request :
        /\ req[r].pc # "idle" => req[r].user \in User
        /\ req[r].pc \in {"participation", "duplicate", "saveFeed"} =>
            req[r].item \in GatheringId
        /\ req[r].pc \in {"block", "commit"} => req[r].item \in Item

\* An event tells of a row that is stored, by its writer.
FollowsCommit(e) ==
    /\ e.type = "gatheringFeed" =>
        /\ e.source \in FeedId /\ Stored(e.source)
        /\ feed[e.source].writer = e.actor /\ feed[e.source].about \in GatheringId
    /\ e.type = "friendFeed" =>
        /\ e.source \in FeedId /\ Stored(e.source)
        /\ feed[e.source].writer = e.actor
        /\ {e.source} \X e.to \subseteq visible
    /\ e.type = "comment" =>
        /\ e.source \in CommentId /\ comment[e.source] # NoComment
        /\ comment[e.source].writer = e.actor
        /\ comment[e.source].mentioned # e.actor
    /\ e.type \notin {"gatheringFeed", "friendFeed", "comment"} =>
        e.source \in GatheringId \cup {None}

TypeInv == TypeOK /\ RequestsOK /\ \A e \in BagToSet(task) : FollowsCommit(e)

\* What has been looked at was a friendship once.
CheckedWereFriends ==
    \A r \in Request :
        /\ req[r].pc \in {"friends", "saveFriendFeed"} =>
            \A v \in req[r].users \ req[r].unchecked : {req[r].user, v} \in befriended
        /\ req[r].pc = "saveFriendFeed" => req[r].unchecked = {}

\* A transaction about to commit a report is the only one to have inserted its key.
CommitsAreNew ==
    \A r \in Request : req[r].pc = "commit" =>
        /\ <<req[r].user, req[r].item>> \notin hidden
        /\ \A q \in Request \ {r} : req[q].pc = "commit" =>
            <<req[q].user, req[q].item>> # <<req[r].user, req[r].item>>

\* Nobody gets more rows in a gathering than he was given when it was created.
RosterShrinks == \A p \in GatheringId \X User : roster[p] <= invited[p]

\* A row is told of by one event, which ends when its notifications are sent.
EventsApart ==
    /\ \A e, d \in BagToSet(task) : e.source = d.source /\ e.source \in Item => e = d
    /\ \A e \in BagToSet(task) : e.source \in Item => Copies(e, task) = 1
    /\ \A e \in BagToSet(task), n \in BagToSet(Sent) : e.source = n.source => e.source \notin Item

\* A notification is about a row that is stored and tells what the row says, not to
\* its writer unless he is among those it is shown to.
TellsTruth(n) ==
    /\ n.source \in FeedId => Stored(n.source)
    /\ n.source \in FeedId /\ n.user = feed[n.source].writer => n.type = "FRIEND_FEED_WRITEN"
    /\ n.source \in CommentId =>
        comment[n.source] # NoComment /\ n.user # comment[n.source].writer
    /\ n.type = "GATHERING_FEED_WRITEN" =>
        n.source \in FeedId /\ feed[n.source].about \in GatheringId
    /\ n.type = "FRIEND_FEED_WRITEN" => n.source \in FeedId /\ <<n.source, n.user>> \in visible
    /\ n.type = "FEED_COMMENT" =>
        n.source \in CommentId /\ n.user = feed[comment[n.source].feed].writer
    /\ n.type = "FEED_COMMENT_MENTIONED" =>
        n.source \in CommentId /\ n.user = comment[n.source].mentioned

\* At most this many rows tell a user of a feed or comment.
MostCopies(n) ==
    IF n.type = "GATHERING_FEED_WRITEN" THEN invited[<<feed[n.source].about, n.user>>] ELSE 1

NoticesDiffer ==
    \A n \in BagToSet(Sent) : n.source \in Item =>
        /\ \A m \in BagToSet(Sent) : m.source = n.source /\ m.user = n.user => m = n
        /\ Copies(n, Sent) <= MostCopies(n)

NoticeInv ==
    /\ EventsApart
    /\ NoticesDiffer
    /\ \A n \in BagToSet(Sent) : TellsTruth(n)

-----------------------------------------------------------------------------
(* Bags *)

LEMMA BagCopies ==
    ASSUME NEW B, IsABag(B), NEW e
    PROVE  Copies(e, B) \in Nat /\ (e \in BagToSet(B) <=> Copies(e, B) # 0)
  BY DEF IsABag, Copies, BagIn, BagToSet

LEMMA AddedCopy ==
    ASSUME NEW B, IsABag(B), NEW e
    PROVE  /\ IsABag(B (+) SetToBag({e}))
           /\ BagToSet(B (+) SetToBag({e})) = BagToSet(B) \cup {e}
           /\ \A d : Copies(d, B (+) SetToBag({e})) = Copies(d, B) + IF d = e THEN 1 ELSE 0
  BY DEF IsABag, SetToBag, (+), Copies, BagIn, BagToSet

LEMMA RemovedCopy ==
    ASSUME NEW B, IsABag(B), NEW e \in BagToSet(B)
    PROVE  /\ IsABag(B (-) SetToBag({e}))
           /\ BagToSet(B (-) SetToBag({e})) \subseteq BagToSet(B)
           /\ \A d : Copies(d, B (-) SetToBag({e})) = Copies(d, B) - IF d = e THEN 1 ELSE 0
  BY DEF IsABag, SetToBag, (-), Copies, BagIn, BagToSet

LEMMA BagsTogether ==
    ASSUME NEW B, IsABag(B), NEW C, IsABag(C)
    PROVE  /\ IsABag(B (+) C)
           /\ BagToSet(B (+) C) = BagToSet(B) \cup BagToSet(C)
           /\ \A e : Copies(e, B (+) C) = Copies(e, B) + Copies(e, C)
  BY DEF IsABag, (+), Copies, BagIn, BagToSet

LEMMA SetsAreBags ==
    ASSUME NEW S
    PROVE  /\ IsABag(SetToBag(S)) /\ BagToSet(SetToBag(S)) = S
           /\ \A e : Copies(e, SetToBag(S)) = IF e \in S THEN 1 ELSE 0
  BY DEF IsABag, SetToBag, Copies, BagIn, BagToSet

-----------------------------------------------------------------------------

\* What a step does to the requests: nothing, a new one, an answer, one of the
\* statements that go on, or the end of all of them.
Begins(r) ==
    \E pc \in {"participation", "friends", "block"}, u \in User,
       i \in Item \cup GatheringId \cup {None}, users \in SUBSET User :
        /\ pc = "participation" => i \in GatheringId
        /\ pc = "block" => i \in Item
        /\ Begin(r, pc, u, i, users)

LEMMA RequestSteps ==
    ASSUME [Next]_vars
    PROVE  \/ UNCHANGED req
           \/ Crash
           \/ \E r \in Request :
                Begins(r) \/ Finish(r) \/ CheckIsParticipation(r) \/ CheckDuplicateFeed(r)
                    \/ CheckIsFriendAll(r) \/ BlockReported(r)
<1>1. ASSUME NEW r \in Request, NEW u \in User, WriteFeed(r, u) PROVE Begins(r)
  <2>1. ASSUME NEW g \in GatheringId, CreateGatheringFeed(r, u, g) PROVE Begins(r)
    BY <2>1 DEF CreateGatheringFeed, Begins
  <2>2. ASSUME NEW users \in SUBSET User, CreateFriendFeed(r, u, users)
        PROVE  Begins(r)
    BY <2>2 DEF CreateFriendFeed, Begins
  <2> QED
    BY <1>1, <2>1, <2>2 DEF WriteFeed
<1>2. ASSUME NEW r \in Request, NEW u \in User, FileReport(r, u) PROVE Begins(r)
  BY <1>2 DEF FileReport, Report, Begins
<1>3. ASSUME NEW u \in User, ChangeComment(u) PROVE UNCHANGED req
  BY <1>3 DEF ChangeComment, CreateComment, DeleteComment
<1>4. ASSUME NEW u \in User, NEW f \in FeedId, ChangeFeed(u, f) PROVE UNCHANGED req
  BY <1>4 DEF ChangeFeed, DeleteFeed, Block, Unblock
<1>5. ASSUME NEW r \in Request, Progress(r)
      PROVE  Finish(r) \/ CheckIsParticipation(r) \/ CheckDuplicateFeed(r)
                \/ CheckIsFriendAll(r) \/ BlockReported(r)
  BY <1>5 DEF Progress, SaveGatheringFeed, FriendFeedTransaction, CommitReport
<1>6. ASSUME NEW r \in Request, Fail(r) PROVE Finish(r)
  BY <1>6 DEF Fail
<1>7. CASE FeedsNext /\ UNCHANGED notices
  BY <1>1, <1>2, <1>3, <1>4, <1>5, <1>6, <1>7 DEF FeedsNext
<1>8. CASE PostedElsewhere
  BY <1>8 DEF PostedElsewhere, FriendRequestUseCase, FriendAcceptanceUseCase,
      GroupCreationUseCase, GatheringCreation, GatheringInvitationAcceptanceUseCase, Post
<1>9. ASSUME NEW e \in BagToSet(task), NEW rows, Notify(e, rows) PROVE UNCHANGED req
  BY <1>9 DEF Notify
<1>10. ASSUME NEW n \in BagToSet(outbox), Save(n) \/ LoseNotice(n) PROVE UNCHANGED req
  BY <1>10 DEF Save, LoseNotice
<1>11. CASE ChangeNotifications
  BY <1>11 DEF ChangeNotifications, ReadAll, DeleteAll, DeleteNotification, MarkRead
<1>12. CASE UNCHANGED vars
  BY <1>12 DEF vars
<1> QED
  BY <1>7, <1>8, <1>9, <1>10, <1>11, <1>12 DEF Next, Tell, NotifyGatheringFeedCreation,
      NotifyFriendFeedCreation, NotifyFeedCommentAndMention, NotifyUseCase, DropEvent

\* What a step does to the tables and to what is to be told.
FeedStep ==
    \/ \E r \in Request :
        SaveGatheringFeed(r) \/ FriendFeedTransaction(r) \/ CommitReport(r)
    \/ \E u \in User, f \in FeedId : DeleteFeed(u, f) \/ Block(u, f) \/ Unblock(u, f)
    \/ \E u \in User, f \in FeedId, m \in User \cup {None} : CreateComment(u, f, m)
    \/ \E u \in User, c \in CommentId : DeleteComment(u, c)

LEMMA TableSteps ==
    ASSUME [Next]_vars
    PROVE  \/ UNCHANGED <<tables, task, notices>>
           \/ FeedStep /\ UNCHANGED notices
           \/ PostedElsewhere
           \/ \E e \in BagToSet(task) : Tell(e) \/ DropEvent(e)
           \/ \E n \in BagToSet(outbox) : Save(n) \/ LoseNotice(n)
           \/ ChangeNotifications
           \/ Crash
<1>1. ASSUME NEW r \in Request, NEW u \in User, WriteFeed(r, u) \/ FileReport(r, u)
      PROVE  UNCHANGED <<tables, task>>
  BY <1>1 DEF WriteFeed, FileReport, CreateGatheringFeed, CreateFriendFeed, Report, tables
<1>2. ASSUME NEW r \in Request, Progress(r) \/ Fail(r)
      PROVE  UNCHANGED <<tables, task>> \/ FeedStep
  BY <1>2 DEF Progress, Fail, CheckIsParticipation, CheckDuplicateFeed, CheckIsFriendAll,
      BlockReported, FeedStep, tables
<1>3. ASSUME NEW u \in User, ChangeComment(u) \/ \E f \in FeedId : ChangeFeed(u, f)
      PROVE  FeedStep
  BY <1>3 DEF ChangeComment, ChangeFeed, FeedStep
<1>4. FeedsNext => UNCHANGED <<tables, task>> \/ FeedStep
  BY <1>1, <1>2, <1>3 DEF FeedsNext
<1>5. CASE UNCHANGED vars
  BY <1>5 DEF vars
<1> QED
  BY <1>4, <1>5 DEF Next

\* What a step does to the environment.
EnvironmentStep == Environment \/ UNCHANGED environment

LEMMA EnvironmentSteps == ASSUME [Next]_vars PROVE EnvironmentStep /\ (UNCHANGED made \/ Asked)
<1>1. ASSUME NEW r \in Request, NEW u \in User, WriteFeed(r, u) \/ FileReport(r, u)
      PROVE  UNCHANGED environment /\ Asked
  BY <1>1 DEF WriteFeed, FileReport, CreateGatheringFeed, CreateFriendFeed, Report, Begin
<1>2. ASSUME NEW r \in Request, Progress(r) \/ Fail(r)
      PROVE  UNCHANGED <<environment, made>>
  BY <1>2 DEF Progress, Fail, CheckIsParticipation, CheckDuplicateFeed, CheckIsFriendAll,
      BlockReported, SaveGatheringFeed, FriendFeedTransaction, CommitReport
<1>3. ASSUME NEW u \in User, ChangeComment(u) \/ \E f \in FeedId : ChangeFeed(u, f)
      PROVE  UNCHANGED environment /\ Asked
  BY <1>3 DEF ChangeComment, ChangeFeed, DeleteFeed, Block, Unblock, CreateComment,
      DeleteComment
<1>4. CASE FeedsNext
  BY <1>1, <1>2, <1>3, <1>4 DEF FeedsNext, EnvironmentStep
<1>5. CASE PostedElsewhere \/ ChangeNotifications
  BY <1>5 DEF PostedElsewhere, FriendRequestUseCase, FriendAcceptanceUseCase,
      GroupCreationUseCase, GatheringCreation, GatheringInvitationAcceptanceUseCase, Post,
      ChangeNotifications, ReadAll, DeleteAll, DeleteNotification, MarkRead, EnvironmentStep
<1>6. ASSUME NEW e \in BagToSet(task), Tell(e) \/ DropEvent(e) PROVE UNCHANGED <<environment, made>>
  BY <1>6 DEF Tell, NotifyGatheringFeedCreation, NotifyFriendFeedCreation,
      NotifyFeedCommentAndMention, NotifyUseCase, DropEvent, Notify
<1>7. CASE (\E n \in BagToSet(outbox) : Save(n) \/ LoseNotice(n)) \/ Crash \/ UNCHANGED vars
  BY <1>7 DEF Save, LoseNotice, Crash, vars, EnvironmentStep
<1> QED
  BY <1>4, <1>5, <1>6, <1>7 DEF Next, EnvironmentStep

-----------------------------------------------------------------------------
(* Types *)

EnvironmentOK ==
    /\ active \subseteq User
    /\ friends \subseteq befriended /\ befriended \subseteq Pair
    /\ gathering \in [GatheringId -> {"open", "ended", "old", "deleted"}]
    /\ roster \in [GatheringId \X User -> 0..MaxRows]
    /\ invited \in [GatheringId \X User -> 0..MaxRows]
RequestsTyped == req \in [Request -> RequestState]
TablesOK ==
    /\ feed \in [FeedId -> FeedRow \cup {NoFeed}]
    /\ visible \subseteq FeedId \X User
    /\ comment \in [CommentId -> CommentRow \cup {NoComment}]
    /\ hidden \subseteq User \X Item
    /\ report \in [User \X Item -> Nat]
NoticesOK ==
    /\ IsABag(task) /\ BagToSet(task) \subseteq Event
    /\ IsABag(outbox) /\ BagToSet(outbox) \subseteq Notice
    /\ IsABag(notice) /\ BagToSet(notice) \subseteq Notice
    /\ IsABag(read) /\ read \sqsubseteq notice

LEMMA TypeParts ==
    TypeOK <=> EnvironmentOK /\ RequestsTyped /\ TablesOK /\ NoticesOK /\ made \in 0..MaxRequests
  BY DEF TypeOK, FeedsTypeOK, EnvironmentOK, RequestsTyped, TablesOK, NoticesOK

\* Participations of a gathering are only ever deleted here.
LEMMA RosterSteps ==
    ASSUME EnvironmentOK, EnvironmentStep
    PROVE  /\ invited' = invited /\ roster' \in [GatheringId \X User -> 0..MaxRows]
           /\ \A p \in GatheringId \X User : roster'[p] <= roster[p]
<1> DEFINE Row == GatheringId \X User
<1>1. roster \in [Row -> 0..MaxRows] /\ MaxRows \in Nat
  BY FeedsAssumption DEF EnvironmentOK
<1> HIDE DEF Row
<1>2. CASE UNCHANGED <<roster, invited>>
  BY <1>1, <1>2 DEF Row
<1>3. ASSUME NEW g \in GatheringId, NEW u \in User, DropParticipation(g, u)
      PROVE  invited' = invited /\ roster' \in [Row -> 0..MaxRows]
                /\ \A p \in Row : roster'[p] <= roster[p]
  <2>1. PICK q : q = <<g, u>>
    OBVIOUS
  <2>2. /\ q \in Row /\ roster[q] > 0 /\ roster' = [roster EXCEPT ![q] = @ - 1]
        /\ invited' = invited
    BY <1>3, <2>1 DEF DropParticipation, Row
  <2> QED
    BY <1>1, <2>2
<1>4. ASSUME NEW g \in GatheringId, DropGathering(g)
      PROVE  invited' = invited /\ roster' \in [Row -> 0..MaxRows]
                /\ \A p \in Row : roster'[p] <= roster[p]
  <2>1. roster' = [p \in Row |-> IF p[1] = g THEN 0 ELSE roster[p]] /\ invited' = invited
    BY <1>4 DEF DropGathering, Row
  <2> QED
    BY <1>1, <2>1
<1>5. \/ UNCHANGED <<roster, invited>>
      \/ \E g \in GatheringId : DropGathering(g) \/ \E u \in User : DropParticipation(g, u)
  BY DEF EnvironmentStep, Environment, environment, Befriend, Unfriend, Withdraw, RestoreUser,
      EndGathering
<1> QED
  BY <1>2, <1>3, <1>4, <1>5 DEF Row

LEMMA EnvironmentTypes == EnvironmentOK /\ EnvironmentStep => EnvironmentOK'
<1> SUFFICES ASSUME EnvironmentOK, EnvironmentStep PROVE EnvironmentOK'
  OBVIOUS
<1> USE DEF EnvironmentOK
<1>1. roster' \in [GatheringId \X User -> 0..MaxRows] /\ invited' = invited
  BY RosterSteps
<1>2. ASSUME NEW p \in Pair, Befriend(p) \/ Unfriend(p) PROVE EnvironmentOK'
  BY <1>1, <1>2 DEF Befriend, Unfriend
<1>3. ASSUME NEW u \in User, Withdraw(u) \/ RestoreUser(u) PROVE EnvironmentOK'
  BY <1>1, <1>3 DEF Withdraw, RestoreUser
<1>4. ASSUME NEW g \in GatheringId, EndGathering(g) \/ DropGathering(g) PROVE EnvironmentOK'
  <2>1. gathering' \in [GatheringId -> {"open", "ended", "old", "deleted"}]
    BY <1>4 DEF EndGathering, DropGathering
  <2>2. UNCHANGED <<active, friends, befriended>>
    BY <1>4 DEF EndGathering, DropGathering
  <2> QED
    BY <1>1, <2>1, <2>2
<1>5. ASSUME NEW g \in GatheringId, NEW u \in User, DropParticipation(g, u)
      PROVE  EnvironmentOK'
  BY <1>1, <1>5 DEF DropParticipation
<1> QED
  BY <1>2, <1>3, <1>4, <1>5 DEF EnvironmentStep, Environment, environment

LEMMA RosterStep ==
    ASSUME EnvironmentOK, RosterShrinks, EnvironmentStep PROVE RosterShrinks'
<1> DEFINE Row == GatheringId \X User
<1>1. /\ roster \in [Row -> 0..MaxRows] /\ roster' \in [Row -> 0..MaxRows]
      /\ invited \in [Row -> 0..MaxRows] /\ invited' = invited /\ MaxRows \in Nat
      /\ \A p \in Row : roster'[p] <= roster[p] /\ roster[p] <= invited[p]
  BY RosterSteps, FeedsAssumption DEF EnvironmentOK, RosterShrinks
<1> HIDE DEF Row
<1>2. \A p \in Row : roster'[p] <= invited'[p]
  BY <1>1
<1> QED
  BY <1>2 DEF RosterShrinks, Row

\* Every handler keeps its locals well formed and what the next statement needs.
LEMMA RequestTypes ==
    ASSUME RequestsTyped, RequestsOK, [Next]_vars
    PROVE  RequestsTyped' /\ RequestsOK'
<1> USE DEF RequestsTyped, RequestsOK, RequestState
<1>1. CASE UNCHANGED req
  BY <1>1
<1>2. CASE Crash
  BY <1>2 DEF Crash, Idle
<1>3. ASSUME NEW r \in Request, Finish(r) PROVE RequestsTyped' /\ RequestsOK'
  BY <1>3 DEF Finish, Idle
<1>4. ASSUME NEW r \in Request, Begins(r) PROVE RequestsTyped' /\ RequestsOK'
  <2>1. PICK pc \in {"participation", "friends", "block"}, u \in User,
             i \in Item \cup GatheringId \cup {None}, users \in SUBSET User :
             /\ pc = "participation" => i \in GatheringId
             /\ pc = "block" => i \in Item
             /\ Begin(r, pc, u, i, users)
    BY <1>4 DEF Begins
  <2> QED
    BY <2>1 DEF Begin
<1>5. ASSUME NEW r \in Request, CheckIsParticipation(r) \/ CheckDuplicateFeed(r) \/ BlockReported(r)
      PROVE  RequestsTyped' /\ RequestsOK'
  BY <1>5, <1>3 DEF CheckIsParticipation, CheckDuplicateFeed, BlockReported, Goto
<1>6. ASSUME NEW r \in Request, CheckIsFriendAll(r) PROVE RequestsTyped' /\ RequestsOK'
  <2>1. ASSUME NEW v \in req[r].unchecked, req' = [req EXCEPT ![r].unchecked = @ \ {v}]
        PROVE  RequestsTyped' /\ RequestsOK'
    BY <2>1
  <2>2. CASE Goto(r, "saveFriendFeed")
    BY <2>2, <1>6 DEF Goto, CheckIsFriendAll
  <2> QED
    BY <1>6, <1>3, <2>1, <2>2 DEF CheckIsFriendAll
<1> QED
  BY <1>1, <1>2, <1>3, <1>4, <1>5, <1>6, RequestSteps

\* Rows are written once and only their deletion mark changes: a stored row keeps
\* its writer and what it is about, and visibilities are only added.
RowsStay ==
    /\ \A f \in FeedId : Stored(f) =>
        /\ feed'[f] # NoFeed
        /\ feed'[f].writer = feed[f].writer /\ feed'[f].about = feed[f].about
    /\ \A c \in CommentId : comment[c] # NoComment =>
        /\ comment'[c] # NoComment
        /\ comment'[c].writer = comment[c].writer /\ comment'[c].feed = comment[c].feed
        /\ comment'[c].mentioned = comment[c].mentioned
    /\ visible \subseteq visible'

\* Deleting a row leaves its other columns alone.
LEMMA DeletedRows ==
    ASSUME NEW row \in FeedRow
    PROVE  /\ Deleted(row) \in FeedRow /\ Deleted(row).deleted
           /\ Deleted(row).writer = row.writer /\ Deleted(row).about = row.about
  BY DEF FeedRow, Deleted
LEMMA DeletedComments ==
    ASSUME NEW row \in CommentRow
    PROVE  /\ Deleted(row) \in CommentRow
           /\ Deleted(row).writer = row.writer /\ Deleted(row).feed = row.feed
           /\ Deleted(row).mentioned = row.mentioned
  BY DEF CommentRow, Deleted

LEMMA FeedStepRows ==
    ASSUME TablesOK, RequestsTyped, RequestsOK, FeedStep
    PROVE  TablesOK' /\ RowsStay
<1> USE FeedsAssumption
        DEF TablesOK, RowsStay, Stored, Unused, FeedRow, NoFeed, CommentRow, NoComment
<1>1. ASSUME NEW r \in Request, SaveGatheringFeed(r) PROVE TablesOK' /\ RowsStay
  <2>1. req[r].user \in User /\ req[r].item \in GatheringId
    BY <1>1 DEF SaveGatheringFeed, RequestsOK
  <2> QED
    BY <1>1, <2>1 DEF SaveGatheringFeed
<1>2. ASSUME NEW r \in Request, FriendFeedTransaction(r) PROVE TablesOK' /\ RowsStay
  <2>1. req[r].user \in User /\ req[r].users \subseteq User
    BY <1>2 DEF FriendFeedTransaction, RequestsOK, RequestsTyped, RequestState
  <2> QED
    BY <1>2, <2>1 DEF FriendFeedTransaction
<1>3. ASSUME NEW r \in Request, CommitReport(r) PROVE TablesOK' /\ RowsStay
  <2>1. req[r].user \in User /\ req[r].item \in Item
    BY <1>3 DEF CommitReport, RequestsOK
  <2> QED
    BY <1>3, <2>1 DEF CommitReport
<1>4. ASSUME NEW u \in User, NEW f \in FeedId, DeleteFeed(u, f) PROVE TablesOK' /\ RowsStay
  <2>1. feed[f] \in FeedRow
    BY <1>4 DEF DeleteFeed
  <2>2. Deleted(feed[f]) \in FeedRow
        /\ Deleted(feed[f]).writer = feed[f].writer /\ Deleted(feed[f]).about = feed[f].about
    BY <2>1, DeletedRows
  <2> QED
    BY <1>4, <2>1, <2>2 DEF DeleteFeed
<1>5. ASSUME NEW u \in User, NEW f \in FeedId, Block(u, f) \/ Unblock(u, f)
      PROVE  TablesOK' /\ RowsStay
  BY <1>5 DEF Block, Unblock, Item
<1>6. ASSUME NEW u \in User, NEW f \in FeedId, NEW m \in User \cup {None},
             CreateComment(u, f, m)
      PROVE  TablesOK' /\ RowsStay
  BY <1>6 DEF CreateComment
<1>7. ASSUME NEW u \in User, NEW c \in CommentId, DeleteComment(u, c)
      PROVE  TablesOK' /\ RowsStay
  <2>1. comment[c] \in CommentRow
    BY <1>7 DEF DeleteComment
  <2>2. Deleted(comment[c]) \in CommentRow
        /\ Deleted(comment[c]).writer = comment[c].writer
        /\ Deleted(comment[c]).feed = comment[c].feed
        /\ Deleted(comment[c]).mentioned = comment[c].mentioned
    BY <2>1, DeletedComments
  <2> QED
    BY <1>7, <2>1, <2>2 DEF DeleteComment
<1> QED
  BY <1>1, <1>2, <1>3, <1>4, <1>5, <1>6, <1>7 DEF FeedStep

\* Events, notifications and a crash leave the tables alone.
LEMMA OtherStepsKeepTables ==
    ASSUME \/ UNCHANGED <<tables, task, notices>>
           \/ PostedElsewhere \/ ChangeNotifications \/ Crash
           \/ \E e \in BagToSet(task) : Tell(e) \/ DropEvent(e)
           \/ \E n \in BagToSet(outbox) : Save(n) \/ LoseNotice(n)
    PROVE  UNCHANGED tables
<1>1. PostedElsewhere \/ ChangeNotifications \/ Crash => UNCHANGED tables
  BY DEF PostedElsewhere, FriendRequestUseCase, FriendAcceptanceUseCase,
      GroupCreationUseCase, GatheringCreation, GatheringInvitationAcceptanceUseCase, Post,
      ChangeNotifications, ReadAll, DeleteAll, DeleteNotification, MarkRead, Crash
<1>2. ASSUME NEW e \in BagToSet(task), Tell(e) \/ DropEvent(e) PROVE UNCHANGED tables
  BY <1>2 DEF Tell, NotifyGatheringFeedCreation, NotifyFriendFeedCreation,
      NotifyFeedCommentAndMention, NotifyUseCase, DropEvent, Notify
<1>3. ASSUME NEW n \in BagToSet(outbox), Save(n) \/ LoseNotice(n) PROVE UNCHANGED tables
  BY <1>3 DEF Save, LoseNotice
<1> QED
  BY <1>1, <1>2, <1>3

LEMMA TableTypes ==
    ASSUME TablesOK, RequestsTyped, RequestsOK, [Next]_vars
    PROVE  TablesOK' /\ RowsStay
<1>1. CASE UNCHANGED tables
  BY <1>1 DEF tables, TablesOK, RowsStay, Stored
<1>2. FeedStep \/ UNCHANGED tables
  BY TableSteps, OtherStepsKeepTables
<1> QED
  BY <1>1, <1>2, FeedStepRows

\* A notification belongs to its event: the same row, and by type the friends it is
\* shown to, the user mentioned or the feed's writer, or others than its writer.
Tells(e, n) ==
    /\ n \in Notice /\ n.source = e.source
    /\ e.source \in Item /\ e.type # "friendFeed" => n.user # e.actor
    /\ e.type = "gatheringFeed" <=> n.type = "GATHERING_FEED_WRITEN"
    /\ e.type = "friendFeed" <=> n.type = "FRIEND_FEED_WRITEN"
    /\ n.type = "FRIEND_FEED_WRITEN" => n.user \in e.to
    /\ e.type = "comment" <=> n.type \in {"FEED_COMMENT", "FEED_COMMENT_MENTIONED"}
    /\ n.type = "FEED_COMMENT" =>
        /\ n.user = feed[comment[e.source].feed].writer
        /\ n.user # comment[e.source].mentioned
    /\ n.type = "FEED_COMMENT_MENTIONED" => n.user = comment[e.source].mentioned

\* One row for each user, and of a feed about a gathering one for each participation.
OwnRows(e, rows) ==
    /\ IsABag(rows)
    /\ \A n \in BagToSet(rows) :
        /\ Tells(e, n)
        /\ Copies(n, rows) <=
            IF e.type = "gatheringFeed" THEN roster[<<feed[e.source].about, n.user>>] ELSE 1

LEMMA RowsAre ==
    ASSUME NEW users, NEW type, NEW source
    PROVE  /\ IsABag(Rows(users, type, source))
           /\ \A n \in BagToSet(Rows(users, type, source)) :
                /\ \E u \in users : n = [user |-> u, type |-> type, source |-> source]
                /\ Copies(n, Rows(users, type, source)) = 1
  BY SetsAreBags DEF Rows

\* Every receiver of an event sends notifications that belong to it.
LEMMA TellRows ==
    ASSUME TypeInv, NEW e \in BagToSet(task), Tell(e)
    PROVE  \E rows : Notify(e, rows) /\ OwnRows(e, rows)
<1>1. e \in Event /\ FollowsCommit(e)
  BY DEF TypeInv, TypeOK, FeedsTypeOK
<1>2. active \subseteq User /\ MaxRows \in Nat
  BY FeedsAssumption DEF TypeInv, TypeOK, FeedsTypeOK
<1>3. CASE NotifyGatheringFeedCreation(e)
  <2> DEFINE rows == ParticipantRows(feed[e.source].about, e.actor, e.source)
             users == {u \in User \ {e.actor} : roster[<<feed[e.source].about, u>>] > 0}
             members == {[user |-> u, type |-> "GATHERING_FEED_WRITEN", source |-> e.source] :
                            u \in users}
  <2>1. Notify(e, rows) /\ e.type = "gatheringFeed" /\ feed[e.source].about \in GatheringId
    BY <1>1, <1>3 DEF NotifyGatheringFeedCreation, FollowsCommit
  <2>2. rows = [n \in members |-> roster[<<feed[e.source].about, n.user>>]]
    BY DEF ParticipantRows
  <2>3. \A u \in users : u \in User \ {e.actor} /\ roster[<<feed[e.source].about, u>>] \in Nat \ {0}
    <3> SUFFICES ASSUME NEW u \in users
                 PROVE  roster[<<feed[e.source].about, u>>] \in Nat \ {0}
      OBVIOUS
    <3> PICK p : p = <<feed[e.source].about, u>>
      OBVIOUS
    <3>1. p \in GatheringId \X User /\ roster[p] > 0
      BY <2>1
    <3>2. roster \in [GatheringId \X User -> 0..MaxRows]
      BY DEF TypeInv, TypeOK, FeedsTypeOK
    <3>3. roster[p] \in Nat \ {0}
      BY <1>2, <3>1, <3>2
    <3> QED
      BY <3>3
  <2> HIDE DEF users
  <2>4. \A n \in members :
            /\ n \in Notice /\ n.source = e.source /\ n.type = "GATHERING_FEED_WRITEN"
            /\ n.user # e.actor /\ roster[<<feed[e.source].about, n.user>>] \in Nat \ {0}
    BY <1>1, <2>3 DEF Event, Notice
  <2> HIDE DEF rows, members
  <2>5. /\ IsABag(rows) /\ BagToSet(rows) = members
        /\ \A n \in members : Copies(n, rows) = roster[<<feed[e.source].about, n.user>>]
    BY <2>2, <2>4 DEF IsABag, BagToSet, Copies, BagIn
  <2>6. \A n \in members : Tells(e, n)
    BY <2>1, <2>4 DEF Tells
  <2>7. OwnRows(e, rows)
    BY <2>1, <2>4, <2>5, <2>6 DEF OwnRows
  <2> QED
    BY <2>1, <2>7
<1>4. CASE NotifyFriendFeedCreation(e)
  <2> DEFINE rows == Rows(e.to \cap active, "FRIEND_FEED_WRITEN", e.source)
  <2>1. Notify(e, rows) /\ e.type = "friendFeed"
    BY <1>4 DEF NotifyFriendFeedCreation
  <2>2. ASSUME NEW u \in e.to \cap active
        PROVE  Tells(e, [user |-> u, type |-> "FRIEND_FEED_WRITEN", source |-> e.source])
    BY <1>1, <1>2, <2>1 DEF Tells, Event, Notice
  <2>3. OwnRows(e, rows)
    BY <2>1, <2>2, RowsAre DEF OwnRows
  <2> QED
    BY <2>1, <2>3
<1>5. CASE NotifyFeedCommentAndMention(e)
  <2> DEFINE c == comment[e.source]
             f == feed[c.feed]
             mentioned == Rows({c.mentioned} \ {None}, "FEED_COMMENT_MENTIONED", e.source)
             writer == Rows({f.writer} \ {c.mentioned, e.actor}, "FEED_COMMENT", e.source)
  <2>1. /\ Notify(e, mentioned (+) writer) /\ e.type = "comment"
        /\ f.writer \in active /\ {c.mentioned} \ {None} \subseteq active
    BY <1>5 DEF NotifyFeedCommentAndMention
  <2>2. c.mentioned # e.actor
    BY <1>1, <2>1 DEF FollowsCommit
  <2>3. \A n \in BagToSet(mentioned) : Tells(e, n)
    <3>1. ASSUME NEW u \in {c.mentioned} \ {None}
          PROVE  Tells(e, [user |-> u, type |-> "FEED_COMMENT_MENTIONED", source |-> e.source])
      BY <1>1, <1>2, <2>1, <2>2 DEF Tells, Event, Notice
    <3> QED
      BY <3>1, RowsAre
  <2>4. \A n \in BagToSet(writer) : Tells(e, n)
    <3>1. ASSUME NEW u \in {f.writer} \ {c.mentioned, e.actor}
          PROVE  Tells(e, [user |-> u, type |-> "FEED_COMMENT", source |-> e.source])
      BY <1>1, <1>2, <2>1 DEF Tells, Event, Notice
    <3> QED
      BY <3>1, RowsAre
  <2>5. /\ IsABag(mentioned) /\ IsABag(writer)
        /\ \A n \in BagToSet(mentioned) :
            n.type = "FEED_COMMENT_MENTIONED" /\ Copies(n, mentioned) = 1
        /\ \A n \in BagToSet(writer) : n.type = "FEED_COMMENT" /\ Copies(n, writer) = 1
    BY RowsAre
  <2> HIDE DEF mentioned, writer
  <2>6. \A n : n \notin BagToSet(mentioned) \/ n \notin BagToSet(writer)
    BY <2>5
  <2>7. \A n \in BagToSet(mentioned (+) writer) :
            Tells(e, n) /\ Copies(n, mentioned (+) writer) <= 1
    BY <2>3, <2>4, <2>5, <2>6, BagsTogether, BagCopies
  <2>8. OwnRows(e, mentioned (+) writer)
    BY <2>1, <2>5, <2>7, BagsTogether DEF OwnRows
  <2> QED
    BY <2>1, <2>8
<1>6. ASSUME NEW event, NEW type, NotifyUseCase(e, event, type),
             event \notin {"gatheringFeed", "friendFeed", "comment"},
             type \in {"FRIEND_REQUEST", "FRIEND_REQUEST_ACCEPTED",
                       "GATHERING_INVITATION_RECEIVED", "GATHERING_INVITATION_ACCEPTED",
                       "GROUP_INVITATION"}
      PROVE  \E rows : Notify(e, rows) /\ OwnRows(e, rows)
  <2> DEFINE rows == Rows(e.to \cap active, type, e.source)
  <2>1. Notify(e, rows) /\ e.type = event
    BY <1>6 DEF NotifyUseCase
  <2>2. e.source \notin Item
    BY <1>1, <1>6, <2>1, FeedsAssumption DEF FollowsCommit, Item
  <2>3. ASSUME NEW u \in e.to \cap active
        PROVE  Tells(e, [user |-> u, type |-> type, source |-> e.source])
    BY <1>1, <1>2, <1>6, <2>1, <2>2 DEF Tells, Event, Notice
  <2>4. OwnRows(e, rows)
    BY <1>6, <2>1, <2>3, RowsAre DEF OwnRows
  <2> QED
    BY <2>1, <2>4
<1> QED
  BY <1>3, <1>4, <1>5, <1>6 DEF Tell

\* A new event is about a row that the step itself has stored.
Adds(e) ==
    /\ task' = task (+) SetToBag({e}) /\ e \in Event /\ FollowsCommit(e)'
    /\ e.source \in FeedId => ~Stored(e.source)
    /\ e.source \in CommentId => comment[e.source] = NoComment

LEMMA AddedEvents ==
    ASSUME TypeInv, TablesOK', FeedStep
    PROVE  UNCHANGED task \/ \E e : Adds(e)
<1> USE FeedsAssumption DEF Stored, Unused, Publish
<1>1. ASSUME NEW r \in Request, SaveGatheringFeed(r) PROVE \E e : Adds(e)
  <2>1. req[r].user \in User /\ req[r].item \in GatheringId
    BY <1>1 DEF SaveGatheringFeed, TypeInv, RequestsOK
  <2>2. PICK f \in FeedId :
            /\ ~Stored(f)
            /\ feed' = [feed EXCEPT ![f] = [writer |-> req[r].user, about |-> req[r].item,
                                            deleted |-> FALSE]]
            /\ Publish("gatheringFeed", f, req[r].user, {})
    BY <1>1 DEF SaveGatheringFeed
  <2> PICK e : e = [type |-> "gatheringFeed", source |-> f, actor |-> req[r].user, to |-> {}]
    OBVIOUS
  <2>3. e \in Event
    BY <2>1 DEF Event, Item
  <2>4. feed'[f] = [writer |-> req[r].user, about |-> req[r].item, deleted |-> FALSE]
    BY <2>2 DEF TypeInv, TypeOK, FeedsTypeOK
  <2>5. FollowsCommit(e)'
    BY <2>1, <2>4 DEF FollowsCommit, NoFeed
  <2>6. Adds(e)
    BY <2>2, <2>3, <2>5 DEF Adds
  <2> QED
    BY <2>6
<1>2. ASSUME NEW r \in Request, FriendFeedTransaction(r) PROVE \E e : Adds(e)
  <2>1. req[r].user \in User /\ req[r].users \subseteq User
    BY <1>2 DEF FriendFeedTransaction, TypeInv, TypeOK, FeedsTypeOK, RequestsOK, RequestState
  <2>2. PICK f \in FeedId :
            /\ ~Stored(f)
            /\ feed' = [feed EXCEPT ![f] = [writer |-> req[r].user, about |-> None,
                                            deleted |-> FALSE]]
            /\ visible' = visible \cup ({f} \X req[r].users)
            /\ Publish("friendFeed", f, req[r].user, req[r].users)
    BY <1>2 DEF FriendFeedTransaction
  <2> PICK e : e = [type |-> "friendFeed", source |-> f, actor |-> req[r].user,
                    to |-> req[r].users]
    OBVIOUS
  <2>3. e \in Event
    BY <2>1 DEF Event, Item
  <2>4. feed'[f] = [writer |-> req[r].user, about |-> None, deleted |-> FALSE]
    BY <2>2 DEF TypeInv, TypeOK, FeedsTypeOK
  <2>5. FollowsCommit(e)'
    BY <2>1, <2>2, <2>4 DEF FollowsCommit, NoFeed
  <2>6. Adds(e)
    BY <2>2, <2>3, <2>5 DEF Adds
  <2> QED
    BY <2>6
<1>3. ASSUME NEW u \in User, NEW f \in FeedId, NEW m \in User \cup {None},
             CreateComment(u, f, m)
      PROVE  \E e : Adds(e)
  <2>1. PICK c \in CommentId :
            /\ comment[c] = NoComment
            /\ comment' = [comment EXCEPT ![c] = [writer |-> u, feed |-> f, mentioned |-> m,
                                                  deleted |-> FALSE]]
            /\ Publish("comment", c, u, {})
    BY <1>3 DEF CreateComment
  <2> DEFINE e == [type |-> "comment", source |-> c, actor |-> u, to |-> {}]
  <2>2. e \in Event
    BY DEF Event, Item
  <2>3. comment'[c] = [writer |-> u, feed |-> f, mentioned |-> m, deleted |-> FALSE]
    BY <2>1 DEF TypeInv, TypeOK, FeedsTypeOK
  <2>4. FollowsCommit(e)'
    BY <1>3, <2>3 DEF FollowsCommit, NoComment, CreateComment
  <2>5. Adds(e)
    BY <2>1, <2>2, <2>4 DEF Adds
  <2> QED
    BY <2>5
<1> QED
  BY <1>1, <1>2, <1>3 DEF FeedStep, CommitReport, DeleteFeed, Block, Unblock, DeleteComment

\* What a step does to events and notifications.
LEMMA NoticeSteps ==
    ASSUME TypeInv, TablesOK', [Next]_vars
    PROVE  \/ UNCHANGED <<task, notices>>
           \/ \E e : Adds(e) /\ UNCHANGED notices
           \/ \E e \in BagToSet(task) : \E rows : Notify(e, rows) /\ OwnRows(e, rows)
           \/ \E n \in BagToSet(outbox) : Save(n) \/ LoseNotice(n)
           \/ ChangeNotifications
           \/ Crash
<1>1. ASSUME NEW u \in User, NEW users \in SUBSET User,
             NEW type \in {"friendRequest", "friendAcceptance", "gatheringCreation",
                           "invitationAcceptance", "groupCreation"},
             NEW source \in GatheringId \cup {None}, Post(type, source, u, users)
      PROVE  \E e : Adds(e) /\ UNCHANGED notices
  <2> DEFINE e == [type |-> type, source |-> source, actor |-> u, to |-> users]
  <2>1. e \in Event
    BY DEF Event
  <2>2. FollowsCommit(e)'
    BY DEF FollowsCommit
  <2>3. Adds(e)
    BY <1>1, <2>1, <2>2, FeedsAssumption DEF Post, Publish, Adds
  <2> QED
    BY <1>1, <2>3 DEF Post
<1>2. CASE PostedElsewhere
  BY <1>1, <1>2 DEF PostedElsewhere, FriendRequestUseCase, FriendAcceptanceUseCase,
      GroupCreationUseCase, GatheringCreation, GatheringInvitationAcceptanceUseCase
<1>3. ASSUME NEW e \in BagToSet(task), Tell(e) \/ DropEvent(e)
      PROVE  \E rows : Notify(e, rows) /\ OwnRows(e, rows)
  <2>1. OwnRows(e, EmptyBag)
    BY DEF OwnRows, EmptyBag, SetToBag, IsABag, BagToSet
  <2> QED
    BY <1>3, <2>1, TellRows DEF DropEvent
<1> QED
  BY <1>2, <1>3, AddedEvents, TableSteps

\* What was true of a row stays true of it.
LEMMA EventsStayTrue ==
    ASSUME NEW e, FollowsCommit(e), RowsStay PROVE FollowsCommit(e)'
  BY DEF FollowsCommit, RowsStay, Stored

LEMMA NoticesStayTrue ==
    ASSUME TablesOK, RowsStay, NEW n \in Notice, TellsTruth(n) PROVE TellsTruth(n)'
<1>1. ASSUME n.type = "FEED_COMMENT"
      PROVE  feed'[comment'[n.source].feed].writer = feed[comment[n.source].feed].writer
  <2>1. n.source \in CommentId /\ comment[n.source] \in CommentRow
    BY <1>1 DEF TellsTruth, TablesOK
  <2>2. comment[n.source].feed \in FeedId /\ comment'[n.source].feed = comment[n.source].feed
    BY <1>1, <2>1 DEF CommentRow, RowsStay, TellsTruth
  <2>3. n.user \in User /\ feed[comment[n.source].feed].writer = n.user
    BY <1>1 DEF Notice, TellsTruth
  <2>4. Stored(comment[n.source].feed)
    BY <2>3, FeedsAssumption DEF Stored, NoFeed
  <2> QED
    BY <2>2, <2>4 DEF RowsStay
<1> QED
  BY <1>1 DEF TellsTruth, RowsStay, Stored

LEMMA TellsTheTruth ==
    ASSUME NEW e, FollowsCommit(e), NEW n, Tells(e, n), e \in Event PROVE TellsTruth(n)
  BY FeedsAssumption DEF Tells, FollowsCommit, TellsTruth, Item

\* A step that marks rows read marks rows that are there.
LEMMA ReadSteps ==
    ASSUME NoticesOK, ChangeNotifications PROVE IsABag(read') /\ read' \sqsubseteq notice'
<1>1. PICK users \in SUBSET User :
            read' = Of(users, notice) (+) Of(User \ users, read) /\ notice' = notice
  BY DEF ChangeNotifications, ReadAll, DeleteAll, DeleteNotification, MarkRead
<1>2. /\ IsABag(Of(users, notice)) /\ IsABag(Of(User \ users, read))
      /\ \A n \in BagToSet(Of(users, notice)) :
            n \in BagToSet(notice) /\ n.user \in users /\ Of(users, notice)[n] = notice[n]
      /\ \A n \in BagToSet(Of(User \ users, read)) :
            n \in BagToSet(read) /\ n.user \notin users /\ Of(User \ users, read)[n] = read[n]
  BY DEF NoticesOK, Of, IsABag, BagToSet
<1>3. /\ BagToSet(read) \subseteq BagToSet(notice)
      /\ \A n \in BagToSet(read) : read[n] <= notice[n]
  BY DEF NoticesOK, \sqsubseteq, BagToSet
<1> DEFINE Marked == Of(users, notice) (+) Of(User \ users, read)
<1>4. IsABag(Marked)
  BY <1>2, BagsTogether
<1>5. DOMAIN Marked = BagToSet(Of(users, notice)) \cup BagToSet(Of(User \ users, read))
  BY <1>2, BagsTogether DEF BagToSet
<1>6. ASSUME NEW n \in DOMAIN Marked PROVE n \in DOMAIN notice /\ Marked[n] <= notice[n]
  <2>1. notice[n] \in Nat
    BY <1>2, <1>3, <1>5, <1>6 DEF NoticesOK, IsABag, BagToSet
  <2>2. CASE n \in BagToSet(Of(users, notice))
    <3>1. Marked[n] = notice[n] + 0
      BY <1>2, <2>2 DEF (+), BagToSet
    <3> QED
      BY <1>2, <2>1, <2>2, <3>1 DEF BagToSet
  <2>3. CASE n \in BagToSet(Of(User \ users, read)) /\ n \notin BagToSet(Of(users, notice))
    <3>1. Marked[n] = 0 + read[n]
      BY <1>2, <2>3 DEF (+), BagToSet
    <3>2. read[n] \in Nat
      BY <1>2, <2>3 DEF NoticesOK, IsABag, BagToSet
    <3>3. n \in BagToSet(read)
      BY <1>2, <2>3
    <3>4. n \in DOMAIN notice /\ read[n] <= notice[n]
      BY <1>3, <3>3 DEF BagToSet
    <3> QED
      BY <3>1, <3>2, <3>4
  <2> QED
    BY <1>5, <1>6, <2>2, <2>3
<1> HIDE DEF Marked
<1>7. Marked \sqsubseteq notice
  BY <1>6 DEF \sqsubseteq
<1> QED
  BY <1>1, <1>4, <1>7 DEF Marked

\* One row of the outbox is inserted or lost.
LEMMA SaveSteps ==
    ASSUME NoticesOK, NEW n \in BagToSet(outbox), Save(n) \/ LoseNotice(n)
    PROVE  /\ NoticesOK' /\ task' = task
           /\ \A m : Copies(m, Sent') <= Copies(m, Sent)
<1> USE DEF NoticesOK
<1>1. /\ outbox' = outbox (-) SetToBag({n}) /\ task' = task /\ read' = read
      /\ notice' = notice \/ notice' = notice (+) SetToBag({n})
  BY DEF Save, LoseNotice
<1>2. /\ IsABag(outbox') /\ BagToSet(outbox') \subseteq BagToSet(outbox)
      /\ \A m : Copies(m, outbox') = Copies(m, outbox) - IF m = n THEN 1 ELSE 0
  BY <1>1, RemovedCopy
<1>3. /\ IsABag(notice') /\ BagToSet(notice') \subseteq BagToSet(notice) \cup {n}
      /\ \A m : /\ Copies(m, notice) <= Copies(m, notice')
               /\ Copies(m, notice') <= Copies(m, notice) + IF m = n THEN 1 ELSE 0
  <2>1. \A m : Copies(m, notice) \in Nat
    BY BagCopies
  <2>2. /\ IsABag(notice (+) SetToBag({n}))
        /\ BagToSet(notice (+) SetToBag({n})) = BagToSet(notice) \cup {n}
        /\ \A m : Copies(m, notice (+) SetToBag({n})) = Copies(m, notice) + IF m = n THEN 1 ELSE 0
    BY AddedCopy
  <2>3. CASE notice' = notice
    BY <2>1, <2>3
  <2>4. CASE notice' = notice (+) SetToBag({n})
    <3>1. IsABag(notice') /\ BagToSet(notice') \subseteq BagToSet(notice) \cup {n}
      BY <2>2, <2>4
    <3>2. \A m : Copies(m, notice') = Copies(m, notice) + IF m = n THEN 1 ELSE 0
      BY <2>2, <2>4
    <3> QED
      BY <2>1, <3>1, <3>2
  <2> QED
    BY <1>1, <2>3, <2>4
<1>4. read' \sqsubseteq notice'
  <2>1. read \sqsubseteq notice /\ IsABag(read)
    OBVIOUS
  <2>2. \A m \in DOMAIN read : m \in DOMAIN notice /\ read[m] <= notice[m] /\ read[m] \in Nat
    BY <2>1 DEF \sqsubseteq, IsABag
  <2>3. \A m \in DOMAIN notice : /\ m \in DOMAIN notice' /\ notice[m] <= notice'[m]
                               /\ notice[m] \in Nat /\ notice'[m] \in Nat
    BY <1>1, <1>3 DEF IsABag, (+), SetToBag
  <2>4. \A m \in DOMAIN read : m \in DOMAIN notice' /\ read[m] <= notice'[m]
    BY <2>2, <2>3
  <2> QED
    BY <1>1, <2>4 DEF \sqsubseteq
<1>5. \A m : Copies(m, Sent') <= Copies(m, Sent)
  <2> SUFFICES ASSUME NEW m PROVE Copies(m, Sent') <= Copies(m, Sent)
    OBVIOUS
  <2>1. /\ Copies(m, outbox) \in Nat /\ Copies(m, notice) \in Nat
        /\ Copies(m, outbox') \in Nat /\ Copies(m, notice') \in Nat
    BY <1>2, <1>3, BagCopies
  <2>2. /\ Copies(m, Sent) = Copies(m, outbox) + Copies(m, notice)
        /\ Copies(m, Sent') = Copies(m, outbox') + Copies(m, notice')
    BY <1>2, <1>3, BagsTogether DEF Sent
  <2> QED
    BY <1>2, <1>3, <2>1, <2>2
<1> QED
  BY <1>1, <1>2, <1>3, <1>4, <1>5

\* The rows of one event are sent.
LEMMA NotifySteps ==
    ASSUME NoticesOK, NEW e \in BagToSet(task), NEW rows, Notify(e, rows), OwnRows(e, rows)
    PROVE  /\ NoticesOK'
           /\ BagToSet(task') \subseteq BagToSet(task)
           /\ \A d : Copies(d, task') = Copies(d, task) - IF d = e THEN 1 ELSE 0
           /\ BagToSet(Sent') = BagToSet(Sent) \cup BagToSet(rows)
           /\ \A m : Copies(m, Sent') = Copies(m, Sent) + Copies(m, rows)
<1> USE DEF NoticesOK
<1>1. /\ task' = task (-) SetToBag({e}) /\ outbox' = outbox (+) rows
      /\ notice' = notice /\ read' = read
  BY DEF Notify
<1>2. IsABag(rows) /\ BagToSet(rows) \subseteq Notice
  BY DEF OwnRows, Tells
<1>3. /\ IsABag(outbox') /\ BagToSet(outbox') = BagToSet(outbox) \cup BagToSet(rows)
      /\ \A m : Copies(m, outbox') = Copies(m, outbox) + Copies(m, rows)
  BY <1>1, <1>2, BagsTogether
<1>4. /\ IsABag(task') /\ BagToSet(task') \subseteq BagToSet(task)
      /\ \A d : Copies(d, task') = Copies(d, task) - IF d = e THEN 1 ELSE 0
  BY <1>1, RemovedCopy
<1>5. /\ BagToSet(Sent) = BagToSet(outbox) \cup BagToSet(notice)
      /\ BagToSet(Sent') = BagToSet(outbox') \cup BagToSet(notice)
      /\ \A m : /\ Copies(m, Sent) = Copies(m, outbox) + Copies(m, notice)
               /\ Copies(m, Sent') = Copies(m, outbox') + Copies(m, notice)
  BY <1>1, <1>3, BagsTogether DEF Sent
<1>6. \A m : /\ Copies(m, outbox) \in Nat /\ Copies(m, notice) \in Nat
             /\ Copies(m, rows) \in Nat
  BY <1>2, BagCopies
<1>7. NoticesOK'
  BY <1>1, <1>2, <1>3, <1>4
<1>8. \A m : Copies(m, Sent') = Copies(m, Sent) + Copies(m, rows)
  BY <1>3, <1>5, <1>6
<1> QED
  BY <1>3, <1>4, <1>5, <1>7, <1>8

\* What a step does to events and to notifications inserted or on their way.
LEMMA SentSteps ==
    ASSUME TypeInv, TablesOK', [Next]_vars
    PROVE  /\ NoticesOK'
           /\ \/ /\ \A d : Copies(d, task') <= Copies(d, task)
                 /\ \A m : Copies(m, Sent') <= Copies(m, Sent)
              \/ \E e : Adds(e) /\ UNCHANGED notices
              \/ \E e \in BagToSet(task) : \E rows : Notify(e, rows) /\ OwnRows(e, rows)
<1>1. NoticesOK
  BY TypeParts DEF TypeInv
<1> USE DEF NoticesOK
<1>2. /\ IsABag(Sent) /\ \A m : Copies(m, Sent) \in Nat
      /\ \A d : Copies(d, task) \in Nat
  BY <1>1, BagCopies, BagsTogether DEF Sent
<1>3. CASE UNCHANGED <<task, notices>>
  <2>1. Sent' = Sent /\ task' = task
    BY <1>3 DEF notices, Sent
  <2> QED
    BY <1>1, <1>2, <1>3, <2>1 DEF notices
<1>4. ASSUME NEW e, Adds(e), UNCHANGED notices PROVE NoticesOK'
  <2>1. /\ IsABag(task (+) SetToBag({e}))
        /\ BagToSet(task (+) SetToBag({e})) = BagToSet(task) \cup {e}
    BY <1>1, AddedCopy
  <2>2. IsABag(task') /\ BagToSet(task') \subseteq Event
    BY <1>1, <1>4, <2>1 DEF Adds
  <2> QED
    BY <1>1, <1>4, <2>2 DEF notices
<1>5. ASSUME NEW n \in BagToSet(outbox), Save(n) \/ LoseNotice(n)
      PROVE  /\ NoticesOK' /\ \A d : Copies(d, task') <= Copies(d, task)
             /\ \A m : Copies(m, Sent') <= Copies(m, Sent)
  BY <1>1, <1>2, <1>5, SaveSteps
<1>6. CASE ChangeNotifications
  <2>1. task' = task /\ outbox' = outbox /\ notice' = notice
    BY <1>6 DEF ChangeNotifications, ReadAll, DeleteAll, DeleteNotification, MarkRead
  <2>2. Sent' = Sent
    BY <2>1 DEF Sent
  <2> QED
    BY <1>1, <1>2, <1>6, <2>1, <2>2, ReadSteps
<1>7. CASE Crash
  <2>1. task' = SetToBag({}) /\ outbox' = SetToBag({}) /\ notice' = notice /\ read' = read
    BY <1>7 DEF Crash, EmptyBag
  <2>2. NoticesOK'
    BY <1>1, <2>1, SetsAreBags
  <2>3. \A m : /\ Copies(m, Sent) = Copies(m, outbox) + Copies(m, notice)
               /\ Copies(m, Sent') = Copies(m, outbox') + Copies(m, notice)
    BY <1>1, <2>1, <2>2, BagsTogether DEF Sent
  <2>4. \A m : Copies(m, task') = 0 /\ Copies(m, outbox') = 0 /\ Copies(m, notice) \in Nat
                /\ Copies(m, outbox) \in Nat
    BY <1>1, <2>1, SetsAreBags, BagCopies
  <2> QED
    BY <1>2, <2>2, <2>3, <2>4
<1> QED
  BY <1>1, <1>3, <1>4, <1>5, <1>6, <1>7, NotifySteps, NoticeSteps

LEMMA TypeStep ==
    ASSUME TypeInv, [Next]_vars PROVE TypeInv' /\ RowsStay
<1>1. TablesOK' /\ RowsStay /\ RequestsTyped' /\ RequestsOK'
  BY TableTypes, RequestTypes, TypeParts DEF TypeInv
<1>2. EnvironmentOK' /\ made' \in 0..MaxRequests
  <2>1. made' \in 0..MaxRequests
    BY EnvironmentSteps, FeedsAssumption, TypeParts DEF TypeInv, Asked
  <2> QED
    BY <2>1, EnvironmentSteps, EnvironmentTypes, TypeParts DEF TypeInv
<1>3. \A e \in BagToSet(task) : FollowsCommit(e) /\ FollowsCommit(e)'
  BY <1>1, EventsStayTrue DEF TypeInv
<1>4. NoticesOK /\ NoticesOK'
  BY <1>1, TypeParts, SentSteps DEF TypeInv
<1>5. \A e \in BagToSet(task') : FollowsCommit(e)'
  <2>1. CASE \A d : Copies(d, task') <= Copies(d, task)
    <3>1. \A d : d \in BagToSet(task') => d \in BagToSet(task)
      BY <1>4, <2>1, BagCopies DEF NoticesOK
    <3> QED
      BY <1>3, <3>1
  <2>2. ASSUME NEW e, Adds(e) PROVE \A d \in BagToSet(task') : FollowsCommit(d)'
    <3>1. BagToSet(task (+) SetToBag({e})) = BagToSet(task) \cup {e}
      BY <1>4, AddedCopy DEF NoticesOK
    <3> QED
      BY <1>3, <2>2, <3>1 DEF Adds
  <2>3. ASSUME NEW e \in BagToSet(task), NEW rows, Notify(e, rows), OwnRows(e, rows)
        PROVE  \A d \in BagToSet(task') : FollowsCommit(d)'
    BY <1>3, <1>4, <2>3, NotifySteps
  <2> QED
    BY <1>1, <2>1, <2>2, <2>3, SentSteps
<1>6. TypeOK'
  BY <1>1, <1>2, <1>4 DEF TypeOK, FeedsTypeOK, EnvironmentOK, RequestsTyped, TablesOK, NoticesOK
<1> QED
  BY <1>1, <1>5, <1>6 DEF TypeInv

-----------------------------------------------------------------------------
(* Who is told what *)

LEMMA MostCopiesStay ==
    ASSUME TablesOK, RowsStay, EnvironmentStep, EnvironmentOK, NEW n \in Notice, TellsTruth(n)
    PROVE  MostCopies(n)' = MostCopies(n) /\ MostCopies(n) \in Nat
<1>1. CASE n.type = "GATHERING_FEED_WRITEN"
  <2>1. n.source \in FeedId /\ Stored(n.source) /\ feed[n.source].about \in GatheringId
    BY <1>1 DEF TellsTruth
  <2>2. feed'[n.source].about = feed[n.source].about /\ invited' = invited
    BY <2>1, RosterSteps DEF RowsStay
  <2>3. invited[<<feed[n.source].about, n.user>>] \in Nat
    <3>1. PICK p : p = <<feed[n.source].about, n.user>>
      OBVIOUS
    <3>2. p \in GatheringId \X User
      BY <2>1, <3>1 DEF Notice
    <3>3. invited[p] \in Nat
      BY <3>2, FeedsAssumption DEF EnvironmentOK
    <3> QED
      BY <3>1, <3>3
  <2> QED
    BY <1>1, <2>2, <2>3 DEF MostCopies
<1>2. CASE n.type # "GATHERING_FEED_WRITEN"
  BY <1>2 DEF MostCopies
<1> QED
  BY <1>1, <1>2

LEMMA NoticeStep ==
    ASSUME TypeInv, RosterShrinks, NoticeInv, [Next]_vars PROVE NoticeInv'
<1>1. /\ TablesOK /\ TablesOK' /\ RowsStay /\ NoticesOK /\ NoticesOK' /\ EnvironmentOK
      /\ EnvironmentStep /\ \A e \in BagToSet(task) : FollowsCommit(e)
  BY TypeStep, TypeParts, EnvironmentSteps
  DEF TypeInv, TypeOK, FeedsTypeOK, TablesOK, NoticesOK
<1>2. /\ IsABag(task) /\ IsABag(task') /\ IsABag(Sent) /\ IsABag(Sent')
      /\ BagToSet(Sent) \subseteq Notice
  BY <1>1, BagsTogether DEF NoticesOK, Sent
<1>3. \A n \in BagToSet(Sent) :
        /\ TellsTruth(n) /\ TellsTruth(n)'
        /\ MostCopies(n)' = MostCopies(n) /\ MostCopies(n) \in Nat
  BY <1>1, <1>2, NoticesStayTrue, MostCopiesStay DEF NoticeInv
<1>4. \A d : /\ Copies(d, task) \in Nat /\ (d \in BagToSet(task) <=> Copies(d, task) # 0)
             /\ Copies(d, task') \in Nat /\ (d \in BagToSet(task') <=> Copies(d, task') # 0)
             /\ Copies(d, Sent) \in Nat /\ (d \in BagToSet(Sent) <=> Copies(d, Sent) # 0)
             /\ Copies(d, Sent') \in Nat /\ (d \in BagToSet(Sent') <=> Copies(d, Sent') # 0)
  BY <1>2, BagCopies
<1> USE DEF NoticeInv, EventsApart, NoticesDiffer
<1>5. CASE /\ \A d : Copies(d, task') <= Copies(d, task)
           /\ \A m : Copies(m, Sent') <= Copies(m, Sent)
  <2>1. BagToSet(task') \subseteq BagToSet(task) /\ BagToSet(Sent') \subseteq BagToSet(Sent)
    BY <1>4, <1>5
  <2>2. \A e \in BagToSet(task') : e.source \in Item => Copies(e, task') = 1
    BY <1>4, <1>5, <2>1
  <2>3. \A n \in BagToSet(Sent') : n.source \in Item => Copies(n, Sent') <= MostCopies(n)'
    BY <1>3, <1>4, <1>5, <2>1
  <2> QED
    BY <1>3, <2>1, <2>2, <2>3
<1>6. ASSUME NEW e, Adds(e), UNCHANGED notices PROVE NoticeInv'
  <2>1. Sent' = Sent
    BY <1>6 DEF notices, Sent
  <2>2. /\ BagToSet(task') = BagToSet(task) \cup {e}
        /\ \A d : Copies(d, task') = Copies(d, task) + IF d = e THEN 1 ELSE 0
    BY <1>2, <1>6, AddedCopy DEF Adds
  <2>3. e.source \in Item =>
            /\ \A d \in BagToSet(task) : d.source # e.source
            /\ \A n \in BagToSet(Sent) : n.source # e.source
    <3>1. ASSUME NEW d \in BagToSet(task), d.source = e.source PROVE e.source \notin Item
      BY <1>1, <1>6, <3>1, FeedsAssumption DEF Adds, FollowsCommit, Item, NoticesOK, Event
    <3>2. ASSUME NEW n \in BagToSet(Sent), n.source = e.source
          PROVE  e.source \notin Item
      BY <1>3, <1>6, <3>2 DEF Adds, TellsTruth, Item
    <3> QED
      BY <3>1, <3>2
  <2>4. e.source \in Item => Copies(e, task) = 0
    BY <1>4, <2>3
  <2>5. \A d \in BagToSet(task') : d.source \in Item => Copies(d, task') = 1
    BY <2>2, <2>4
  <2>6. EventsApart'
    BY <2>1, <2>2, <2>3, <2>5
  <2>7. NoticesDiffer'
    BY <1>3, <2>1
  <2> QED
    BY <1>3, <2>1, <2>6, <2>7
<1>7. ASSUME NEW e \in BagToSet(task), NEW rows, Notify(e, rows), OwnRows(e, rows)
      PROVE  NoticeInv'
  <2>1. /\ BagToSet(task') \subseteq BagToSet(task)
        /\ \A d : Copies(d, task') = Copies(d, task) - IF d = e THEN 1 ELSE 0
        /\ BagToSet(Sent') = BagToSet(Sent) \cup BagToSet(rows)
        /\ \A m : Copies(m, Sent') = Copies(m, Sent) + Copies(m, rows)
    BY <1>1, <1>7, NotifySteps
  <2>2. \A n \in BagToSet(rows) : n \in Notice /\ Tells(e, n) /\ TellsTruth(n) /\ TellsTruth(n)'
    <3>1. e \in Event /\ FollowsCommit(e)
      BY <1>1 DEF NoticesOK
    <3>2. \A n \in BagToSet(rows) : n \in Notice /\ Tells(e, n) /\ TellsTruth(n)
      BY <1>7, <3>1, TellsTheTruth DEF OwnRows, Tells
    <3> QED
      BY <1>1, <3>2, NoticesStayTrue
  <2>3. ASSUME NEW n \in BagToSet(rows), e.source \in Item
        PROVE  Copies(n, Sent') <= MostCopies(n)'
    <3>1. Copies(n, Sent) = 0
      BY <1>4, <1>7, <2>2, <2>3 DEF Tells
    <3>2. MostCopies(n)' = MostCopies(n) /\ MostCopies(n) \in Nat
      BY <1>1, <2>2, MostCopiesStay
    <3>3. CASE e.type = "gatheringFeed"
      <4>1. /\ feed[e.source].about \in GatheringId /\ n.type = "GATHERING_FEED_WRITEN"
            /\ n.user \in User /\ n.source = e.source
        BY <1>1, <2>2, <3>3 DEF FollowsCommit, Tells, Notice
      <4>2. PICK p \in GatheringId \X User : p = <<feed[e.source].about, n.user>>
        BY <4>1
      <4>3. Copies(n, rows) <= roster[p] /\ MostCopies(n) = invited[p]
        BY <1>7, <2>3, <3>3, <4>1, <4>2 DEF OwnRows, MostCopies
      <4>4. roster[p] <= invited[p] /\ roster[p] \in Nat /\ invited[p] \in Nat
        BY <1>1, FeedsAssumption DEF RosterShrinks, EnvironmentOK
      <4>5. Copies(n, rows) \in Nat
        BY <1>7, BagCopies DEF OwnRows
      <4> QED
        BY <2>1, <3>1, <3>2, <4>3, <4>4, <4>5
    <3>4. CASE e.type # "gatheringFeed"
      <4>1. Copies(n, rows) <= 1 /\ Copies(n, rows) \in Nat
        BY <1>7, <3>4, BagCopies DEF OwnRows
      <4>2. MostCopies(n) = 1
        BY <2>2, <3>4 DEF Tells, MostCopies
      <4> QED
        BY <2>1, <3>1, <3>2, <4>1, <4>2
    <3> QED
      BY <3>3, <3>4
  <2>4. \A m, n \in BagToSet(rows) :
            m.source = n.source /\ m.user = n.user /\ n.source \in Item => m = n
    <3> SUFFICES ASSUME NEW m \in BagToSet(rows), NEW n \in BagToSet(rows),
                        m.source = n.source, m.user = n.user, n.source \in Item
                 PROVE  m = n
      OBVIOUS
    <3>1. e.type \in {"gatheringFeed", "friendFeed", "comment"}
      BY <1>1, <2>2, FeedsAssumption DEF FollowsCommit, Item, Tells
    <3>2. m.type = n.type
      BY <2>2, <3>1 DEF Tells
    <3> QED
      BY <2>2, <3>2 DEF Notice
  <2>5. NoticesDiffer'
    <3> SUFFICES ASSUME NEW n \in BagToSet(Sent'), n.source \in Item
                 PROVE  /\ \A m \in BagToSet(Sent') :
                            m.source = n.source /\ m.user = n.user => m = n
                        /\ Copies(n, Sent') <= MostCopies(n)'
      OBVIOUS
    <3>1. CASE n \in BagToSet(rows)
      <4>1. \A m \in BagToSet(Sent) : m.source # n.source
        BY <1>7, <2>2, <3>1 DEF Tells
      <4> QED
        BY <2>1, <2>2, <2>3, <2>4, <3>1, <4>1 DEF Tells
    <3>2. CASE n \in BagToSet(Sent) /\ n \notin BagToSet(rows)
      <4>1. \A m \in BagToSet(rows) : m.source # n.source
        BY <1>7, <2>2, <3>2 DEF Tells
      <4>2. Copies(n, rows) = 0
        BY <1>7, <3>2, BagCopies DEF OwnRows
      <4> QED
        BY <1>3, <1>4, <2>1, <3>2, <4>1, <4>2
    <3> QED
      BY <2>1, <3>1, <3>2
  <2>6. EventsApart'
    <3>1. e.source \in Item => e \notin BagToSet(task')
      BY <1>4, <2>1
    <3>2. \A d \in BagToSet(task') : d.source \in Item => Copies(d, task') = 1
      BY <1>4, <2>1, <3>1
    <3>3. \A d \in BagToSet(task'), n \in BagToSet(rows) :
            d.source = n.source => d.source \notin Item
      BY <1>7, <2>1, <2>2, <3>1 DEF Tells
    <3> QED
      BY <2>1, <3>2, <3>3
  <2> QED
    BY <1>3, <2>1, <2>2, <2>5, <2>6
<1> QED
  BY <1>1, <1>5, <1>6, <1>7, SentSteps DEF TypeInv

-----------------------------------------------------------------------------
(* Whom a feed is shown to *)

AudienceInv == CheckedWereFriends /\ AudienceWasFriends

\* Friendships are not forgotten: befriended only grows.
LEMMA BefriendedGrows == ASSUME EnvironmentStep PROVE befriended \subseteq befriended'
  BY DEF EnvironmentStep, Environment, environment, Befriend, Unfriend, Withdraw, RestoreUser,
      EndGathering, DropGathering, DropParticipation

LEMMA CheckedStep ==
    ASSUME TypeInv, CheckedWereFriends, [Next]_vars PROVE CheckedWereFriends'
<1>1. befriended \subseteq befriended'
  BY EnvironmentSteps, BefriendedGrows
<1>2. req \in [Request -> RequestState] /\ friends \subseteq befriended
  BY DEF TypeInv, TypeOK, FeedsTypeOK
<1> USE DEF CheckedWereFriends
<1>3. CASE UNCHANGED req
  BY <1>1, <1>3
<1>4. CASE Crash
  BY <1>4 DEF Crash, Idle
<1>5. ASSUME NEW r \in Request, Finish(r) PROVE CheckedWereFriends'
  BY <1>1, <1>2, <1>5 DEF Finish, Idle
<1>6. ASSUME NEW r \in Request, Begins(r) PROVE CheckedWereFriends'
  <2>1. PICK pc \in {"participation", "friends", "block"}, u \in User,
             i \in Item \cup GatheringId \cup {None}, users \in SUBSET User :
             Begin(r, pc, u, i, users)
    BY <1>6 DEF Begins
  <2> QED
    BY <1>1, <1>2, <2>1 DEF Begin
<1>7. ASSUME NEW r \in Request, CheckIsParticipation(r) \/ CheckDuplicateFeed(r) \/ BlockReported(r)
      PROVE  CheckedWereFriends'
  BY <1>1, <1>2, <1>5, <1>7 DEF CheckIsParticipation, CheckDuplicateFeed, BlockReported, Goto,
      RequestState
<1>8. ASSUME NEW r \in Request, CheckIsFriendAll(r) PROVE CheckedWereFriends'
  <2>1. ASSUME NEW v \in req[r].unchecked, {req[r].user, v} \in friends,
               req' = [req EXCEPT ![r].unchecked = @ \ {v}]
        PROVE  CheckedWereFriends'
    <3>1. /\ req'[r].pc = "friends" /\ req'[r].user = req[r].user
          /\ req'[r].users = req[r].users /\ req'[r].unchecked = req[r].unchecked \ {v}
      BY <1>2, <1>8, <2>1 DEF RequestState, CheckIsFriendAll
    <3>2. \A q \in Request \ {r} : req'[q] = req[q]
      BY <1>2, <2>1
    <3>3. \A w \in req[r].users \ req[r].unchecked : {req[r].user, w} \in befriended
      BY <1>8 DEF CheckIsFriendAll
    <3> QED
      BY <1>1, <1>2, <2>1, <3>1, <3>2, <3>3
  <2>2. CASE req[r].unchecked = {} /\ Goto(r, "saveFriendFeed")
    BY <1>1, <1>2, <1>8, <2>2 DEF Goto, RequestState, CheckIsFriendAll
  <2> QED
    BY <1>5, <1>8, <2>1, <2>2 DEF CheckIsFriendAll
<1> QED
  BY <1>3, <1>4, <1>5, <1>6, <1>7, <1>8, RequestSteps

\* Only the transaction of a feed for friends shows a feed to anybody.
LEMMA VisibleSteps ==
    ASSUME [Next]_vars
    PROVE  UNCHANGED visible \/ \E r \in Request : FriendFeedTransaction(r)
<1>1. FeedStep => UNCHANGED visible \/ \E r \in Request : FriendFeedTransaction(r)
  BY DEF FeedStep, SaveGatheringFeed, CommitReport, DeleteFeed, Block, Unblock, CreateComment,
      DeleteComment
<1>2. ~FeedStep => UNCHANGED tables
  BY TableSteps, OtherStepsKeepTables
<1> QED
  BY <1>1, <1>2 DEF tables

LEMMA AudienceStep ==
    ASSUME TypeInv, AudienceInv, [Next]_vars PROVE AudienceInv'
<1>1. /\ befriended \subseteq befriended' /\ befriended \subseteq Pair
      /\ TablesOK /\ RowsStay /\ CheckedWereFriends'
  BY EnvironmentSteps, BefriendedGrows, TypeStep, CheckedStep, TypeParts
  DEF TypeInv, EnvironmentOK, AudienceInv
<1>2. ASSUME NEW p \in visible PROVE {feed'[p[1]].writer, p[2]} \in befriended'
  <2>1. p[1] \in FeedId /\ {feed[p[1]].writer, p[2]} \in befriended
    BY <1>1 DEF TablesOK, AudienceInv, AudienceWasFriends
  <2>2. feed[p[1]].writer \in User
    BY <1>1, <2>1 DEF Pair
  <2>3. Stored(p[1])
    BY <2>2, FeedsAssumption DEF Stored, NoFeed
  <2> QED
    BY <1>1, <2>1, <2>3 DEF RowsStay
<1>3. CASE UNCHANGED visible
  BY <1>1, <1>2, <1>3 DEF AudienceInv, AudienceWasFriends
<1>4. ASSUME NEW r \in Request, FriendFeedTransaction(r) PROVE AudienceInv'
  <2>1. PICK f \in FeedId :
            /\ feed' = [feed EXCEPT ![f] = [writer |-> req[r].user, about |-> None,
                                            deleted |-> FALSE]]
            /\ visible' = visible \cup ({f} \X req[r].users)
    BY <1>4 DEF FriendFeedTransaction
  <2>2. feed'[f].writer = req[r].user
    BY <1>1, <2>1 DEF TablesOK
  <2>3. \A v \in req[r].users : {req[r].user, v} \in befriended'
    BY <1>1, <1>4 DEF FriendFeedTransaction, AudienceInv, CheckedWereFriends
  <2>4. \A p \in {f} \X req[r].users : {feed'[p[1]].writer, p[2]} \in befriended'
    BY <2>2, <2>3
  <2> QED
    BY <1>1, <1>2, <2>1, <2>4 DEF AudienceInv, AudienceWasFriends
<1> QED
  BY <1>3, <1>4, VisibleSteps

-----------------------------------------------------------------------------
(* What a report hides *)

LEMMA HiddenSteps ==
    ASSUME [Next]_vars
    PROVE  \/ hidden' \subseteq hidden /\ UNCHANGED report
           \/ \E u \in User, f \in FeedId : Block(u, f)
           \/ \E r \in Request : CommitReport(r)
<1>1. ASSUME NEW r \in Request, SaveGatheringFeed(r) \/ FriendFeedTransaction(r)
      PROVE  UNCHANGED <<hidden, report>>
  BY <1>1 DEF SaveGatheringFeed, FriendFeedTransaction
<1>2. ASSUME NEW u \in User, NEW f \in FeedId, DeleteFeed(u, f) \/ Unblock(u, f)
      PROVE  hidden' \subseteq hidden /\ UNCHANGED report
  BY <1>2 DEF DeleteFeed, Unblock
<1>3. ASSUME NEW u \in User, NEW f \in FeedId, NEW m \in User \cup {None},
             CreateComment(u, f, m)
      PROVE  UNCHANGED <<hidden, report>>
  BY <1>3 DEF CreateComment
<1>4. ASSUME NEW u \in User, NEW c \in CommentId, DeleteComment(u, c)
      PROVE  UNCHANGED <<hidden, report>>
  BY <1>4 DEF DeleteComment
<1>5. ~FeedStep => UNCHANGED <<hidden, report>>
  BY TableSteps, OtherStepsKeepTables DEF tables
<1> QED
  BY <1>1, <1>2, <1>3, <1>4, <1>5 DEF FeedStep

LEMMA CommitsStep ==
    ASSUME TypeInv, CommitsAreNew, [Next]_vars PROVE CommitsAreNew'
<1>1. req \in [Request -> RequestState]
  BY DEF TypeInv, TypeOK, FeedsTypeOK
<1> USE DEF CommitsAreNew
<1>2. ASSUME NEW u \in User, NEW f \in FeedId, Block(u, f) PROVE CommitsAreNew'
  BY <1>2 DEF Block, Awaited
<1>3. ASSUME NEW r \in Request, CommitReport(r) PROVE CommitsAreNew'
  BY <1>1, <1>3 DEF CommitReport, Finish, Idle
<1>4. CASE hidden' \subseteq hidden
  <2>1. CASE UNCHANGED req
    BY <1>4, <2>1
  <2>2. CASE Crash
    BY <2>2 DEF Crash, Idle
  <2>3. ASSUME NEW r \in Request, Finish(r) PROVE CommitsAreNew'
    BY <1>1, <1>4, <2>3 DEF Finish, Idle
  <2>4. ASSUME NEW r \in Request, Begins(r) PROVE CommitsAreNew'
    BY <1>1, <1>4, <2>4 DEF Begins, Begin
  <2>5. ASSUME NEW r \in Request,
               CheckIsParticipation(r) \/ CheckDuplicateFeed(r) \/ CheckIsFriendAll(r)
        PROVE  CommitsAreNew'
    <3>1. CASE \E pc \in {"duplicate", "saveFeed", "saveFriendFeed"} : Goto(r, pc)
      BY <1>1, <1>4, <3>1 DEF Goto, RequestState
    <3>2. ASSUME NEW v, req' = [req EXCEPT ![r].unchecked = @ \ {v}] PROVE CommitsAreNew'
      BY <1>1, <1>4, <3>2 DEF RequestState
    <3> QED
      BY <2>3, <2>5, <3>1, <3>2 DEF CheckIsParticipation, CheckDuplicateFeed, CheckIsFriendAll
  <2>6. ASSUME NEW r \in Request, BlockReported(r) PROVE CommitsAreNew'
    <3>1. CASE Goto(r, "commit") /\ <<req[r].user, req[r].item>> \notin hidden
      BY <1>1, <1>4, <2>6, <3>1 DEF Goto, BlockReported, Awaited, RequestState
    <3> QED
      BY <2>3, <2>6, <3>1 DEF BlockReported
  <2> QED
    BY <2>1, <2>2, <2>3, <2>4, <2>5, <2>6, RequestSteps
<1> QED
  BY <1>2, <1>3, <1>4, HiddenSteps

LEMMA ReportStep ==
    ASSUME TypeInv, CommitsAreNew, [Next]_vars, NEW p \in User \X Item, report'[p] # report[p]
    PROVE  p \notin hidden /\ p \in hidden' /\ report'[p] = report[p] + 1
<1>1. report \in [User \X Item -> Nat]
  BY DEF TypeInv, TypeOK, FeedsTypeOK
<1>2. PICK r \in Request : CommitReport(r)
  BY HiddenSteps DEF Block
<1>3. p = <<req[r].user, req[r].item>>
  <2>1. PICK key : key = <<req[r].user, req[r].item>>
                  /\ report' = [report EXCEPT ![key] = @ + 1]
    BY <1>2 DEF CommitReport
  <2> QED
    BY <1>1, <2>1
<1> QED
  BY <1>1, <1>2, <1>3 DEF CommitReport, CommitsAreNew

-----------------------------------------------------------------------------
(* Feeds about one gathering *)

\* A set that loses elements, and one that gains as many as the other loses.
LEMMA Counting ==
    ASSUME NEW A, NEW S, NEW B, NEW T, NEW n \in Nat,
           IsFiniteSet(A), IsFiniteSet(S), Cardinality(A) + Cardinality(S) <= n,
           \/ B \subseteq A /\ T \subseteq S
           \/ \E f, r : B \subseteq A \cup {f} /\ r \in S /\ T \subseteq S \ {r}
    PROVE  Cardinality(B) + Cardinality(T) <= n
<1>1. Cardinality(A) \in Nat /\ Cardinality(S) \in Nat
  BY FS_CardinalityType
<1>2. CASE B \subseteq A /\ T \subseteq S
  <2>1. /\ Cardinality(B) \in Nat /\ Cardinality(B) <= Cardinality(A)
        /\ Cardinality(T) \in Nat /\ Cardinality(T) <= Cardinality(S)
    BY <1>2, FS_Subset, FS_CardinalityType
  <2> QED
    BY <1>1, <2>1
<1>3. ASSUME NEW f, NEW r, B \subseteq A \cup {f}, r \in S, T \subseteq S \ {r}
      PROVE  Cardinality(B) + Cardinality(T) <= n
  <2>1. IsFiniteSet(A \cup {f}) /\ Cardinality(A \cup {f}) \in Nat
        /\ Cardinality(A \cup {f}) <= Cardinality(A) + 1
    <3>1. /\ IsFiniteSet(A \cup {f})
          /\ Cardinality(A \cup {f}) = IF f \in A THEN Cardinality(A) ELSE Cardinality(A) + 1
      BY FS_AddElement
    <3> QED
      BY <1>1, <3>1
  <2>2. IsFiniteSet(S \ {r}) /\ Cardinality(S \ {r}) = Cardinality(S) - 1
    BY <1>3, FS_RemoveElement
  <2>3. /\ Cardinality(B) \in Nat /\ Cardinality(B) <= Cardinality(A \cup {f})
        /\ Cardinality(T) \in Nat /\ Cardinality(T) <= Cardinality(S \ {r})
    BY <1>3, <2>1, <2>2, FS_Subset, FS_CardinalityType
  <2> QED
    BY <1>1, <2>1, <2>2, <2>3
<1> QED
  BY <1>2, <1>3

\* What a step does to the feeds about a gathering.
LEMMA AboutSteps ==
    ASSUME TypeInv, [Next]_vars, NEW g \in GatheringId, NEW u \in User
    PROVE  \/ ActiveFeeds(g, u)' \subseteq ActiveFeeds(g, u)
           \/ \E r \in Saving(g, u), f \in FeedId :
                /\ ActiveFeeds(g, u)' \subseteq ActiveFeeds(g, u) \cup {f}
                /\ SaveGatheringFeed(r)
<1> USE DEF ActiveFeeds
<1>1. TablesOK /\ req \in [Request -> RequestState]
  BY TypeParts DEF TypeInv, RequestsTyped
<1>2. ASSUME NEW r \in Request, SaveGatheringFeed(r)
      PROVE  \/ ActiveFeeds(g, u)' \subseteq ActiveFeeds(g, u)
             \/ \E f \in FeedId : r \in Saving(g, u)
                    /\ ActiveFeeds(g, u)' \subseteq ActiveFeeds(g, u) \cup {f}
  <2>1. PICK f \in FeedId :
            feed' = [feed EXCEPT ![f] = [writer |-> req[r].user, about |-> req[r].item,
                                        deleted |-> FALSE]]
    BY <1>2 DEF SaveGatheringFeed
  <2>2. CASE req[r].user = u /\ req[r].item = g
    BY <1>1, <1>2, <2>1, <2>2 DEF Saving, SaveGatheringFeed, TablesOK
  <2>3. CASE ~(req[r].user = u /\ req[r].item = g)
    BY <1>1, <2>1, <2>3 DEF TablesOK
  <2> QED
    BY <2>2, <2>3
<1>3. ASSUME NEW r \in Request, FriendFeedTransaction(r)
      PROVE  ActiveFeeds(g, u)' \subseteq ActiveFeeds(g, u)
  BY <1>1, <1>3, FeedsAssumption DEF FriendFeedTransaction, TablesOK
<1>4. ASSUME NEW w \in User, NEW f \in FeedId, DeleteFeed(w, f)
      PROVE  ActiveFeeds(g, u)' \subseteq ActiveFeeds(g, u)
  <2>1. feed[f] \in FeedRow
    BY <1>1, <1>4, FeedsAssumption DEF DeleteFeed, TablesOK, NoFeed
  <2>2. Deleted(feed[f]).deleted
    BY <2>1, DeletedRows
  <2> QED
    BY <1>1, <1>4, <2>2 DEF DeleteFeed, TablesOK
<1>5. UNCHANGED feed => ActiveFeeds(g, u)' \subseteq ActiveFeeds(g, u)
  OBVIOUS
<1>6. \/ UNCHANGED feed
      \/ \E r \in Request : SaveGatheringFeed(r) \/ FriendFeedTransaction(r)
      \/ \E w \in User, f \in FeedId : DeleteFeed(w, f)
  <2>1. ASSUME FeedStep
        PROVE  \/ UNCHANGED feed
               \/ \E r \in Request : SaveGatheringFeed(r) \/ FriendFeedTransaction(r)
               \/ \E w \in User, f \in FeedId : DeleteFeed(w, f)
    <3>1. ASSUME NEW r \in Request, CommitReport(r) PROVE UNCHANGED feed
      BY <3>1 DEF CommitReport
    <3>2. ASSUME NEW w \in User, NEW f \in FeedId, Block(w, f) \/ Unblock(w, f)
          PROVE  UNCHANGED feed
      BY <3>2 DEF Block, Unblock
    <3>3. ASSUME NEW w \in User, NEW f \in FeedId, NEW m \in User \cup {None},
                 CreateComment(w, f, m)
          PROVE  UNCHANGED feed
      BY <3>3 DEF CreateComment
    <3>4. ASSUME NEW w \in User, NEW c \in CommentId, DeleteComment(w, c)
          PROVE  UNCHANGED feed
      BY <3>4 DEF DeleteComment
    <3> QED
      BY <2>1, <3>1, <3>2, <3>3, <3>4 DEF FeedStep
  <2> QED
    BY <2>1, TableSteps, OtherStepsKeepTables DEF tables
<1> QED
  BY <1>2, <1>3, <1>4, <1>5, <1>6 DEF Saving

\* What a step does to the requests about to save one: only a check that has found
\* none adds to them.
LEMMA SavingSteps ==
    ASSUME TypeInv, [Next]_vars, NEW g \in GatheringId, NEW u \in User
    PROVE  \/ Saving(g, u)' \subseteq Saving(g, u)
           \/ ActiveFeeds(g, u) = {} /\ UNCHANGED feed
<1> USE DEF Saving
<1>1. req \in [Request -> RequestState]
  BY DEF TypeInv, TypeOK, FeedsTypeOK
<1>2. CASE UNCHANGED req
  BY <1>2
<1>3. CASE Crash
  BY <1>3 DEF Crash, Idle
<1>4. ASSUME NEW r \in Request, Finish(r) PROVE Saving(g, u)' \subseteq Saving(g, u)
  BY <1>1, <1>4 DEF Finish, Idle
<1>5. ASSUME NEW r \in Request, Begins(r) PROVE Saving(g, u)' \subseteq Saving(g, u)
  BY <1>1, <1>5 DEF Begins, Begin
<1>6. ASSUME NEW r \in Request, CheckIsParticipation(r) \/ BlockReported(r) \/ CheckIsFriendAll(r)
      PROVE  Saving(g, u)' \subseteq Saving(g, u)
  <2>1. CASE \E pc \in {"duplicate", "commit", "saveFriendFeed"} : Goto(r, pc)
    BY <1>1, <2>1 DEF Goto, RequestState
  <2>2. ASSUME NEW v, req' = [req EXCEPT ![r].unchecked = @ \ {v}]
        PROVE  Saving(g, u)' \subseteq Saving(g, u)
    BY <1>1, <2>2 DEF RequestState
  <2> QED
    BY <1>4, <1>6, <2>1, <2>2 DEF CheckIsParticipation, BlockReported, CheckIsFriendAll
<1>7. ASSUME NEW r \in Request, CheckDuplicateFeed(r)
      PROVE  \/ Saving(g, u)' \subseteq Saving(g, u)
             \/ ActiveFeeds(g, u) = {} /\ UNCHANGED feed
  <2>1. CASE Goto(r, "saveFeed") /\ ActiveFeeds(req[r].item, req[r].user) = {}
    <3>1. CASE req[r].item = g /\ req[r].user = u
      BY <1>7, <2>1, <3>1 DEF CheckDuplicateFeed, tables
    <3>2. CASE ~(req[r].item = g /\ req[r].user = u)
      BY <1>1, <2>1, <3>2 DEF Goto, RequestState
    <3> QED
      BY <3>1, <3>2
  <2> QED
    BY <1>4, <1>7, <2>1 DEF CheckDuplicateFeed
<1> QED
  BY <1>2, <1>3, <1>4, <1>5, <1>6, <1>7, RequestSteps

LEMMA DuplicatesStep ==
    ASSUME TypeInv, DuplicateFeedsBounded, [Next]_vars PROVE DuplicateFeedsBounded'
<1> DEFINE A(g, u) == ActiveFeeds(g, u)
           S(g, u) == Saving(g, u)
<1>1. Cardinality(Request) \in Nat /\ req \in [Request -> RequestState]
  BY FeedsAssumption, FS_CardinalityType DEF TypeInv, TypeOK, FeedsTypeOK
<1> SUFFICES ASSUME NEW g \in GatheringId, NEW u \in User
             PROVE  Cardinality(A(g, u)') + Cardinality(S(g, u)') <= Cardinality(Request)
  BY DEF DuplicateFeedsBounded
<1>2. Cardinality(A(g, u)) + Cardinality(S(g, u)) <= Cardinality(Request)
  BY DEF DuplicateFeedsBounded
<1>3. A(g, u) \subseteq FeedId /\ S(g, u) \subseteq Request /\ S(g, u)' \subseteq Request
  BY DEF ActiveFeeds, Saving
<1>4. IsFiniteSet(A(g, u)) /\ IsFiniteSet(S(g, u)) /\ IsFiniteSet(S(g, u)')
  BY <1>3, FeedsAssumption, FS_Subset
<1>5. CASE A(g, u) = {} /\ UNCHANGED feed
  <2>1. A(g, u)' = {}
    BY <1>5 DEF ActiveFeeds
  <2>2. Cardinality(S(g, u)') \in Nat /\ Cardinality(S(g, u)') <= Cardinality(Request)
    BY <1>3, <1>4, FeedsAssumption, FS_Subset, FS_CardinalityType
  <2> QED
    BY <1>1, <2>1, <2>2, FS_EmptySet
<1>6. ASSUME NEW r \in S(g, u), NEW f \in FeedId, SaveGatheringFeed(r),
             A(g, u)' \subseteq A(g, u) \cup {f}
      PROVE  Cardinality(A(g, u)') + Cardinality(S(g, u)') <= Cardinality(Request)
  <2>1. S(g, u)' \subseteq S(g, u) \ {r}
    BY <1>1, <1>3, <1>6 DEF SaveGatheringFeed, Finish, Idle, Saving
  <2> HIDE DEF A, S
  <2> QED
    BY <1>1, <1>2, <1>4, <1>6, <2>1, Counting
<1>7. CASE A(g, u)' \subseteq A(g, u) /\ S(g, u)' \subseteq S(g, u)
  <2> HIDE DEF A, S
  <2> QED
    BY <1>1, <1>2, <1>4, <1>7, Counting
<1> QED
  BY <1>5, <1>6, <1>7, AboutSteps, SavingSteps

-----------------------------------------------------------------------------
(* Theorems *)

IInv ==
    TypeInv /\ RosterShrinks /\ NoticeInv /\ AudienceInv /\ CommitsAreNew /\ DuplicateFeedsBounded

\* Every reachable state satisfies the inductive invariant.
THEOREM Invariance == Spec => []IInv
<1>1. Init => IInv
  <2> SUFFICES ASSUME Init PROVE IInv
    OBVIOUS
  <2>1. /\ task = EmptyBag /\ outbox = EmptyBag /\ notice = EmptyBag /\ read = EmptyBag
        /\ IsABag(EmptyBag) /\ BagToSet(EmptyBag) = {} /\ EmptyBag \sqsubseteq EmptyBag
    BY SetsAreBags DEF Init, FeedsInit, EmptyBag, \sqsubseteq, SetToBag
  <2>2. TypeInv
    BY <2>1, FeedsAssumption DEF Init, FeedsInit, TypeInv, TypeOK, FeedsTypeOK, RequestsOK, Idle,
        RequestState, Item
  <2>3. RosterShrinks
    <3>1. roster = invited /\ roster \in [GatheringId \X User -> 0..MaxRows]
      BY DEF Init, FeedsInit
    <3>2. \A p \in GatheringId \X User : roster[p] \in Nat
      BY <3>1, FeedsAssumption
    <3> QED
      BY <3>1, <3>2 DEF RosterShrinks
  <2>4. BagToSet(Sent) = {}
    BY <2>1, BagsTogether DEF Sent
  <2>5. NoticeInv /\ AudienceInv /\ CommitsAreNew
    BY <2>1, <2>4 DEF Init, FeedsInit, NoticeInv, EventsApart, NoticesDiffer, AudienceInv,
        AudienceWasFriends, CheckedWereFriends, CommitsAreNew, Idle
  <2>6. \A g \in GatheringId, u \in User : ActiveFeeds(g, u) = {} /\ Saving(g, u) = {}
    BY FeedsAssumption DEF Init, FeedsInit, ActiveFeeds, NoFeed, Saving, Idle
  <2>7. DuplicateFeedsBounded
    <3>1. Cardinality({}) = 0 /\ Cardinality(Request) \in Nat
      BY FS_EmptySet, FS_CardinalityType, FeedsAssumption
    <3> QED
      BY <2>6, <3>1 DEF DuplicateFeedsBounded
  <2> QED
    BY <2>2, <2>3, <2>5, <2>7 DEF IInv
<1>2. IInv /\ [Next]_vars => IInv'
  <2> SUFFICES ASSUME IInv, [Next]_vars PROVE IInv'
    OBVIOUS
  <2>1. RosterShrinks'
    BY EnvironmentSteps, RosterStep, TypeParts DEF IInv, TypeInv
  <2> QED
    BY <2>1, TypeStep, NoticeStep, AudienceStep, CommitsStep, DuplicatesStep DEF IInv
<1> QED
  BY <1>1, <1>2, PTL DEF Spec

\* Rows, requests, events and notifications stay well formed.
THEOREM TypesHold == Spec => []TypeOK
<1>1. IInv => TypeOK
  BY DEF IInv, TypeInv
<1> QED
  BY <1>1, Invariance, PTL

\* Whatever overlaps, a writer has at most as many feeds about a gathering as there
\* are requests at a time: checkDuplicateFeed lets none by once one is stored.
THEOREM DuplicatesHold == Spec => []DuplicateFeedsBounded
<1>1. IInv => DuplicateFeedsBounded
  BY DEF IInv
<1> QED
  BY <1>1, Invariance, PTL

\* A feed is shown to nobody who has never been a friend of its writer, although
\* friends are checked one by one before the transaction.
THEOREM AudienceHolds == Spec => []AudienceWasFriends
<1>1. IInv => AudienceWasFriends
  BY DEF IInv, AudienceInv
<1> QED
  BY <1>1, Invariance, PTL

\* Nobody is told of a feed or a comment in two ways, nor more often than he was given rows
\* in its gathering, nor of his own unless he has befriended and tagged himself.
THEOREM ToldOnceHolds == Spec => []ToldOnce
<1>1. IInv => ToldOnce
  <2> SUFFICES ASSUME IInv, NEW n \in BagToSet(Sent)
               PROVE  /\ n.source \in Item =>
                        /\ \A m \in BagToSet(Sent) :
                            m.source = n.source /\ m.user = n.user => m = n
                        /\ Copies(n, Sent) <= MostCopies(n)
                      /\ n.source \in FeedId /\ n.user = feed[n.source].writer =>
                        n.type = "FRIEND_FEED_WRITEN" /\ {n.user} \in befriended
                      /\ n.source \in CommentId => n.user # comment[n.source].writer
    BY DEF ToldOnce, MostCopies
  <2>1. TellsTruth(n)
    BY DEF IInv, NoticeInv
  <2>2. ASSUME n.source \in FeedId, n.user = feed[n.source].writer
        PROVE  n.type = "FRIEND_FEED_WRITEN" /\ {n.user} \in befriended
    <3>1. n.type = "FRIEND_FEED_WRITEN"
      BY <2>1, <2>2 DEF TellsTruth
    <3>2. <<n.source, n.user>> \in visible
      BY <2>1, <3>1 DEF TellsTruth
    <3>3. {feed[n.source].writer, n.user} \in befriended
      BY <3>2 DEF IInv, AudienceInv, AudienceWasFriends
    <3>4. {feed[n.source].writer, n.user} = {n.user}
      BY <2>2
    <3> QED
      BY <3>1, <3>3, <3>4
  <2> QED
    BY <2>1, <2>2 DEF IInv, NoticeInv, NoticesDiffer, TellsTruth
<1> QED
  BY <1>1, Invariance, PTL

\* A notification tells of a row that was committed, and those it concerns.
THEOREM NoticesHold == Spec => []NoticesFollowCommits
<1>1. IInv => NoticesFollowCommits
  BY FeedsAssumption DEF IInv, NoticeInv, TellsTruth, NoticesFollowCommits, Stored
<1> QED
  BY <1>1, Invariance, PTL

\* A report is filed together with the row that hides its subject, or not at all.
THEOREM ReportsHideHolds == Spec => ReportsHide
<1>1. IInv /\ [Next]_vars =>
        [\A p \in User \X Item : report'[p] # report[p]
            => p \notin hidden /\ p \in hidden' /\ report'[p] = report[p] + 1]_vars
  BY ReportStep DEF IInv
<1> QED
  BY <1>1, Invariance, PTL DEF Spec, ReportsHide

=============================================================================
