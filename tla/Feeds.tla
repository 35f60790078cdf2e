-------------------------------- MODULE Feeds --------------------------------
(***************************************************************************)
(* Feeds, comments, and what users hide and report of them: FeedsService,  *)
(* BlockedFeedsService, FeedCommentsService and the two report services    *)
(* over their tables.  A handler whose checks another request can outdate  *)
(* runs one statement at a time; the others are one step.  Gatherings,     *)
(* friendships and withdrawals belong to other modules and change here as  *)
(* their environment.                                                      *)
(***************************************************************************)
EXTENDS Naturals, FiniteSets, Bags

CONSTANTS
    User,         \* users
    GatheringId,  \* gatherings
    FeedId,       \* ids a feed may get: a bound on feeds ever made
    CommentId,    \* ids a comment may get: a bound on comments ever made
    Request,      \* HTTP requests in flight at a time
    MaxRequests,  \* a bound on requests ever made, those to other modules too
    MaxRows,      \* a bound on the rows a user has in one gathering
    None          \* "no value"

ASSUME FeedsAssumption ==
    /\ IsFiniteSet(FeedId) /\ IsFiniteSet(Request)
    /\ MaxRequests \in Nat /\ MaxRows \in Nat
    /\ None \notin User \cup GatheringId \cup FeedId \cup CommentId
    /\ FeedId \cap CommentId = {}
    /\ GatheringId \cap (FeedId \cup CommentId) = {}

VARIABLES
    active,     \* the users who are not withdrawn
    friends,    \* the pairs {u, v} with an accepted friend row; {u} if u asked himself
    befriended, \* history: the pairs that have ever been in friends
    gathering,  \* gathering[g]: open, ended, ended 30 days ago, or deleted
    roster,     \* roster[<<g, u>>]: the participations of u in g, of whatever status
    invited,    \* history: roster as it was when the gatherings were created
    feed,       \* feed[f]: the row with id f, NoFeed if there is none
    visible,    \* the pairs <<f, u>> of friend_feed_visibility
    comment,    \* comment[c]: the row with id c, NoComment if there is none
    hidden,     \* the pairs <<u, i>> of blocked_feed and blocked_feed_comment
    report,     \* report[<<u, i>>]: how many reports of i u has filed
    req,        \* req[r]: the next statement of request r, with its locals
    made,       \* the requests made so far
    task        \* the events whose receivers are still to be notified, a bag

environment == <<active, friends, befriended, gathering, roster, invited>>
tables == <<feed, visible, comment, hidden, report>>

Item == FeedId \cup CommentId
Pair == {{p[1], p[2]} : p \in User \X User}

NoFeed == [writer |-> None, about |-> None, deleted |-> FALSE]
FeedRow == [writer : User, about : GatheringId \cup {None}, deleted : BOOLEAN]
NoComment == [writer |-> None, feed |-> None, mentioned |-> None, deleted |-> FALSE]
CommentRow ==
    [writer : User, feed : FeedId, mentioned : User \cup {None}, deleted : BOOLEAN]

\* What a notification is about: source is the row the event has committed.
Event ==
    [type : {"gatheringFeed", "friendFeed", "comment", "friendRequest", "friendAcceptance",
             "gatheringCreation", "invitationAcceptance", "groupCreation"},
     source : Item \cup GatheringId \cup {None}, actor : User, to : SUBSET User]

Idle == [pc |-> "idle", user |-> None, item |-> None, users |-> {}, unchecked |-> {}]
RequestState ==
    [pc : {"idle", "participation", "duplicate", "saveFeed", "friends",
           "saveFriendFeed", "block", "commit"},
     user : User \cup {None}, item : Item \cup GatheringId \cup {None},
     users : SUBSET User, unchecked : SUBSET User]

FeedsTypeOK ==
    /\ active \subseteq User
    /\ friends \subseteq befriended /\ befriended \subseteq Pair
    /\ gathering \in [GatheringId -> {"open", "ended", "old", "deleted"}]
    /\ roster \in [GatheringId \X User -> 0..MaxRows]
    /\ invited \in [GatheringId \X User -> 0..MaxRows]
    /\ feed \in [FeedId -> FeedRow \cup {NoFeed}]
    /\ visible \subseteq FeedId \X User
    /\ comment \in [CommentId -> CommentRow \cup {NoComment}]
    /\ hidden \subseteq User \X Item
    /\ report \in [User \X Item -> Nat]
    /\ req \in [Request -> RequestState]
    /\ made \in 0..MaxRequests
    /\ IsABag(task) /\ BagToSet(task) \subseteq Event

FeedsInit ==
    /\ active = User
    /\ friends \in SUBSET Pair /\ befriended = friends
    /\ gathering \in [GatheringId -> {"open", "ended"}]
    /\ roster \in [GatheringId \X User -> 0..MaxRows] /\ invited = roster
    /\ feed = [f \in FeedId |-> NoFeed]
    /\ visible = {}
    /\ comment = [c \in CommentId |-> NoComment]
    /\ hidden = {}
    /\ report = [p \in User \X Item |-> 0]
    /\ req = [r \in Request |-> Idle]
    /\ made = 0
    /\ task = EmptyBag

-----------------------------------------------------------------------------

\* A request is made: the bound on their number is the model's.
Asked == made < MaxRequests /\ made' = made + 1

Begin(r, pc, u, i, users) ==
    /\ Asked
    /\ req[r].pc = "idle"
    /\ req' = [req EXCEPT ![r] =
            [pc |-> pc, user |-> u, item |-> i, users |-> users, unchecked |-> users]]
Goto(r, pc) == req' = [req EXCEPT ![r].pc = pc]

\* The answer, an error or not.
Finish(r) == req' = [req EXCEPT ![r] = Idle]

\* The row of a feed, deleted or not.
Stored(f) == feed[f] # NoFeed

\* v4 makes an id that no row and no request has ever had.
Unused(i) ==
    /\ i \in FeedId => ~Stored(i) /\ \A c \in CommentId : comment[c].feed # i
    /\ i \in CommentId => comment[i] = NoComment
    /\ \A u \in User : <<u, i>> \notin hidden /\ report[<<u, i>>] = 0
    /\ \A r \in Request : req[r].item # i

\* A call of NotificationsManager that nobody awaits.
Publish(type, source, u, users) ==
    task' = task (+) SetToBag({[type |-> type, source |-> source, actor |-> u, to |-> users]})

ActiveFeeds(g, u) ==
    {f \in FeedId : feed[f].writer = u /\ feed[f].about = g /\ ~feed[f].deleted}

\* A row is deleted by a date.
Deleted(row) == [row EXCEPT !.deleted = TRUE]

-----------------------------------------------------------------------------
(* FeedsService.createGatheringFeed *)

\* readOne, checkFeedCreationPeriod: ended, and less than 30 days ago.
CreateGatheringFeed(r, u, g) ==
    /\ gathering[g] = "ended"
    /\ Begin(r, "participation", u, g, {})
    /\ UNCHANGED <<environment, tables, task>>

\* A participation of any status will do.
CheckIsParticipation(r) ==
    /\ req[r].pc = "participation"
    /\ IF roster[<<req[r].item, req[r].user>>] > 0 THEN Goto(r, "duplicate") ELSE Finish(r)
    /\ UNCHANGED <<environment, tables, made, task>>

\* Mutant: looks at feeds of the gathering's other writers only.
CheckDuplicateOfOthers(r) ==
    /\ req[r].pc = "duplicate"
    /\ IF \E u \in User \ {req[r].user} : ActiveFeeds(req[r].item, u) # {}
       THEN Finish(r) ELSE Goto(r, "saveFeed")
    /\ UNCHANGED <<environment, tables, made, task>>

CheckDuplicateFeed(r) ==
    /\ req[r].pc = "duplicate"
    /\ IF ActiveFeeds(req[r].item, req[r].user) = {}
       THEN Goto(r, "saveFeed") ELSE Finish(r)
    /\ UNCHANGED <<environment, tables, made, task>>

SaveGatheringFeed(r) ==
    /\ req[r].pc = "saveFeed"
    /\ \E f \in FeedId :
        /\ Unused(f)
        /\ feed' = [feed EXCEPT ![f] = [writer |-> req[r].user, about |-> req[r].item,
                                        deleted |-> FALSE]]
        /\ Publish("gatheringFeed", f, req[r].user, {})
    /\ Finish(r)
    /\ UNCHANGED <<environment, visible, comment, hidden, report, made>>

-----------------------------------------------------------------------------
(* FeedsService.createFriendFeed *)

\* Nobody is tagged in a private feed; a writer who has befriended himself may tag
\* himself.
CreateFriendFeed(r, u, users) ==
    /\ Begin(r, "friends", u, None, users)
    /\ UNCHANGED <<environment, tables, task>>

\* Mutant: the checks are started and not awaited.
CheckSomeFriend(r) ==
    /\ req[r].pc = "friends"
    /\ Goto(r, "saveFriendFeed")
    /\ UNCHANGED <<environment, tables, made, task>>

\* checkIsFriendAll: one query for each friend, in any order; the first that
\* finds no accepted row ends the request.
CheckIsFriendAll(r) ==
    LET u == req[r].user
    IN  /\ req[r].pc = "friends"
        /\ \/ req[r].unchecked = {} /\ Goto(r, "saveFriendFeed")
           \/ \E v \in req[r].unchecked :
                IF {u, v} \in friends
                THEN req' = [req EXCEPT ![r].unchecked = @ \ {v}]
                ELSE Finish(r)
        /\ UNCHANGED <<environment, tables, made, task>>

\* Mutant: without a transaction the visibilities may be refused after the feed.
FriendFeedStatements(r) ==
    /\ req[r].pc = "saveFriendFeed"
    /\ \E f \in FeedId, written \in {{}, req[r].users} :
        /\ Unused(f)
        /\ feed' = [feed EXCEPT ![f] = [writer |-> req[r].user, about |-> None,
                                        deleted |-> FALSE]]
        /\ visible' = visible \cup ({f} \X written)
        /\ Publish("friendFeed", f, req[r].user, req[r].users)
    /\ Finish(r)
    /\ UNCHANGED <<environment, comment, hidden, report, made>>

\* friendFeedTransaction: the feed and its visibilities, or neither if it takes
\* too long or a friend is named twice.
FriendFeedTransaction(r) ==
    /\ req[r].pc = "saveFriendFeed"
    /\ \E f \in FeedId :
        /\ Unused(f)
        /\ feed' = [feed EXCEPT ![f] = [writer |-> req[r].user, about |-> None,
                                        deleted |-> FALSE]]
        /\ visible' = visible \cup ({f} \X req[r].users)
        /\ Publish("friendFeed", f, req[r].user, req[r].users)
    /\ Finish(r)
    /\ UNCHANGED <<environment, comment, hidden, report, made>>

\* Mutant: the row is updated without being read, and may not be there.
DeleteFeedUnread(u, f) ==
    /\ Asked
    /\ feed' = [feed EXCEPT ![f] = Deleted(@)]
    /\ UNCHANGED <<environment, visible, comment, hidden, report, req, task>>

\* FeedsWriter.delete: only by its writer; deleting it again changes nothing.
DeleteFeed(u, f) ==
    /\ Asked
    /\ feed[f].writer = u
    /\ feed' = [feed EXCEPT ![f] = Deleted(@)]
    /\ UNCHANGED <<environment, visible, comment, hidden, report, req, task>>

-----------------------------------------------------------------------------
(* FeedCommentsService *)

\* The feed need not be active, nor shown to the user, nor exist: there are no
\* foreign keys.
CreateComment(u, f, m) ==
    /\ Asked
    /\ m # u /\ m \in active \cup {None}
    /\ \E c \in CommentId :
        /\ Unused(c)
        /\ comment' = [comment EXCEPT ![c] = [writer |-> u, feed |-> f, mentioned |-> m,
                                              deleted |-> FALSE]]
        /\ Publish("comment", c, u, {})
    /\ UNCHANGED <<environment, feed, visible, hidden, report, req>>

\* Only by its writer.
DeleteComment(u, c) ==
    /\ Asked
    /\ comment[c].writer = u /\ ~comment[c].deleted
    /\ comment' = [comment EXCEPT ![c] = Deleted(@)]
    /\ UNCHANGED <<environment, feed, visible, hidden, report, req, task>>

-----------------------------------------------------------------------------
(* BlockedFeedsService and the report services *)

\* Another transaction has inserted the key and not committed it.
Awaited(u, i) == \E q \in Request : req[q].pc = "commit" /\ req[q].user = u /\ req[q].item = i

Block(u, f) ==
    /\ Asked
    /\ ~Awaited(u, f)
    /\ hidden' = hidden \cup {<<u, f>>}
    /\ UNCHANGED <<environment, feed, visible, comment, report, req, task>>

Unblock(u, f) ==
    /\ Asked
    /\ hidden' = hidden \ {<<u, f>>}
    /\ UNCHANGED <<environment, feed, visible, comment, report, req, task>>

\* Mutant: the report is written by a statement outside the transaction.
ReportOutsideTransaction(r, u, i) ==
    /\ Begin(r, "block", u, i, {})
    /\ report' = [report EXCEPT ![<<u, i>>] = @ + 1]
    /\ UNCHANGED <<environment, feed, visible, comment, hidden, task>>

\* BEGIN and saveReport: nobody sees the report before the commit.
Report(r, u, i) ==
    /\ Begin(r, "block", u, i, {})
    /\ UNCHANGED <<environment, tables, task>>

\* blockFeed, blockComment: the insert of a key that is there undoes the report.
BlockReported(r) ==
    LET u == req[r].user
        i == req[r].item
    IN  /\ req[r].pc = "block"
        /\ ~Awaited(u, i)
        /\ IF <<u, i>> \notin hidden THEN Goto(r, "commit") ELSE Finish(r)
        /\ UNCHANGED <<environment, tables, made, task>>

CommitReport(r) ==
    LET key == <<req[r].user, req[r].item>>
    IN  /\ req[r].pc = "commit"
        /\ hidden' = hidden \cup {key}
        /\ report' = [report EXCEPT ![key] = @ + 1]
        /\ Finish(r)
        /\ UNCHANGED <<environment, feed, visible, comment, made, task>>

\* An error, a transaction that takes too long: what was written is undone.
Fail(r) ==
    /\ req[r].pc # "idle"
    /\ Finish(r)
    /\ UNCHANGED <<environment, tables, made, task>>

-----------------------------------------------------------------------------
(* The other modules' steps, as far as they are read here *)

Befriend(p) ==
    /\ p \notin friends
    /\ friends' = friends \cup {p} /\ befriended' = befriended \cup {p}
    /\ UNCHANGED <<active, gathering, roster, invited>>
Unfriend(p) ==
    /\ p \in friends
    /\ friends' = friends \ {p}
    /\ UNCHANGED <<active, befriended, gathering, roster, invited>>
Withdraw(u) ==
    /\ u \in active
    /\ active' = active \ {u}
    /\ UNCHANGED <<friends, befriended, gathering, roster, invited>>
RestoreUser(u) ==
    /\ u \notin active
    /\ active' = active \cup {u}
    /\ UNCHANGED <<friends, befriended, gathering, roster, invited>>
EndGathering(g) ==
    /\ \/ gathering[g] = "open" /\ gathering' = [gathering EXCEPT ![g] = "ended"]
       \/ gathering[g] = "ended" /\ gathering' = [gathering EXCEPT ![g] = "old"]
    /\ UNCHANGED <<active, friends, befriended, roster, invited>>

\* Retracted or rejected, or deleted with the gathering.
DropParticipation(g, u) ==
    /\ roster[<<g, u>>] > 0
    /\ roster' = [roster EXCEPT ![<<g, u>>] = @ - 1]
    /\ UNCHANGED <<active, friends, befriended, gathering, invited>>
DropGathering(g) ==
    /\ gathering[g] # "deleted"
    /\ gathering' = [gathering EXCEPT ![g] = "deleted"]
    /\ roster' = [p \in GatheringId \X User |-> IF p[1] = g THEN 0 ELSE roster[p]]
    /\ UNCHANGED <<active, friends, befriended, invited>>

Environment ==
    \/ \E p \in Pair : Befriend(p) \/ Unfriend(p)
    \/ \E u \in User : Withdraw(u) \/ RestoreUser(u)
    \/ \E g \in GatheringId :
        EndGathering(g) \/ DropGathering(g) \/ \E u \in User : DropParticipation(g, u)

\* The requests of the controllers that change something.
WriteFeed(r, u) ==
    \/ \E g \in GatheringId : CreateGatheringFeed(r, u, g)
    \/ \E users \in SUBSET User : CreateFriendFeed(r, u, users)
ChangeFeed(u, f) == DeleteFeed(u, f) \/ Block(u, f) \/ Unblock(u, f)
ChangeComment(u) ==
    \/ \E f \in FeedId, m \in User \cup {None} : CreateComment(u, f, m)
    \/ \E c \in CommentId : DeleteComment(u, c)
FileReport(r, u) == \E i \in Item : Report(r, u, i)

Progress(r) ==
    \/ CheckIsParticipation(r) \/ CheckDuplicateFeed(r) \/ SaveGatheringFeed(r)
    \/ CheckIsFriendAll(r) \/ FriendFeedTransaction(r)
    \/ BlockReported(r) \/ CommitReport(r)

FeedsNext ==
    \/ \E r \in Request, u \in User : WriteFeed(r, u) \/ FileReport(r, u)
    \/ \E u \in User : ChangeComment(u) \/ \E f \in FeedId : ChangeFeed(u, f)
    \/ \E r \in Request : Progress(r) \/ Fail(r)
    \/ Asked /\ Environment /\ UNCHANGED <<tables, req, task>>

-----------------------------------------------------------------------------

\* Requests that overlap all pass checkDuplicateFeed before any stores its feed:
\* a writer has at most one feed about a gathering for each request in flight at
\* a time, and never more, however feeds are deleted and written again.
Saving(g, u) == {r \in Request : req[r].pc = "saveFeed" /\ req[r].item = g /\ req[r].user = u}
DuplicateFeedsBounded ==
    \A g \in GatheringId, u \in User :
        Cardinality(ActiveFeeds(g, u)) + Cardinality(Saving(g, u)) <= Cardinality(Request)

\* A feed is shown to nobody who has never been a friend of its writer.  The
\* friendship may be over when the rows are written, and stays unlooked at.
AudienceWasFriends ==
    \A p \in visible : {feed[p[1]].writer, p[2]} \in befriended

=============================================================================
