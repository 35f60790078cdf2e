--------------------------------- MODULE Lists ---------------------------------
(***************************************************************************)
(* A client follows the cursors of one list of this API to its end, while  *)
(* requests of others change the rows the list is made of.                 *)
(***************************************************************************)
EXTENDS UserLists, GatheringLists, FeedLists

CONSTANTS
    N,           \* rows a list is made of
    LastDate,    \* dates and names are 1..LastDate
    Limits,      \* page sizes
    MaxChanges   \* a bound on changes during a walk

ASSUME ListsAssumption ==
    N \in Nat \ {0} /\ LastDate \in Nat \ {0} /\ Limits \subseteq Nat \ {0} /\ MaxChanges \in Nat

UserKinds == {"friends", "receivedRequests", "sentRequests", "search"}
GatheringKinds == {"gatherings", "allGatherings", "ended", "unwritten", "invitations",
                   "sentInvitations"}
FeedKinds == {"feeds", "feedsAscending", "ownFeeds", "blockedFeeds"}
Kind == UserKinds \cup GatheringKinds \cup FeedKinds
            \cup {"groups", "comments", "notifications"}

VARIABLES
    kind,     \* the list
    limit,    \* its page size
    calm,     \* no row is one of those the lists are not made for: see Smooth
    row,      \* row[i]: what the list's query joins of the user, gathering, ... i
    changes,  \* the changes so far
    cursor,   \* the last cursor answered, None before the first page
    over,     \* the last page has been answered
    shown,    \* the entries answered
    repeated, \* history: whether an entry was answered by two pages
    listed,   \* history: all the list has to show now, Listing(kind, row)
    stayed    \* history: the entries listed since the walk began

constant == <<kind, limit, calm>>
vars == <<constant, row, changes, cursor, over, shown, repeated, listed, stayed>>

Date == 1..LastDate
RowOf(k) ==
    CASE k \in UserKinds -> Peer(Date)
      [] k \in GatheringKinds -> Gathering(Date)
      [] k \in FeedKinds -> Feed(Date)
      [] k = "groups" -> Group(Date)
      [] k = "comments" -> Comment(Date)
      [] k = "notifications" -> Notification(Date)

-----------------------------------------------------------------------------
(* The queries *)

\* The first date asked for, where the list has a range; every row is in it.
Edge(k) == IF k \in {"allGatherings", "feedsAscending"} THEN 1 ELSE LastDate

\* What each controller may answer to cursor c.
FriendAnswers(k, rows, c, n) ==
    CASE k = "friends" -> ReadFriends(rows, c, n)
      [] k = "receivedRequests" -> ReadReceivedRequests(rows, c, n)
      [] k = "sentRequests" -> ReadSentRequests(rows, c, n)

UserAnswers(k, rows, c, n) == SearchUsers(rows, c, n)

GatheringAnswers(k, rows, c, n) ==
    CASE k = "gatherings" -> ReadGatherings(rows, Edge(k), c, n)
      [] k = "allGatherings" -> ReadAllGatherings(rows, Edge(k), c, n)
      [] k = "ended" -> ReadEnded(rows, Edge(k), c, n)
      [] k = "unwritten" -> ReadUnwrittenFeed(rows, c, n)

InvitationAnswers(k, rows, c, n) ==
    CASE k = "invitations" -> ReadReceived(rows, Edge(k), c, n)
      [] k = "sentInvitations" -> ReadSent(rows, Edge(k), c, n)

FeedAnswers(k, rows, c, n) ==
    CASE k = "feeds" -> GetFeeds(rows, "ALL", "DESC", c, n)
      [] k = "feedsAscending" -> GetFeeds(rows, "ALL", "ASC", c, n)
      [] k = "ownFeeds" -> GetFeeds(rows, "MY", "DESC", c, n)

GroupAnswers(k, rows, c, n) == ReadGroups(rows, c, n)
BlockedFeedAnswers(k, rows, c, n) == GetBlockedFeeds(rows, c, n)
CommentAnswers(k, rows) == ReadComments(rows)
NotificationAnswers(k, rows, c, n) == ReadNotifications(rows, c, n)

Answers(k, rows, c, n) ==
    CASE k \in {"friends", "receivedRequests", "sentRequests"} -> FriendAnswers(k, rows, c, n)
      [] k = "search" -> UserAnswers(k, rows, c, n)
      [] k \in {"gatherings", "allGatherings", "ended", "unwritten"}
            -> GatheringAnswers(k, rows, c, n)
      [] k \in {"invitations", "sentInvitations"} -> InvitationAnswers(k, rows, c, n)
      [] k \in {"feeds", "feedsAscending", "ownFeeds"} -> FeedAnswers(k, rows, c, n)
      [] k = "groups" -> GroupAnswers(k, rows, c, n)
      [] k = "blockedFeeds" -> BlockedFeedAnswers(k, rows, c, n)
      [] k = "comments" -> CommentAnswers(k, rows)
      [] k = "notifications" -> NotificationAnswers(k, rows, c, n)

\* "" and "" for names; for dates, the edge of the range with any id, or the
\* present, after every row.
FirstCursor(k) ==
    CASE k \in UserKinds -> RowAt(0, 0)
      [] k \in {"unwritten", "groups", "blockedFeeds", "comments", "notifications"}
            -> RowAt(LastDate + 1, 0)
      [] OTHER -> RowAt(Edge(k), N)

\* The direction of each list.
Direction(k) == IF k \in UserKinds \cup {"allGatherings", "feedsAscending"} THEN "ASC" ELSE "DESC"

\* All a list has to show: a page large enough, from a cursor before every row.
Listing(k, rows) ==
    LET c == RowAt(IF Direction(k) = "ASC" THEN 0 ELSE LastDate + 1, 0)
    IN  UNION {answer.page : answer \in Answers(k, rows, c, 2 * N)}

-----------------------------------------------------------------------------

\* Fewer rows at the edge of the range than fill a page, where the query takes
\* all of them for unseen, and none where it takes them for seen; no writer who
\* has withdrawn, where a page is short of his feeds; no two rows at one date,
\* nor one at the date of a row already shown, where the cursor does not tell them
\* apart; no member later than the user,
\* where the cursor is the date of the latest; no invitation whose own id is before
\* its gathering's, where the cursor has the one and is compared with the other.
Smooth(k, n, rows, all) ==
    LET atEdge == {e \in all : e.at = Edge(k)}
        distinct == \A d, e \in all \cup shown : d.at = e.at => d = e
    IN  /\ k \in {"gatherings", "allGatherings", "ended", "invitations", "sentInvitations"}
            => Cardinality(atEdge) < n
        /\ k \in {"feeds", "feedsAscending", "ownFeeds"} => atEdge = {}
        /\ k \in {"feeds", "feedsAscending", "blockedFeeds"}
            => \A i \in 1..N : rows[i].writer # "withdrawn"
        /\ k \in {"invitations", "sentInvitations", "groups"} => distinct
        /\ k = "groups" => \A g \in MyGroups(rows) : rows[g].latest = rows[g].at
        /\ k = "invitations" => \A e \in all : ParticipationId(rows, e.id) <= e.id

\* Lists that are smooth whatever their rows are.
AlwaysSmooth == UserKinds \cup {"unwritten", "comments", "notifications"}

\* A row the list shows and one it does not, but for their dates.
Sample(k) ==
    LET peer == [at |-> 1, active |-> TRUE, mine |-> "NONE", theirs |-> "NONE",
                 blocked |-> FALSE]
        gathering == [at |-> 1, status |-> "ACCEPTED", state |-> "open", posted |-> FALSE,
                      host |-> "active", unanswered |-> FALSE, read |-> FALSE]
        feed == [at |-> 1, writer |-> "active", deleted |-> FALSE, hidden |-> FALSE,
                 reach |-> "gathering"]
        own == [feed EXCEPT !.writer = "me", !.reach = "none"]
        hidden == [feed EXCEPT !.hidden = TRUE]
        group == [at |-> 1, status |-> "ACCEPTED", owner |-> "active", latest |-> 1]
        comment == [at |-> 1, writer |-> "active", deleted |-> FALSE, hidden |-> FALSE]
    IN  CASE k = "friends" -> {peer, [peer EXCEPT !.mine = "ACCEPTED"]}
          [] k = "receivedRequests" -> {peer, [peer EXCEPT !.theirs = "PENDING"]}
          [] k = "sentRequests" -> {peer, [peer EXCEPT !.mine = "PENDING"]}
          [] k = "search" -> {peer, [peer EXCEPT !.mine = "PENDING", !.theirs = "PENDING"]}
          [] k \in {"gatherings", "allGatherings"}
                -> {gathering, [gathering EXCEPT !.status = "NONE"]}
          [] k \in {"ended", "unwritten"} -> {gathering, [gathering EXCEPT !.state = "ended"]}
          [] k = "invitations" -> {gathering, [gathering EXCEPT !.status = "PENDING"]}
          [] k = "sentInvitations" -> {gathering, [gathering EXCEPT !.unanswered = TRUE]}
          [] k \in {"feeds", "feedsAscending"} -> {feed, [feed EXCEPT !.reach = "tagged"]}
          [] k = "ownFeeds" -> {own, [own EXCEPT !.deleted = TRUE]}
          [] k = "blockedFeeds" -> {feed, hidden}
          [] k = "groups" -> {group, [group EXCEPT !.status = "NONE"]}
          [] k = "comments" -> {comment, [comment EXCEPT !.deleted = TRUE]}
          [] k = "notifications" -> {[at |-> 1, stored |-> b] : b \in BOOLEAN}

\* The dates of groups are not after that of their latest member.
WellFormed(k, w) == k = "groups" => w.latest >= w.at
Initially(k) ==
    {w \in RowOf(k) : \E s \in Sample(k) :
        /\ WellFormed(k, w)
        /\ \A f \in DOMAIN w \ {"at", "latest"} : w[f] = s[f]}

Values(f) ==
    CASE f \in {"at", "latest"} -> Date
      [] f \in {"mine", "theirs"} -> FriendStatus
      [] f = "status" -> {"NONE", "PENDING", "ACCEPTED", "REPORTED"}
      [] f \in {"writer", "host", "owner"} -> {"active", "withdrawn"}
      [] f = "reach" -> {"none", "gathering", "tagged"}
      [] OTHER -> BOOLEAN

\* The row with one attribute changed: a date only of a gathering that is not over,
\* a writer only when he withdraws; who deletes a gathering deletes its invitations.
Changed(k, w) ==
    {v \in (UNION {{[w EXCEPT ![f] = x] : x \in Values(f)} : f \in DOMAIN w \ {"state"}})
            \cup (IF k \in GatheringKinds /\ w.state = "open"
                  THEN {[w EXCEPT !.state = "ended"],
                        [w EXCEPT !.state = "deleted", !.status = "NONE", !.unanswered = FALSE]}
                  ELSE {}) :
        /\ v \in RowOf(k) /\ WellFormed(k, v)
        /\ v.at # w.at => k \in {"gatherings", "allGatherings"} /\ w.state = "open"
        /\ k \in GatheringKinds => w.state # "deleted"
        /\ k \in FeedKinds /\ v.writer # w.writer
                => w.writer = "active" /\ v.writer = "withdrawn"}

Init ==
    /\ kind \in Kind
    /\ limit \in Limits
    /\ row \in [1..N -> Initially(kind)]
    /\ changes = 0
    /\ cursor = None /\ over = FALSE
    /\ shown = {} /\ repeated = FALSE
    /\ LET smooth == Smooth(kind, limit, row, Listing(kind, row))
       IN  calm \in {smooth, smooth /\ kind \in AlwaysSmooth}
    /\ listed = Listing(kind, row) /\ stayed = listed

\* Of the changes, those that show in the list, or in the counts beside it.
Change ==
    /\ changes < MaxChanges /\ changes' = changes + 1
    /\ \E i \in 1..N : \E w \in Changed(kind, row[i]) : row' = [row EXCEPT ![i] = w]
    /\ listed' = Listing(kind, row')
    /\ calm => Smooth(kind, limit, row', listed')
    /\ listed' # listed \/ kind \in UserKinds \cup {"invitations"}
    /\ stayed' = stayed \cap listed'
    /\ UNCHANGED <<constant, cursor, over, shown, repeated>>

\* The cursor the next request asks with.
Cursor == IF cursor = None THEN FirstCursor(kind) ELSE cursor

Fetch ==
    /\ ~over
    /\ \E answer \in Answers(kind, row, Cursor, limit) :
        /\ shown' = shown \cup answer.page
        /\ repeated' = (repeated \/ answer.page \cap shown # {})
        /\ over' = (answer.next = None)
        /\ cursor' = IF answer.next = None THEN cursor ELSE answer.next
    /\ UNCHANGED <<constant, row, changes, listed, stayed>>

Next == Change \/ Fetch

\* The client asks for the next page as long as there is one.
Spec == Init /\ [][Next]_vars /\ WF_vars(Fetch)

-----------------------------------------------------------------------------

Entries == [at : Date, id : 1..N]

\* Rows, pages and cursors are well formed.
TypeOK ==
    /\ kind \in Kind /\ limit \in Limits /\ calm \in BOOLEAN
    /\ row \in [1..N -> RowOf(kind)]
    /\ changes \in 0..MaxChanges
    /\ cursor \in {None} \cup [at : Date, id : 0..N]
    /\ over \in BOOLEAN /\ repeated \in BOOLEAN
    /\ shown \subseteq Entries /\ stayed \subseteq listed /\ listed \subseteq Entries

\* Between cursor c and feed e there is one by a writer who has withdrawn: a page from c
\* counts it to the limit, loses it, and may end as the last before e.
CutShort(k, rows, c, e) ==
    /\ k \in {"feeds", "feedsAscending", "blockedFeeds"}
    /\ \E i \in 1..N : LET d == RowAt(rows[i].at, i)
                      IN  /\ rows[i].writer = "withdrawn"
                          /\ Before(Direction(k), c, d)
                          /\ d = e \/ Before(Direction(k), d, e)

\* What a walk may miss of what was listed all the time: feeds at the first date
\* asked for, which the first cursor passes over; feeds behind the last page if it
\* was cut short by a writer's withdrawal; invitations and groups at the date of
\* another one that was shown.
Excused(e) ==
    \/ kind \in {"feeds", "feedsAscending", "ownFeeds"} /\ e.at = Edge(kind)
    \/ over /\ CutShort(kind, row, Cursor, e)
    \/ kind \in {"invitations", "groups"}
        /\ \E d \in shown : d.id # e.id /\ IF kind = "groups"
                                           THEN row[d.id].at = row[e.id].at
                                           ELSE d.at = e.at

\* A client who follows the cursors to the end of any list of the API, while rows
\* come, go and change, is shown all that was listed all the time but the excused.
NothingMissed == over => \A e \in stayed : e \in shown \/ Excused(e)

\* In a calm list, and in all whose cursor moves on by itself, every walk ends.
MovesOn == calm \/ kind \notin {"gatherings", "allGatherings", "ended", "invitations",
                                "sentInvitations", "groups"}
WalkEnds == <>(over \/ ~MovesOn)

\* For each page is the last or continues after where it began: no cursor comes twice,
\* and there are finitely many.
CursorAdvances ==
    [][Fetch /\ ~over' /\ MovesOn => Before(Direction(kind), Cursor, cursor')]_vars

\* The counts shown to a user beside his lists are those of the lists: of friends,
\* but for rows accepted both ways, of open requests, of groups, of own feeds, the
\* hidden ones among them, of comments at least, the deleted ones among them in a
\* feed's details; new invitations are those listed, but for hosts who have
\* withdrawn; and of the ended gatherings those not marked as posted about are the
\* ones he is asked to write about.  Walks
\* change no rows: it is enough to compare before the first page.
ListsAgree == cursor = None /\ ~over =>
    LET Size(k) == Cardinality(Listing(k, row))
        Ids(k) == {e.id : e \in Listing(k, row)}
        twice == {u \in 1..N : row[u].mine = "ACCEPTED" /\ row[u].theirs = "ACCEPTED"}
    IN  /\ kind \in UserKinds =>
            /\ twice = {} => FriendCount(row) = Size("friends")
            /\ FriendCount(row) <= Size("friends") + Cardinality(twice)
            /\ CountRequest(row) = Size("receivedRequests") + Size("sentRequests")
            /\ Ids("search") \cap Ids("friends") = {}
        /\ kind = "groups" => GroupCount(row) = Size("groups")
        /\ kind = "ownFeeds" =>
            FeedCount(row) = Size("ownFeeds") + Cardinality({f \in Own(row) : row[f].hidden})
        /\ kind = "ownFeeds" /\ Size("ownFeeds") > 0 => HasFeed(row)
        /\ kind = "comments" =>
            /\ CommentCountOfDetail(row) >= CommentCount(row)
            /\ CommentCount(row) >= Size("comments")
        /\ kind = "invitations" =>
            NewInvitationCount(row) <= Size("invitations")
                + Cardinality({g \in 1..N : row[g].host = "withdrawn"})
        /\ kind \in GatheringKinds =>
            Ids("unwritten") = Ids("ended") \ IsFeedPosted(row)

\* The abstract walk, over places in the order of the list.
Place(e) ==
    <<IF Direction(kind) = "ASC" THEN e.at ELSE LastDate + 1 - e.at, e.id>>
Spots == Date \X (1..N)
SpotOrder ==
    {p \in Spots \X Spots : p[1][1] < p[2][1] \/ (p[1][1] = p[2][1] /\ p[1][2] < p[2][2])}

\* Of a list that is not calm the walk shows nothing.
Spotted(entries) == IF calm THEN {Place(e) : e \in entries} ELSE {}
Reached ==
    IF calm /\ cursor # None
    THEN Place(CHOOSE e \in shown : e.at = cursor.at /\ cursor.id \in {e.id, 0})
    ELSE <<0, 0>>

Walk == INSTANCE PagedWalk WITH
    Item <- Spots, Order <- SpotOrder, Start <- <<0, 0>>,
    listed <- Spotted(listed), stayed <- Spotted(stayed), shown <- Spotted(shown),
    repeated <- calm /\ repeated, cursor <- Reached, over <- calm /\ over

\* In a calm list the queries and cursors implement the abstract walk, so nothing
\* is missed and nothing shown twice.
KeepsOrder == Walk!Spec

=============================================================================
