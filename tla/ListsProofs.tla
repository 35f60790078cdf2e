------------------------------ MODULE ListsProofs ------------------------------
(***************************************************************************)
(* Proofs about Lists, for lists of any number of rows, pages of any size  *)
(* and any number of changes.                                              *)
(***************************************************************************)
EXTENDS ListsInv, PagesProofs

\* A table of rows the query of list k may find.
Table(k) == [1..N -> RowOf(k)]

\* What the assumptions say of the constants.
LEMMA Constants == N \in Nat /\ N >= 1 /\ LastDate \in Nat /\ LastDate >= 1
                    /\ Limits \subseteq Nat \ {0} /\ MaxChanges \in Nat
  BY ListsAssumption

\* What the rows of each table are.
LEMMA RowOfKind ==
    ASSUME NEW k
    PROVE  /\ k \in UserKinds => RowOf(k) = Peer(Date)
           /\ k \in GatheringKinds => RowOf(k) = Gathering(Date)
           /\ k \in FeedKinds => RowOf(k) = Feed(Date)
           /\ k = "groups" => RowOf(k) = Group(Date)
           /\ k = "comments" => RowOf(k) = Comment(Date)
           /\ k = "notifications" => RowOf(k) = Notification(Date)
<1>1. k \in UserKinds => RowOf(k) = Peer(Date)
  BY Zenon DEF RowOf, UserKinds, GatheringKinds, FeedKinds
<1>2. k \in GatheringKinds => RowOf(k) = Gathering(Date)
  BY DEF RowOf, UserKinds, GatheringKinds, FeedKinds
<1>3. k \in FeedKinds => RowOf(k) = Feed(Date)
  BY DEF RowOf, UserKinds, GatheringKinds, FeedKinds
<1>4. k = "groups" => RowOf(k) = Group(Date)
  BY DEF RowOf, UserKinds, GatheringKinds, FeedKinds
<1>5. k = "comments" => RowOf(k) = Comment(Date)
  BY DEF RowOf, UserKinds, GatheringKinds, FeedKinds
<1>6. k = "notifications" => RowOf(k) = Notification(Date)
  BY DEF RowOf, UserKinds, GatheringKinds, FeedKinds
<1> QED
  BY <1>1, <1>2, <1>3, <1>4, <1>5, <1>6

\* Every row has a date.
LEMMA RowDates ==
    ASSUME NEW k \in Kind, NEW rows \in Table(k), NEW i \in 1..N
    PROVE  /\ rows[i].at \in Date
           /\ k = "groups" => rows[i].latest \in Date
<1>1. rows[i] \in RowOf(k)
  BY DEF Table
<1>2. /\ rows[i] \in Peer(Date) => rows[i].at \in Date
      /\ rows[i] \in Gathering(Date) => rows[i].at \in Date
      /\ rows[i] \in Feed(Date) => rows[i].at \in Date
      /\ rows[i] \in Group(Date) => rows[i].at \in Date /\ rows[i].latest \in Date
      /\ rows[i] \in Comment(Date) => rows[i].at \in Date
      /\ rows[i] \in Notification(Date) => rows[i].at \in Date
  BY DEF Peer, Gathering, Feed, Group, Comment, Notification
<1> QED
  BY <1>1, <1>2, RowOfKind DEF Kind

\* A query finds rows of its table.
LEMMA FoundRows ==
    ASSUME NEW k \in Kind, NEW rows \in Table(k)
    PROVE  Found(k, rows) \subseteq 1..N
<1>1. DOMAIN rows = 1..N
  BY DEF Table
<1>2. CASE k \in UserKinds
  BY <1>1, <1>2 DEF Found, UserKinds
<1>3. CASE k \in GatheringKinds
  BY <1>1, <1>3 DEF Found, GatheringKinds, Joined
<1>4. CASE k \in FeedKinds
  BY <1>1, <1>4 DEF Found, FeedKinds, Seen, Own
<1>5. CASE k \in {"groups", "comments", "notifications"}
  BY <1>1, <1>5 DEF Found, MyGroups
<1> QED
  BY <1>2, <1>3, <1>4, <1>5 DEF Kind

\* Entries and rows correspond, one to one.
LEMMA EntryIndex ==
    ASSUME NEW k \in Kind, NEW rows \in Table(k), NEW i \in 1..N
    PROVE  /\ Entry(k, rows, i) \in Entries /\ Index(k, Entry(k, rows, i)) = i
           /\ k # "groups" => Entry(k, rows, i).at = rows[i].at
           /\ k = "groups" => Entry(k, rows, i).at = rows[i].latest
           /\ Entry(k, rows, i).id = IF k = "invitations" THEN N + 1 - i ELSE i
  BY RowDates, Constants DEF Entry, Index, Entries, RowAt

\* The entries of a list are at most as many as its rows.
LEMMA EntriesFinite ==
    ASSUME NEW k \in Kind, NEW rows \in Table(k)
    PROVE  /\ EntriesOf(k, rows) \subseteq Entries
           /\ IsFiniteSet(EntriesOf(k, rows))
           /\ Cardinality(EntriesOf(k, rows)) = Cardinality(Found(k, rows))
           /\ Cardinality(Found(k, rows)) \in Nat /\ Cardinality(Found(k, rows)) <= N
<1> DEFINE f == [i \in Found(k, rows) |-> Entry(k, rows, i)]
<1>1. Found(k, rows) \in SUBSET (1..N)
  BY FoundRows
<1>2. IsFiniteSet(1..N) /\ Cardinality(1..N) = N
  BY FS_Interval, Constants
<1>3. /\ IsFiniteSet(Found(k, rows)) /\ Cardinality(Found(k, rows)) <= N
      /\ Cardinality(Found(k, rows)) \in Nat
  BY <1>1, <1>2, FS_Subset, FS_CardinalityType
<1>4. f \in Bijection(Found(k, rows), EntriesOf(k, rows))
  <2>1. f \in Surjection(Found(k, rows), EntriesOf(k, rows))
    BY DEF EntriesOf, Surjection
  <2>2. \A i, j \in Found(k, rows) : Entry(k, rows, i) = Entry(k, rows, j) => i = j
    BY <1>1, EntryIndex
  <2> QED
    BY <2>1, <2>2 DEF Bijection, Injection, IsInjective, Surjection
<1>5. ExistsBijection(Found(k, rows), EntriesOf(k, rows))
  BY <1>4 DEF ExistsBijection
<1>6. EntriesOf(k, rows) \subseteq Entries
  BY <1>1, EntryIndex DEF EntriesOf
<1> QED
  BY <1>3, <1>5, <1>6, FS_Bijection

\* Entries are rows of pages.
LEMMA EntriesAreRows == Entries \subseteq Rows
  BY Constants DEF Entries, Rows, Date

-----------------------------------------------------------------------------
(* What the readers answer *)

Page(k, rows, c, n) == Limited(Rest(k, rows, c), Direction(k), n)
KeptPage(k, rows, c, n) == {e \in Page(k, rows, c, n) : rows[e.id].writer # "withdrawn"}

\* The entries of most lists are their rows' dates and ids.
LEMMA EntriesAre ==
    ASSUME NEW k, NEW rows, k \notin {"invitations", "groups"}
    PROVE  EntriesOf(k, rows) = {RowAt(rows[i].at, i) : i \in Found(k, rows)}
<1>1. \A i : Entry(k, rows, i) = RowAt(rows[i].at, i)
  BY DEF Entry
<1> QED
  BY <1>1 DEF EntriesOf

\* The lists of friends and requests.
LEMMA FriendAnswersAre ==
    ASSUME NEW k \in {"friends", "receivedRequests", "sentRequests"}, NEW rows \in Table(k),
           NEW c, NEW n
    PROVE  Answers(k, rows, c, n)
            = {Answer(Page(k, rows, c, n), NextCursor(Page(k, rows, c, n), Direction(k), n))}
<1>1. DOMAIN rows = 1..N
  BY DEF Table
<1>2. EntriesOf(k, rows) = Named(rows, Found(k, rows))
  BY EntriesAre DEF Named
<1>3. Direction(k) = "ASC" /\ Rest(k, rows, c) = {e \in EntriesOf(k, rows) : Before("ASC", c, e)}
  BY DEF Direction, UserKinds, Rest, Ahead, EdgeKinds
<1>4. \A page : UserPages(page, n) = {Answer(page, NextCursor(page, "ASC", n))}
  BY DEF UserPages, UserCursor, NextCursor
<1>5. Answers(k, rows, c, n) = FriendAnswers(k, rows, c, n)
  BY DEF Answers
<1>6. CASE k = "friends"
  <2>1. FriendAnswers(k, rows, c, n) = ReadFriends(rows, c, n)
    BY <1>6 DEF FriendAnswers
  <2>2. Found(k, rows) = {u \in DOMAIN rows : rows[u].active /\ IsFriend(rows[u])}
    BY <1>1, <1>6 DEF Found
  <2>3. FindFriendsByUserId(rows, c, n) = Page(k, rows, c, n)
    BY <1>2, <1>3, <2>2 DEF FindFriendsByUserId, After, Page
  <2> QED
    BY <1>3, <1>4, <1>5, <2>1, <2>3 DEF ReadFriends
<1>7. CASE k = "receivedRequests"
  <2>1. FriendAnswers(k, rows, c, n) = ReadReceivedRequests(rows, c, n)
    BY <1>7 DEF FriendAnswers
  <2>2. Found(k, rows) = {u \in DOMAIN rows : rows[u].active /\ rows[u].theirs = "PENDING"}
    BY <1>1, <1>7 DEF Found
  <2>3. FindReceivedRequestsByUserId(rows, c, n) = Page(k, rows, c, n)
    BY <1>2, <1>3, <2>2 DEF FindReceivedRequestsByUserId, After, Page
  <2> QED
    BY <1>3, <1>4, <1>5, <2>1, <2>3 DEF ReadReceivedRequests
<1>8. CASE k = "sentRequests"
  <2>1. FriendAnswers(k, rows, c, n) = ReadSentRequests(rows, c, n)
    BY <1>8 DEF FriendAnswers
  <2>2. Found(k, rows) = {u \in DOMAIN rows : rows[u].active /\ rows[u].mine = "PENDING"}
    BY <1>1, <1>8 DEF Found
  <2>3. FindSentRequestsByUserId(rows, c, n) = Page(k, rows, c, n)
    BY <1>2, <1>3, <2>2 DEF FindSentRequestsByUserId, After, Page
  <2> QED
    BY <1>3, <1>4, <1>5, <2>1, <2>3 DEF ReadSentRequests
<1> QED
  BY <1>6, <1>7, <1>8

\* The lists of gatherings.
LEMMA GatheringAnswersAre ==
    ASSUME NEW k \in {"gatherings", "allGatherings", "ended", "unwritten"},
           NEW rows \in Table(k), NEW c, NEW n
    PROVE  Answers(k, rows, c, n)
            = {Answer(Page(k, rows, c, n), NextCursor(Page(k, rows, c, n), Direction(k), n))}
<1>1. EntriesOf(k, rows) = Dated(rows, Found(k, rows))
  BY EntriesAre DEF Dated
<1>2. Answers(k, rows, c, n) = GatheringAnswers(k, rows, c, n)
  BY DEF Answers
<1>3. CASE k = "gatherings"
  <2>1. /\ GatheringAnswers(k, rows, c, n) = ReadGatherings(rows, Edge(k), c, n)
        /\ Direction(k) = "DESC" /\ Found(k, rows) = Joined(rows, {"open"})
    BY <1>3 DEF GatheringAnswers, Direction, UserKinds, Found
  <2>2. Rest(k, rows, c) = {e \in EntriesOf(k, rows) :
            Before("DESC", c, e) \/ (c.at = Edge(k) /\ e.at = Edge(k))}
    BY <1>3, <2>1 DEF Rest, Ahead, EdgeKinds
  <2>3. FindByUserId(rows, Edge(k), c, n) = Page(k, rows, c, n)
    BY <1>1, <2>1, <2>2 DEF FindByUserId, AfterOrAt, Page
  <2> QED
    BY <1>2, <2>1, <2>3 DEF ReadGatherings, DatedPages
<1>4. CASE k = "allGatherings"
  <2>1. /\ GatheringAnswers(k, rows, c, n) = ReadAllGatherings(rows, Edge(k), c, n)
        /\ Direction(k) = "ASC" /\ Found(k, rows) = Joined(rows, {"open", "ended"})
    BY <1>4 DEF GatheringAnswers, Direction, UserKinds, Found
  <2>2. Rest(k, rows, c) = {e \in EntriesOf(k, rows) :
            Before("ASC", c, e) \/ (c.at = Edge(k) /\ e.at = Edge(k))}
    BY <1>4, <2>1 DEF Rest, Ahead, EdgeKinds
  <2>3. FindAllByUserId(rows, Edge(k), c, n) = Page(k, rows, c, n)
    BY <1>1, <2>1, <2>2 DEF FindAllByUserId, Page
  <2> QED
    BY <1>2, <2>1, <2>3 DEF ReadAllGatherings, DatedPages
<1>5. CASE k = "ended"
  <2>1. /\ GatheringAnswers(k, rows, c, n) = ReadEnded(rows, Edge(k), c, n)
        /\ Direction(k) = "DESC" /\ Found(k, rows) = Joined(rows, {"ended"})
    BY <1>5 DEF GatheringAnswers, Direction, UserKinds, Found
  <2>2. Rest(k, rows, c) = {e \in EntriesOf(k, rows) :
            Before("DESC", c, e) \/ (c.at = Edge(k) /\ e.at = Edge(k))}
    BY <1>5, <2>1 DEF Rest, Ahead, EdgeKinds
  <2>3. FindEndedGatheringsByUserId(rows, Edge(k), c, n) = Page(k, rows, c, n)
    BY <1>1, <2>1, <2>2 DEF FindEndedGatheringsByUserId, AfterOrAt, Page
  <2> QED
    BY <1>2, <2>1, <2>3 DEF ReadEnded, DatedPages
<1>6. CASE k = "unwritten"
  <2>1. /\ GatheringAnswers(k, rows, c, n) = ReadUnwrittenFeed(rows, c, n)
        /\ Direction(k) = "DESC"
        /\ Found(k, rows) = {g \in Joined(rows, {"ended"}) : ~rows[g].posted}
    BY <1>6 DEF GatheringAnswers, Direction, UserKinds, Found
  <2>2. Rest(k, rows, c) = {e \in EntriesOf(k, rows) : Before("DESC", c, e)}
    BY <1>6, <2>1 DEF Rest, Ahead, EdgeKinds
  <2>3. FindGatheringsWithoutFeedByUserId(rows, c, n) = Page(k, rows, c, n)
    BY <1>1, <2>1, <2>2 DEF FindGatheringsWithoutFeedByUserId, After, Page
  <2> QED
    BY <1>2, <2>1, <2>3 DEF ReadUnwrittenFeed, DatedPages
<1> QED
  BY <1>3, <1>4, <1>5, <1>6

\* The lists of feeds: those of writers who have withdrawn are dropped from the page.
LEMMA FeedAnswersAre ==
    ASSUME NEW k \in FeedKinds, NEW rows \in Table(k), NEW c, NEW n
    PROVE  Answers(k, rows, c, n)
            = {Answer(KeptPage(k, rows, c, n),
                      NextCursor(KeptPage(k, rows, c, n), Direction(k), n))}
<1>1. DOMAIN rows = 1..N
  BY DEF Table
<1>2. EntriesOf(k, rows) = Of(rows, Found(k, rows))
  BY EntriesAre DEF Of, FeedKinds
<1>3. Rest(k, rows, c) = {e \in EntriesOf(k, rows) : Before(Direction(k), c, e)}
  BY DEF Rest, Ahead, EdgeKinds, FeedKinds
<1>4. FindFeeds(rows, Page(k, rows, c, n)) = KeptPage(k, rows, c, n)
  BY DEF FindFeeds, KeptPage
<1>5. Page(k, rows, c, n) = After(Of(rows, Found(k, rows)), Direction(k), c, n)
  BY <1>2, <1>3 DEF Page, After
<1>6. CASE k \in {"feeds", "feedsAscending"}
  <2>1. /\ Answers(k, rows, c, n) = GetFeeds(rows, "ALL", Direction(k), c, n)
        /\ Found(k, rows) = Seen(rows)
    BY <1>6 DEF Answers, FeedAnswers, Direction, UserKinds, Found
  <2>2. FindAllFeeds(rows, Direction(k), c, n) = KeptPage(k, rows, c, n)
    BY <1>4, <1>5, <2>1 DEF FindAllFeeds
  <2> QED
    BY <2>1, <2>2 DEF GetFeeds, DatedPages
<1>7. CASE k = "ownFeeds"
  <2>1. /\ Answers(k, rows, c, n) = GetFeeds(rows, "MY", Direction(k), c, n)
        /\ Found(k, rows) = {f \in Own(rows) : ~rows[f].hidden}
    BY <1>7 DEF Answers, FeedAnswers, Direction, UserKinds, Found
  <2>2. FindOwnFeeds(rows, Direction(k), c, n) = KeptPage(k, rows, c, n)
    BY <1>4, <1>5, <2>1 DEF FindOwnFeeds
  <2> QED
    BY <2>1, <2>2 DEF GetFeeds, DatedPages
<1>8. CASE k = "blockedFeeds"
  <2>1. /\ Answers(k, rows, c, n) = GetBlockedFeeds(rows, c, n)
        /\ Found(k, rows) = {f \in DOMAIN rows : rows[f].hidden /\ ~rows[f].deleted}
        /\ Direction(k) = "DESC"
    BY <1>1, <1>8 DEF Answers, BlockedFeedAnswers, Direction, UserKinds, Found
  <2>2. FindBlockedFeedsByUserId(rows, c, n) = KeptPage(k, rows, c, n)
    BY <1>4, <1>5, <2>1 DEF FindBlockedFeedsByUserId
  <2> QED
    BY <2>1, <2>2 DEF GetBlockedFeeds, DatedPages
<1> QED
  BY <1>6, <1>7, <1>8 DEF FeedKinds

\* The list of notifications.
LEMMA NotificationAnswersAre ==
    ASSUME NEW k, k = "notifications", NEW rows \in Table(k), NEW c, NEW n
    PROVE  Answers(k, rows, c, n)
            = {Answer(Page(k, rows, c, n), NextCursor(Page(k, rows, c, n), Direction(k), n))}
<1>1. DOMAIN rows = 1..N
  BY DEF Table
<1>2. EntriesOf(k, rows) = Of(rows, Found(k, rows))
  BY EntriesAre DEF Of
<1>3. /\ Direction(k) = "DESC"
      /\ Rest(k, rows, c) = {e \in EntriesOf(k, rows) : Before("DESC", c, e)}
      /\ Found(k, rows) = {m \in DOMAIN rows : rows[m].stored}
  BY <1>1 DEF Direction, UserKinds, Rest, Ahead, EdgeKinds, Found
<1>4. FindNotifications(rows, c, n) = Page(k, rows, c, n)
  BY <1>2, <1>3 DEF FindNotifications, After, Page
<1>5. Answers(k, rows, c, n) = ReadNotifications(rows, c, n)
  BY DEF Answers, NotificationAnswers
<1> QED
  BY <1>3, <1>4, <1>5 DEF ReadNotifications, DatedPages

\* The comments on a feed, all at once.
LEMMA CommentAnswersAre ==
    ASSUME NEW k, k = "comments", NEW rows \in Table(k), NEW c, NEW n
    PROVE  Answers(k, rows, c, n) = {Answer(Rest(k, rows, c), None)}
<1>1. DOMAIN rows = 1..N
  BY DEF Table
<1>2. EntriesOf(k, rows) = Of(rows, Found(k, rows))
  BY EntriesAre DEF Of
<1>3. Rest(k, rows, c) = EntriesOf(k, rows)
  BY DEF Rest, Ahead, EdgeKinds
<1>4. Found(k, rows) = {m \in DOMAIN rows : ~rows[m].deleted /\ rows[m].writer = "active"
                                                /\ ~rows[m].hidden}
  BY <1>1 DEF Found
<1>5. FindByFeedId(rows) = Rest(k, rows, c)
  BY <1>2, <1>3, <1>4 DEF FindByFeedId
<1>6. Answers(k, rows, c, n) = ReadComments(rows)
  BY DEF Answers, CommentAnswers
<1> QED
  BY <1>5, <1>6 DEF ReadComments

\* What is left of a list is part of it.
LEMMA RestFinite ==
    ASSUME NEW k \in Kind, NEW rows \in Table(k), NEW c
    PROVE  /\ Rest(k, rows, c) \subseteq Entries /\ Rest(k, rows, c) \in SUBSET Rows
           /\ IsFiniteSet(Rest(k, rows, c)) /\ Cardinality(Rest(k, rows, c)) <= N
           /\ Cardinality(Rest(k, rows, c)) \in Nat
<1>1. Rest(k, rows, c) \in SUBSET EntriesOf(k, rows)
  BY DEF Rest
<1>2. /\ IsFiniteSet(Rest(k, rows, c))
      /\ Cardinality(Rest(k, rows, c)) <= Cardinality(EntriesOf(k, rows))
  BY <1>1, EntriesFinite, FS_Subset
<1>3. Cardinality(Rest(k, rows, c)) \in Nat
  BY <1>2, FS_CardinalityType
<1> QED
  BY <1>1, <1>2, <1>3, EntriesFinite, EntriesAreRows, Constants

\* What is behind a feed that a page may lose is behind it too.
LEMMA CutShortBehind ==
    ASSUME NEW k \in Kind, NEW rows \in Table(k), NEW c, NEW d \in Rows, NEW e \in Rows,
           CutShort(k, rows, c, d), Before(Direction(k), d, e)
    PROVE  CutShort(k, rows, c, e)
<1>1. PICK i \in 1..N : LET f == RowAt(rows[i].at, i)
                        IN  /\ rows[i].writer = "withdrawn"
                            /\ Before(Direction(k), c, f)
                            /\ f = d \/ Before(Direction(k), f, d)
  BY DEF CutShort
<1>2. PICK f : f = RowAt(rows[i].at, i)
  OBVIOUS
<1>3. f \in Rows
  BY <1>2, RowDates, Constants DEF RowAt, Rows, Date
<1>4. Before(Direction(k), f, d) /\ Before(Direction(k), d, e) => Before(Direction(k), f, e)
  BY <1>3, BeforeIsOrder
<1>5. Before(Direction(k), f, e)
  BY <1>1, <1>2, <1>4
<1> QED
  BY <1>1, <1>2, <1>5 DEF CutShort

\* An answer made of a page by its size is what it should be.
LEMMA PageIsAnswer ==
    ASSUME NEW k \in Kind \ {"groups"}, NEW rows \in Table(k), NEW c,
           NEW n \in Nat \ {0}, NEW page \in SUBSET Page(k, rows, c, n),
           \A e \in page : Kept(k, rows, e),
           \A e \in Page(k, rows, c, n) \ page : CutShort(k, rows, c, e)
    PROVE  IsAnswer(k, rows, c, n, Answer(page, NextCursor(page, Direction(k), n)))
<1> DEFINE next == NextCursor(page, Direction(k), n)
           rest == Rest(k, rows, c)
<1>1. rest \in SUBSET Rows /\ IsFiniteSet(rest)
  BY RestFinite
<1>2. /\ Page(k, rows, c, n) \subseteq rest /\ IsFiniteSet(Page(k, rows, c, n))
      /\ \A d \in Page(k, rows, c, n), e \in rest \ Page(k, rows, c, n) : Before(Direction(k), d, e)
      /\ Cardinality(Page(k, rows, c, n)) < n => Page(k, rows, c, n) = rest
  BY <1>1, LimitedIsPage DEF Page
<1>3. page \in SUBSET Rows /\ IsFiniteSet(page)
  BY <1>1, <1>2, FS_Subset
<1>4. /\ next = None <=> Cardinality(page) < n
      /\ next # None =>
            /\ next \in page /\ n <= Cardinality(page)
            /\ \A d \in page : d = next \/ Before(Direction(k), d, next)
  BY <1>3, NextIsLast
<1>5. \A d, e : Earlier(k, rows, d, e) <=> Before(Direction(k), d, e)
  BY DEF Earlier
<1>6. next # None => IsLast(k, page, next, next)
  BY <1>4 DEF IsLast
<1>7. Answer(page, next).page = page /\ Answer(page, next).next = next
  BY DEF Answer
<1> HIDE DEF next, rest
<1>8. ASSUME next = None, NEW e \in rest \ page PROVE CutShort(k, rows, c, e)
  <2>1. CASE e \in Page(k, rows, c, n)
    BY <1>8, <2>1
  <2>2. CASE e \notin Page(k, rows, c, n)
    <3>1. Page(k, rows, c, n) # page
      BY <1>2, <1>4, <1>8, <2>2
    <3>2. PICK d \in Page(k, rows, c, n) : d \notin page
      BY <3>1
    <3>3. CutShort(k, rows, c, d) /\ Before(Direction(k), d, e)
      BY <1>2, <1>8, <2>2, <3>2
    <3>4. d \in Rows /\ e \in Rows
      BY <1>1, <1>2, <1>8, <3>2
    <3> QED
      BY <3>3, <3>4, CutShortBehind
  <2> QED
    BY <2>1, <2>2
<1>9. ASSUME next # None, NEW d \in page, NEW e \in rest \ page PROVE Earlier(k, rows, d, e)
  <2>1. n <= Cardinality(page) /\ Cardinality(Page(k, rows, c, n)) <= n
    BY <1>1, <1>4, <1>9, PageSize DEF Page, rest
  <2>2. /\ Cardinality(page) \in Nat /\ Cardinality(Page(k, rows, c, n)) \in Nat
        /\ Cardinality(page) <= Cardinality(Page(k, rows, c, n))
    BY <1>2, <1>3, FS_Subset, FS_CardinalityType
  <2>3. page = Page(k, rows, c, n)
    BY <1>2, <2>1, <2>2, FS_Subset
  <2> QED
    BY <1>2, <1>5, <1>9, <2>3
<1>10. \A e \in page : e \in rest /\ Kept(k, rows, e)
  BY <1>2
<1> QED
  BY <1>4, <1>6, <1>7, <1>8, <1>9, <1>10 DEF IsAnswer, next, rest

\* The invitations one has received: ordered by the participation's id.
LEMMA ReceivedAnswersAre ==
    ASSUME NEW k, k = "invitations", NEW rows \in Table(k), NEW c, NEW n
    PROVE  Answers(k, rows, c, n)
            = {Answer(Page(k, rows, c, n), NextCursor(Page(k, rows, c, n), Direction(k), n))}
<1> DEFINE pending == {g \in DOMAIN rows : rows[g].status = "PENDING"
                            /\ rows[g].state # "deleted" /\ rows[g].host = "active"}
           rest == {g \in pending :
                        \/ rows[g].at < c.at
                        \/ rows[g].at = c.at /\ (c.at = Edge(k) \/ g > c.id)}
<1>1. DOMAIN rows = 1..N
  BY DEF Table
<1>2. Found(k, rows) = pending /\ pending \subseteq 1..N
  BY <1>1 DEF Found
<1>3. \A g \in 1..N : ParticipationId(rows, g) = N + 1 - g
  <2>1. Cardinality(1..N) = N
    BY FS_Interval, Constants
  <2> QED
    BY <1>1, <2>1 DEF ParticipationId
<1>4. \A g \in 1..N : Entry(k, rows, g) = RowAt(rows[g].at, ParticipationId(rows, g))
  BY <1>3 DEF Entry
<1>5. \A g \in 1..N : Ahead(k, rows, c, Entry(k, rows, g))
            <=> \/ rows[g].at < c.at
                \/ rows[g].at = c.at /\ (c.at = Edge(k) \/ g > c.id)
  <2>1. \A g \in 1..N : Index(k, Entry(k, rows, g)) = g /\ Entry(k, rows, g).at = rows[g].at
    BY EntryIndex DEF Kind, GatheringKinds
  <2>2. \A e : Ahead(k, rows, c, e) <=>
            e.at < c.at \/ (e.at = c.at /\ (c.at = Edge(k) \/ Index(k, e) > c.id))
    BY DEF Ahead, EdgeKinds
  <2> QED
    BY <2>1, <2>2
<1>6. Rest(k, rows, c) = {RowAt(rows[g].at, ParticipationId(rows, g)) : g \in rest}
  <2>1. Rest(k, rows, c) = {Entry(k, rows, g) : g \in rest}
    <3> HIDE DEF pending
    <3> QED
      BY <1>2, <1>5 DEF Rest, EntriesOf
  <2> QED
    BY <1>2, <1>4, <2>1
<1>7. FindReceivedByParticipantId(rows, Edge(k), c, n) = Page(k, rows, c, n)
  <2>1. Direction(k) = "DESC"
    BY DEF Direction, UserKinds
  <2> QED
    BY <1>6, <2>1 DEF FindReceivedByParticipantId, Page
<1>8. Answers(k, rows, c, n) = ReadReceived(rows, Edge(k), c, n) /\ Direction(k) = "DESC"
  BY DEF Answers, InvitationAnswers, Direction, UserKinds
<1> QED
  BY <1>7, <1>8 DEF ReadReceived, DatedPages

\* The invitations one has sent: the page is open as to ties.
LEMMA SentIsAnswer ==
    ASSUME NEW k, k = "sentInvitations", NEW rows \in Table(k), NEW c, NEW n \in Nat \ {0},
           NEW answer \in Answers(k, rows, c, n)
    PROVE  IsAnswer(k, rows, c, n, answer)
<1> DEFINE page == Page(k, rows, c, n)
           rest == Rest(k, rows, c)
<1>1. k \in Kind /\ k \notin FeedKinds /\ Direction(k) = "DESC"
  BY DEF Kind, GatheringKinds, FeedKinds, Direction, UserKinds
<1>2. FindSentBySenderId(rows, Edge(k), c, n) = page
  <2>1. DOMAIN rows = 1..N
    BY DEF Table
  <2>2. EntriesOf(k, rows)
            = Dated(rows, {g \in DOMAIN rows : rows[g].unanswered /\ rows[g].state # "deleted"})
    <3>1. Found(k, rows) = {g \in DOMAIN rows : rows[g].unanswered /\ rows[g].state # "deleted"}
      BY <2>1 DEF Found
    <3> QED
      BY <3>1, EntriesAre DEF Dated
  <2>3. rest = {e \in EntriesOf(k, rows) :
            Before("DESC", c, e) \/ (c.at = Edge(k) /\ e.at = Edge(k))}
    BY <1>1 DEF Rest, Ahead, EdgeKinds
  <2> QED
    BY <1>1, <2>2, <2>3 DEF FindSentBySenderId, AfterOrAt, Page
<1>3. Answers(k, rows, c, n) = ReadSent(rows, Edge(k), c, n)
  BY DEF Answers, InvitationAnswers
<1>4. rest \in SUBSET Rows /\ IsFiniteSet(rest)
  BY <1>1, RestFinite
<1>5. /\ page \subseteq rest /\ IsFiniteSet(page)
      /\ \A d \in page, e \in rest \ page : Before("DESC", d, e)
      /\ Cardinality(page) < n => page = rest
  BY <1>1, <1>4, LimitedIsPage DEF Page
<1>6. Cardinality(page) \in Nat
  BY <1>5, FS_CardinalityType
<1>7. \A d, e : Earlier(k, rows, d, e) <=> Before("DESC", d, e)
  BY <1>1 DEF Earlier
<1>8. \A e : Kept(k, rows, e)
  BY <1>1 DEF Kept
<1>9. CASE Cardinality(page) < n
  <2>1. answer.page = page /\ answer.next = None
    BY <1>2, <1>3, <1>9 DEF ReadSent, Answer
  <2> QED
    BY <1>5, <1>8, <1>9, <2>1 DEF IsAnswer
<1>10. CASE n <= Cardinality(page)
  <2>1. PICK last \in page : answer = Answer(page, last) /\ \A d \in page : last.at <= d.at
    BY <1>2, <1>3, <1>6, <1>10 DEF ReadSent
  <2>2. answer.page = page /\ answer.next = last
    BY <2>1 DEF Answer
  <2>3. IsLast(k, page, last, last)
    <3>1. ASSUME NEW e \in page PROVE Before("DESC", e, last) \/ e.at = last.at
      BY <1>4, <1>5, <2>1, <3>1 DEF Before, Rows
    <3> QED
      BY <1>1, <2>1, <3>1 DEF IsLast
  <2>4. last # None
    BY <1>4, <1>5, NoneAssumption DEF Rows
  <2> QED
    BY <1>5, <1>7, <1>8, <1>10, <2>2, <2>3, <2>4 DEF IsAnswer
<1> QED
  BY <1>6, <1>9, <1>10

\* The groups: counted to the limit by one's own join date, shown with the latest.
LEMMA GroupIsAnswer ==
    ASSUME NEW k, k = "groups", NEW rows \in Table(k), NEW c, NEW n \in Nat \ {0},
           NEW answer \in Answers(k, rows, c, n)
    PROVE  IsAnswer(k, rows, c, n, answer)
<1> DEFINE before == {g \in MyGroups(rows) : rows[g].at < c.at}
           joined == Dated(rows, before)
           cut == Limited(joined, "DESC", n)
           page == FindGroupsByUserId(rows, c, n)
           rest == Rest(k, rows, c)
<1>1. k \in Kind /\ k \notin FeedKinds /\ Direction(k) = "DESC" /\ k \notin EdgeKinds
  BY DEF Kind, GatheringKinds, FeedKinds, Direction, UserKinds, EdgeKinds
<1>2. MyGroups(rows) \subseteq 1..N /\ Found(k, rows) = MyGroups(rows)
  BY DEF Table, MyGroups, Found
<1>3. \A g \in 1..N : rows[g].at \in Date /\ rows[g].latest \in Date
  BY <1>1, RowDates
<1>4. \A g \in 1..N : /\ Entry(k, rows, g) = RowAt(rows[g].latest, g)
                      /\ RowAt(rows[g].at, g) \in Rows
                      /\ RowAt(rows[g].at, g).id = g /\ RowAt(rows[g].at, g).at = rows[g].at
                      /\ Entry(k, rows, g).id = g
  BY <1>3, Constants DEF Entry, RowAt, Rows, Date
<1>5. rest = {Entry(k, rows, g) : g \in before}
  <2>1. \A e : Ahead(k, rows, c, e) <=> rows[e.id].at < c.at
    BY <1>1 DEF Ahead
  <2>2. rest = {e \in {Entry(k, rows, g) : g \in MyGroups(rows)} : rows[e.id].at < c.at}
    BY <1>2, <2>1 DEF Rest, EntriesOf
  <2> QED
    BY <1>2, <1>4, <2>2
<1>6. joined \in SUBSET Rows /\ IsFiniteSet(joined)
  <2>1. joined \in SUBSET Rows
    BY <1>2, <1>4 DEF Dated
  <2>2. before \in SUBSET (1..N) /\ IsFiniteSet(1..N)
    BY <1>2, FS_Interval, Constants
  <2>3. IsFiniteSet(before)
    BY <2>2, FS_Subset
  <2>4. [g \in before |-> RowAt(rows[g].at, g)] \in Surjection(before, joined)
    BY DEF Surjection, Dated
  <2> QED
    BY <2>1, <2>3, <2>4, FS_Surjection
<1>7. /\ cut \subseteq joined /\ IsFiniteSet(cut)
      /\ \A d \in cut, e \in joined \ cut : Before("DESC", d, e)
      /\ Cardinality(cut) < n => cut = joined
  BY <1>6, LimitedIsPage
<1>8. page = {Entry(k, rows, e.id) : e \in cut}
  <2>1. page = {RowAt(rows[e.id].latest, e.id) : e \in cut}
    BY DEF FindGroupsByUserId
  <2>2. \A e \in cut : e.id \in 1..N
    BY <1>2, <1>4, <1>7 DEF Dated
  <2> QED
    BY <1>4, <2>1, <2>2
<1>9. \A e \in cut : e.id \in before /\ e = RowAt(rows[e.id].at, e.id)
  BY <1>2, <1>4, <1>7 DEF Dated
<1> HIDE DEF page, cut, joined, rest
<1>10. \A g \in before : g \in 1..N /\ (Entry(k, rows, g) \in page <=> RowAt(rows[g].at, g) \in cut)
  BY <1>2, <1>4, <1>8, <1>9
<1>11. IsFiniteSet(page) /\ Cardinality(page) = Cardinality(cut) /\ Cardinality(page) \in Nat
  <2> DEFINE f == [e \in cut |-> Entry(k, rows, e.id)]
  <2>1. f \in Surjection(cut, page)
    BY <1>8 DEF Surjection
  <2>2. \A d, e \in cut : Entry(k, rows, d.id) = Entry(k, rows, e.id) => d = e
    BY <1>4, <1>9, <1>10
  <2>3. f \in Bijection(cut, page)
    BY <2>1, <2>2 DEF Bijection, Injection, IsInjective, Surjection
  <2>4. IsFiniteSet(page) /\ Cardinality(page) = Cardinality(cut)
    BY <1>7, <2>3, FS_Bijection DEF ExistsBijection
  <2> QED
    BY <2>4, FS_CardinalityType
<1>12. page \subseteq rest /\ page \in SUBSET Rows
  <2>1. page \subseteq rest
    BY <1>5, <1>8, <1>9
  <2> QED
    BY <2>1, <1>1, RestFinite DEF rest
<1>13. answer = Answer(page, GroupCursor(page, n))
  <2>1. Answers(k, rows, c, n) = ReadGroups(rows, c, n)
    BY DEF Answers, GroupAnswers
  <2> QED
    BY <2>1 DEF ReadGroups, page
<1>14. answer.page = page /\ answer.next = GroupCursor(page, n)
  BY <1>13 DEF Answer
<1>15. \A e : Kept(k, rows, e)
  BY <1>1 DEF Kept
<1>16. \A d, e : Earlier(k, rows, d, e) <=> rows[d.id].at >= rows[e.id].at
  BY DEF Earlier
<1>17. CASE Cardinality(page) < n
  <2>1. cut = joined
    BY <1>7, <1>11, <1>17
  <2>2. rest \subseteq page
    BY <1>5, <1>10, <2>1 DEF joined, Dated
  <2>3. answer.next = None
    BY <1>14, <1>17 DEF GroupCursor
  <2> QED
    BY <1>12, <1>14, <1>15, <2>2, <2>3 DEF IsAnswer, rest
<1>18. CASE n <= Cardinality(page)
  <2> DEFINE last == Last(page, "DESC")
  <2>1. last \in page /\ \A d \in page : d = last \/ Before("DESC", d, last)
    BY <1>11, <1>12, <1>18, FullPage
  <2>2. answer.next = [at |-> last.at, id |-> 0]
    BY <1>11, <1>14, <1>18 DEF GroupCursor
  <2> HIDE DEF last
  <2>3. IsLast(k, page, last, answer.next)
    BY <1>1, <2>1, <2>2 DEF IsLast
  <2>4. ASSUME NEW d \in page, NEW e \in rest \ page PROVE rows[d.id].at >= rows[e.id].at
    <3>1. PICK x \in cut : d = Entry(k, rows, x.id)
      BY <1>8
    <3>2. PICK g \in before : e = Entry(k, rows, g)
      BY <1>5
    <3>3. /\ d.id = x.id /\ e.id = g /\ x.id \in 1..N /\ g \in 1..N
          /\ x = RowAt(rows[x.id].at, x.id)
      BY <1>4, <1>9, <1>10, <3>1, <3>2
    <3>4. RowAt(rows[g].at, g) \in joined \ cut
      BY <1>10, <3>2 DEF joined, Dated
    <3>5. Before("DESC", x, RowAt(rows[g].at, g))
      BY <1>7, <3>1, <3>4
    <3> QED
      BY <1>3, <1>4, <3>3, <3>5, Constants DEF Before, Date
  <2>5. answer.next # None
    <3>1. last \in Rows
      BY <1>12, <2>1
    <3> QED
      BY <2>2, <3>1, NoneAssumption DEF Rows
  <2> QED
    BY <1>1, <1>12, <1>14, <1>15, <1>16, <2>1, <2>3, <2>4, <2>5 DEF IsAnswer, rest
<1> QED
  BY <1>11, <1>17, <1>18

\* The rows of the search's join are at most two for each user.
LEMMA CopiesFinite ==
    ASSUME NEW rows, NEW entries, IsFiniteSet(entries)
    PROVE  LET copies == Copies(rows, entries)
           IN  /\ IsFiniteSet(copies) /\ Cardinality(copies) \in Nat
               /\ Cardinality(copies) <= 2 * Cardinality(entries)
<1> DEFINE copies == Copies(rows, entries)
<1>1. IsFiniteSet({1, 2}) /\ Cardinality({1, 2}) = 2
  <2>1. IsFiniteSet({1}) /\ Cardinality({1}) = 1 /\ {1, 2} = {1} \cup {2}
    BY FS_Singleton
  <2> QED
    BY <2>1, FS_AddElement
<1>2. IsFiniteSet(entries \X {1, 2}) /\ Cardinality(entries \X {1, 2}) = Cardinality(entries) * 2
  BY <1>1, FS_Product
<1>3. copies \in SUBSET (entries \X {1, 2})
  BY DEF Copies
<1> HIDE DEF copies
<1>4. IsFiniteSet(copies) /\ Cardinality(copies) <= Cardinality(entries \X {1, 2})
  BY <1>2, <1>3, FS_Subset
<1>5. Cardinality(copies) \in Nat /\ Cardinality(entries) \in Nat
  BY <1>4, FS_CardinalityType
<1> QED
  BY <1>2, <1>4, <1>5 DEF copies

\* The search counts rows to the limit, and shows users.
LEMMA SearchPageIs ==
    ASSUME NEW k, k = "search", NEW rows \in Table(k), NEW c, NEW n
    PROVE  LET rest == Rest(k, rows, c)
               page == FindByAccountIdContaining(rows, c, n)
           IN  /\ page = {e \in rest :
                    Cardinality({d \in Copies(rows, rest) : Before("ASC", d[1], e)}) < n}
               /\ Answers(k, rows, c, n)
                    = {Answer(page, UserCursor(Copies(rows, page), page, n))}
<1>1. Answers(k, rows, c, n) = SearchUsers(rows, c, n)
  BY DEF Answers, UserAnswers
<1>2. Found(k, rows)
        = {u \in DOMAIN rows : rows[u].active /\ ~rows[u].blocked /\ ~IsFriend(rows[u])}
  BY DEF Table, Found
<1>3. EntriesOf(k, rows) = Named(rows, Found(k, rows))
  BY EntriesAre DEF Named
<1>4. Rest(k, rows, c) = {e \in EntriesOf(k, rows) : Before("ASC", c, e)}
  BY DEF Direction, UserKinds, Rest, Ahead, EdgeKinds
<1> QED
  BY <1>1, <1>2, <1>3, <1>4 DEF SearchUsers, FindByAccountIdContaining

\* A search: cut among the copies, continued after the user of the last one.
LEMMA SearchIsAnswer ==
    ASSUME NEW k, k = "search", NEW rows \in Table(k), NEW c, NEW n \in Nat \ {0},
           NEW answer \in Answers(k, rows, c, n)
    PROVE  IsAnswer(k, rows, c, n, answer)
<1> DEFINE rest == Rest(k, rows, c)
           page == FindByAccountIdContaining(rows, c, n)
           Below(e) == {d \in Copies(rows, rest) : Before("ASC", d[1], e)}
           made == Copies(rows, page)
<1>1. k \in Kind /\ k \notin FeedKinds /\ Direction(k) = "ASC"
            /\ k \notin EdgeKinds \cup {"invitations"}
  BY DEF Kind, UserKinds, FeedKinds, Direction, EdgeKinds
<1>2. rest \in SUBSET Rows /\ IsFiniteSet(rest)
  BY <1>1, RestFinite
<1>3. page = {e \in rest : Cardinality(Below(e)) < n}
  BY SearchPageIs
<1>4. answer.page = page /\ answer.next = UserCursor(made, page, n)
  BY SearchPageIs DEF Answer
<1>5. ASSUME NEW e PROVE IsFiniteSet(Below(e)) /\ Cardinality(Below(e)) \in Nat
  <2>1. IsFiniteSet(Copies(rows, rest)) /\ Below(e) \in SUBSET Copies(rows, rest)
    BY <1>2, CopiesFinite
  <2> HIDE DEF Below
  <2> QED
    BY <2>1, FS_Subset, FS_CardinalityType
<1> HIDE DEF page, rest
<1>6. page \subseteq rest /\ page \in SUBSET Rows /\ IsFiniteSet(page)
  <2>1. page \in SUBSET rest
    BY <1>3
  <2> QED
    BY <1>2, <2>1, FS_Subset
<1>7. IsFiniteSet(made) /\ Cardinality(made) \in Nat
  BY <1>6, CopiesFinite
<1>8. ASSUME NEW d \in page, NEW e \in rest \ page PROVE Before("ASC", d, e)
  <2>1. SUFFICES ASSUME Before("ASC", e, d) PROVE FALSE
    BY <1>2, <1>6, BeforeIsOrder
  <2>2. \A x \in Rows : Before("ASC", x, e) => Before("ASC", x, d)
    BY <1>2, <1>6, <2>1, BeforeIsOrder
  <2>3. Below(e) \in SUBSET Below(d)
    BY <1>2, <2>2 DEF Copies
  <2> HIDE DEF Below
  <2>4. Cardinality(Below(e)) <= Cardinality(Below(d))
    BY <1>5, <2>3, FS_Subset
  <2> QED
    BY <1>3, <1>5, <2>4
<1>9. ASSUME Cardinality(made) < n PROVE page = rest
  <2> DEFINE left == rest \ page
  <2>1. SUFFICES ASSUME left # {} PROVE FALSE
    BY <1>6
  <2>2. left \in SUBSET Rows /\ left \in SUBSET rest
    BY <1>2
  <2>3. IsFiniteSet(left)
    BY <1>2, <2>2, FS_Subset
  <2>4. PICK e \in left : \A d \in left : ~Before("ASC", d, e)
    BY <2>1, <2>2, <2>3, FirstRow
  <2>5. Below(e) \in SUBSET made
    BY <2>4 DEF Copies
  <2> HIDE DEF Below, made
  <2>6. Cardinality(Below(e)) <= Cardinality(made)
    BY <1>7, <2>5, FS_Subset
  <2> QED
    BY <1>3, <1>5, <1>7, <1>9, <2>4, <2>6
<1>10. \A e : Kept(k, rows, e)
  BY <1>1 DEF Kept
<1>11. \A d, e : Earlier(k, rows, d, e) <=> Before("ASC", d, e)
  BY <1>1 DEF Earlier
<1>12. CASE Cardinality(made) < n
  <2>1. answer.next = None
    BY <1>4, <1>12 DEF UserCursor
  <2> QED
    BY <1>4, <1>6, <1>9, <1>10, <1>12, <2>1 DEF IsAnswer, rest
<1>13. CASE n <= Cardinality(made)
  <2> DEFINE last == Last(page, "ASC")
  <2>1. answer.next = last
    BY <1>4, <1>7, <1>13 DEF UserCursor
  <2>2. page # {}
    <3>1. made # {}
      BY <1>7, <1>13, FS_EmptySet
    <3> QED
      BY <3>1 DEF Copies
  <2>3. last \in page /\ \A d \in page : d = last \/ Before("ASC", d, last)
    BY <1>6, <2>2, LastRow
  <2> HIDE DEF last
  <2>4. IsLast(k, page, last, last)
    BY <1>1, <2>3 DEF IsLast
  <2>5. last # None
    BY <1>6, <2>3, NoneAssumption DEF Rows
  <2> QED
    BY <1>1, <1>4, <1>6, <1>8, <1>10, <1>11, <2>1, <2>3, <2>4, <2>5 DEF IsAnswer, rest
<1> QED
  BY <1>7, <1>12, <1>13

\* Every answer of every list is the next page of what it has to show.
THEOREM AnswersArePages ==
    ASSUME NEW k \in Kind, NEW rows \in Table(k), NEW c, NEW n \in Nat \ {0},
           NEW answer \in Answers(k, rows, c, n)
    PROVE  IsAnswer(k, rows, c, n, answer)
<1>1. Page(k, rows, c, n) \subseteq Rest(k, rows, c)
  BY RestFinite, LimitedIsPage DEF Page
<1>2. CASE k \in {"friends", "receivedRequests", "sentRequests", "gatherings", "allGatherings",
                  "ended", "unwritten", "invitations", "notifications"}
  <2>1. answer = Answer(Page(k, rows, c, n), NextCursor(Page(k, rows, c, n), Direction(k), n))
    BY <1>2, FriendAnswersAre, GatheringAnswersAre, ReceivedAnswersAre, NotificationAnswersAre
  <2>2. \A e : Kept(k, rows, e)
    BY <1>2 DEF Kept, FeedKinds
  <2> QED
    BY <1>2, <2>1, <2>2, PageIsAnswer
<1>3. CASE k \in FeedKinds
  <2> DEFINE page == KeptPage(k, rows, c, n)
  <2>1. answer = Answer(page, NextCursor(page, Direction(k), n))
    BY <1>3, FeedAnswersAre
  <2>2. page \in SUBSET Page(k, rows, c, n) /\ \A e \in page : Kept(k, rows, e)
    BY DEF KeptPage, Kept
  <2>3. ASSUME NEW e \in Page(k, rows, c, n) \ page PROVE CutShort(k, rows, c, e)
    <3>1. PICK i \in Found(k, rows) : e = Entry(k, rows, i)
      BY <1>1 DEF Rest, EntriesOf
    <3>2. i \in 1..N /\ e.id = i /\ e = RowAt(rows[i].at, i)
      BY <1>3, <3>1, FoundRows, EntryIndex DEF FeedKinds, Entry
    <3>3. rows[i].writer = "withdrawn" /\ k # "ownFeeds"
      BY <2>3, <3>1, <3>2 DEF KeptPage, Found, Own
    <3>4. Ahead(k, rows, c, e)
      BY <1>1 DEF Rest
    <3>5. Before(Direction(k), c, e)
      BY <1>3, <3>4 DEF Ahead, FeedKinds, EdgeKinds
    <3> QED
      BY <1>3, <3>2, <3>3, <3>5 DEF CutShort, FeedKinds
  <2>4. k # "groups"
    BY <1>3 DEF FeedKinds
  <2> HIDE DEF page
  <2> QED
    BY <2>1, <2>2, <2>3, <2>4, PageIsAnswer
<1>4. CASE k = "comments"
  <2>1. answer.page = Rest(k, rows, c) /\ answer.next = None
    BY <1>4, CommentAnswersAre DEF Answer
  <2>2. \A e : Kept(k, rows, e)
    BY <1>4 DEF Kept, FeedKinds
  <2> QED
    BY <2>1, <2>2 DEF IsAnswer
<1>5. CASE k \in {"search", "sentInvitations", "groups"}
  BY <1>5, SearchIsAnswer, SentIsAnswer, GroupIsAnswer
<1> QED
  BY <1>2, <1>3, <1>4, <1>5 DEF Kind, UserKinds, GatheringKinds

-----------------------------------------------------------------------------
(* What a list shows *)

\* A page larger than what is left shows all of it.
LEMMA LargePage ==
    ASSUME NEW k \in Kind, NEW rows \in Table(k), NEW c, NEW n \in Nat, 2 * N <= n
    PROVE  \E answer \in Answers(k, rows, c, n) :
                answer.page = {e \in Rest(k, rows, c) : Kept(k, rows, e)}
<1> DEFINE rest == Rest(k, rows, c)
<1>1. /\ rest \in SUBSET Rows /\ IsFiniteSet(rest) /\ Cardinality(rest) <= N
      /\ Cardinality(rest) \in Nat /\ n \in Nat \ {0} /\ Cardinality(rest) < n
  BY RestFinite, Constants
<1>2. Page(k, rows, c, n) = rest
  BY <1>1, LimitedIsPage DEF Page
<1>3. ASSUME NEW page, page \subseteq rest
      PROVE  Cardinality(page) \in Nat /\ Cardinality(page) < n
  <2>1. page \in SUBSET rest
    BY <1>3
  <2> HIDE DEF rest
  <2>2. IsFiniteSet(page) /\ Cardinality(page) <= Cardinality(rest)
    BY <1>1, <2>1, FS_Subset
  <2>3. Cardinality(page) \in Nat
    BY <2>2, FS_CardinalityType
  <2> QED
    BY <1>1, <2>2, <2>3
<1>4. k \notin FeedKinds => \A e : Kept(k, rows, e)
  BY DEF Kept
<1>5. \A page, next : Answer(page, next).page = page /\ Answer(page, next).next = next
  BY DEF Answer
<1>6. CASE k \in {"friends", "receivedRequests", "sentRequests", "gatherings", "allGatherings",
                  "ended", "unwritten", "invitations", "notifications"}
  <2>1. Answers(k, rows, c, n)
            = {Answer(Page(k, rows, c, n), NextCursor(Page(k, rows, c, n), Direction(k), n))}
    BY <1>6, FriendAnswersAre, GatheringAnswersAre, ReceivedAnswersAre, NotificationAnswersAre
  <2>2. k \notin FeedKinds
    BY <1>6 DEF FeedKinds
  <2> QED
    BY <1>2, <1>4, <1>5, <2>1, <2>2
<1>7. CASE k \in FeedKinds
  <2>1. KeptPage(k, rows, c, n) = {e \in rest : Kept(k, rows, e)}
    BY <1>2, <1>7 DEF KeptPage, Kept
  <2> QED
    BY <1>5, <1>7, <2>1, FeedAnswersAre
<1>8. CASE k = "comments"
  <2>1. k \notin FeedKinds
    BY <1>8 DEF FeedKinds
  <2> QED
    BY <1>4, <1>5, <1>8, <2>1, CommentAnswersAre
<1>9. CASE k = "sentInvitations"
  <2>1. k \notin FeedKinds /\ (\A e : ~CutShort(k, rows, c, e)) /\ Answers(k, rows, c, n) # {}
    <3>1. k \notin FeedKinds /\ \A e : ~CutShort(k, rows, c, e)
      BY <1>9 DEF FeedKinds, CutShort
    <3>2. Answers(k, rows, c, n) = ReadSent(rows, Edge(k), c, n)
      BY <1>9 DEF Answers, InvitationAnswers
    <3>3. FindSentBySenderId(rows, Edge(k), c, n) = rest
      <4>1. Found(k, rows) = {g \in DOMAIN rows : rows[g].unanswered /\ rows[g].state # "deleted"}
        BY <1>9 DEF Found, Table
      <4>2. EntriesOf(k, rows) = Dated(rows,
                {g \in DOMAIN rows : rows[g].unanswered /\ rows[g].state # "deleted"})
        BY <1>9, <4>1, EntriesAre DEF Dated
      <4>3. /\ rest = {e \in EntriesOf(k, rows) :
                    Before("DESC", c, e) \/ (c.at = Edge(k) /\ e.at = Edge(k))}
            /\ Direction(k) = "DESC"
        BY <1>9 DEF Rest, Ahead, EdgeKinds, Direction, UserKinds
      <4> QED
        BY <1>2, <4>2, <4>3 DEF FindSentBySenderId, AfterOrAt, Page
    <3>4. ReadSent(rows, Edge(k), c, n) = {Answer(rest, None)}
      <4> HIDE DEF rest
      <4> QED
        BY <1>1, <3>3 DEF ReadSent
    <3> QED
      BY <3>1, <3>2, <3>4
  <2>2. PICK answer \in Answers(k, rows, c, n) : TRUE
    BY <2>1
  <2>3. IsAnswer(k, rows, c, n, answer)
    BY <1>1, AnswersArePages
  <2>4. answer.next = None
    <3>1. answer.page \subseteq rest
      BY <2>3 DEF IsAnswer
    <3>2. answer.next # None => n <= Cardinality(answer.page)
      BY <1>9, <2>3 DEF IsAnswer, EdgeKinds
    <3> HIDE DEF rest
    <3> QED
      BY <1>1, <1>3, <3>1, <3>2
  <2> QED
    BY <1>4, <2>1, <2>3, <2>4 DEF IsAnswer
<1>10. CASE k = "groups"
  <2> DEFINE page == FindGroupsByUserId(rows, c, n)
             answer == Answer(page, GroupCursor(page, n))
  <2>1. answer \in Answers(k, rows, c, n)
    BY <1>10 DEF Answers, GroupAnswers, ReadGroups
  <2>2. k \notin FeedKinds /\ \A e : ~CutShort(k, rows, c, e)
    BY <1>10 DEF FeedKinds, CutShort
  <2>3. answer.page = page /\ answer.next = GroupCursor(page, n)
    BY <1>5
  <2> HIDE DEF page, answer
  <2>4. IsAnswer(k, rows, c, n, answer)
    BY <1>1, <2>1, AnswersArePages
  <2>5. page \subseteq rest
    BY <2>3, <2>4 DEF IsAnswer
  <2>6. answer.next = None
    BY <1>1, <1>3, <2>3, <2>5 DEF GroupCursor
  <2> QED
    BY <1>4, <2>1, <2>2, <2>4, <2>6 DEF IsAnswer
<1>11. CASE k = "search"
  <2> DEFINE page == FindByAccountIdContaining(rows, c, n)
             Below(e) == {d \in Copies(rows, rest) : Before("ASC", d[1], e)}
  <2>1. /\ page = {e \in rest : Cardinality(Below(e)) < n}
        /\ Answers(k, rows, c, n) = {Answer(page, UserCursor(Copies(rows, page), page, n))}
    BY <1>11, SearchPageIs
  <2>2. /\ IsFiniteSet(Copies(rows, rest)) /\ Cardinality(Copies(rows, rest)) \in Nat
        /\ Cardinality(Copies(rows, rest)) <= n
    <3>1. /\ IsFiniteSet(Copies(rows, rest)) /\ Cardinality(Copies(rows, rest)) \in Nat
          /\ Cardinality(Copies(rows, rest)) <= 2 * Cardinality(rest)
      BY <1>1, CopiesFinite
    <3> HIDE DEF rest
    <3> QED
      BY <1>1, <3>1, Constants
  <2>3. ASSUME NEW e \in rest PROVE Cardinality(Below(e)) < n
    <3>1. <<e, 1>> \in Copies(rows, rest)
      BY <2>3 DEF Copies
    <3>2. <<e, 1>> \notin Below(e)
      BY <1>1, <2>3, BeforeIsOrder
    <3>3. Below(e) \in SUBSET Copies(rows, rest) /\ Below(e) # Copies(rows, rest)
      BY <3>1, <3>2
    <3> HIDE DEF Below, rest
    <3>4. /\ IsFiniteSet(Below(e)) /\ Cardinality(Below(e)) <= Cardinality(Copies(rows, rest))
          /\ Cardinality(Below(e)) # Cardinality(Copies(rows, rest))
      BY <2>2, <3>3, FS_Subset
    <3>5. Cardinality(Below(e)) \in Nat
      BY <3>4, FS_CardinalityType
    <3> QED
      BY <1>1, <2>2, <3>4, <3>5
  <2>4. k \notin FeedKinds
    BY <1>11 DEF FeedKinds
  <2> HIDE DEF Below
  <2>5. page = rest
    BY <2>1, <2>3
  <2> QED
    BY <1>4, <1>5, <2>1, <2>4, <2>5
<1> QED
  BY <1>6, <1>7, <1>8, <1>9, <1>10, <1>11 DEF Kind, UserKinds, GatheringKinds

\* From a cursor before all dates, everything is ahead.
LEMMA AllAhead ==
    ASSUME NEW k \in Kind, NEW rows \in Table(k), NEW c \in Rows,
           c.at = IF Direction(k) = "ASC" THEN 0 ELSE LastDate + 1
    PROVE  Rest(k, rows, c) = EntriesOf(k, rows)
<1> SUFFICES ASSUME NEW i \in Found(k, rows) PROVE Ahead(k, rows, c, Entry(k, rows, i))
  BY DEF Rest, EntriesOf
<1> DEFINE e == Entry(k, rows, i)
<1>1. i \in 1..N
  BY FoundRows
<1>2. /\ rows[i].at \in Date /\ e.at \in Date /\ (k = "groups" => e.id = i)
  BY <1>1, RowDates, EntryIndex DEF Entries
<1> HIDE DEF e
<1>3. /\ Direction(k) \in {"ASC", "DESC"}
      /\ k = "groups" \/ k = "invitations" => Direction(k) = "DESC"
  BY DEF Direction, UserKinds
<1>4. Before(Direction(k), c, e)
  BY <1>2, <1>3, Constants DEF Before, Date
<1>5. CASE k = "groups"
  BY <1>2, <1>3, <1>5, Constants DEF Ahead, EdgeKinds, Date, e
<1>6. CASE k = "invitations"
  BY <1>2, <1>3, <1>6, Constants DEF Ahead, EdgeKinds, Date, e
<1>7. CASE k \notin {"groups", "invitations"}
  BY <1>4, <1>7 DEF Ahead, e
<1> QED
  BY <1>5, <1>6, <1>7

\* A list shows the rows its query finds, but for the feeds of writers who have
\* withdrawn.
LEMMA ListingIs ==
    ASSUME NEW k \in Kind, NEW rows \in Table(k)
    PROVE  Listing(k, rows) = {e \in EntriesOf(k, rows) : Kept(k, rows, e)}
<1> DEFINE c == RowAt(IF Direction(k) = "ASC" THEN 0 ELSE LastDate + 1, 0)
<1>1. c \in Rows /\ c.at = IF Direction(k) = "ASC" THEN 0 ELSE LastDate + 1
  BY Constants DEF RowAt, Rows, Direction
<1>2. Listing(k, rows) = UNION {answer.page : answer \in Answers(k, rows, c, 2 * N)}
  BY DEF Listing
<1> HIDE DEF c
<1>3. Rest(k, rows, c) = EntriesOf(k, rows)
  BY <1>1, AllAhead
<1>4. 2 * N \in Nat \ {0}
  BY Constants
<1>5. \A answer \in Answers(k, rows, c, 2 * N) : \A e :
        e \in answer.page => e \in EntriesOf(k, rows) /\ Kept(k, rows, e)
  BY <1>3, <1>4, AnswersArePages DEF IsAnswer
<1>6. \E answer \in Answers(k, rows, c, 2 * N) :
        answer.page = {e \in EntriesOf(k, rows) : Kept(k, rows, e)}
  BY <1>3, <1>4, LargePage
<1> QED
  BY <1>2, <1>5, <1>6
-----------------------------------------------------------------------------
(* The invariant *)

\* Ahead, list by list.
LEMMA AheadIs ==
    ASSUME NEW k, NEW rows, NEW c, NEW e
    PROVE  /\ k \in EdgeKinds => (Ahead(k, rows, c, e) <=>
                Before(Direction(k), c, e) \/ (c.at = Edge(k) /\ e.at = Edge(k)))
           /\ k = "invitations" => (Ahead(k, rows, c, e) <=>
                e.at < c.at \/ (e.at = c.at /\ (c.at = Edge(k) \/ Index(k, e) > c.id)))
           /\ k = "groups" => (Ahead(k, rows, c, e) <=> rows[e.id].at < c.at)
           /\ k = "comments" => Ahead(k, rows, c, e)
           /\ k \notin EdgeKinds \cup {"invitations", "groups", "comments"} =>
                (Ahead(k, rows, c, e) <=> Before(Direction(k), c, e))
  BY DEF Ahead, EdgeKinds

\* The first page is asked for with a cursor that has every entry ahead, but for
\* feeds at the edge of their range.
LEMMA FirstAhead ==
    ASSUME NEW k \in Kind, NEW rows \in Table(k), NEW e \in EntriesOf(k, rows)
    PROVE  \/ Ahead(k, rows, FirstCursor(k), e)
           \/ k \in {"feeds", "feedsAscending", "ownFeeds"} /\ e.at = Edge(k)
<1> DEFINE c == FirstCursor(k)
<1>1. PICK i \in 1..N : e = Entry(k, rows, i)
  BY FoundRows DEF EntriesOf
<1>2. /\ rows[i].at \in Date /\ e.at \in Date
      /\ k = "groups" => e.id = i
  BY <1>1, RowDates, EntryIndex DEF Entries
<1>3. CASE k \in UserKinds
  <2>1. c.at = 0 /\ Direction(k) = "ASC"
    BY <1>3 DEF FirstCursor, RowAt, Direction, UserKinds
  <2>2. Before(Direction(k), c, e)
    BY <1>2, <2>1, Constants DEF Before, Date
  <2> QED
    BY <1>3, <2>2 DEF Ahead, EdgeKinds, UserKinds
<1>4. CASE k \in {"unwritten", "groups", "blockedFeeds", "comments", "notifications"}
  <2>1. c.at = LastDate + 1 /\ Direction(k) = "DESC"
    BY <1>4 DEF FirstCursor, RowAt, Direction, UserKinds
  <2>2. Before(Direction(k), c, e) /\ rows[i].at < c.at
    BY <1>2, <2>1, Constants DEF Before, Date
  <2> QED
    BY <1>2, <1>4, <2>2 DEF Ahead, EdgeKinds
<1>5. CASE k \in EdgeKinds \cup {"invitations", "feeds", "feedsAscending", "ownFeeds"}
  <2>1. c.at = Edge(k) /\ Edge(k) = IF Direction(k) = "ASC" THEN 1 ELSE LastDate
    BY <1>5 DEF FirstCursor, RowAt, Direction, UserKinds, Edge, EdgeKinds
  <2>2. Before(Direction(k), c, e) \/ e.at = Edge(k)
    BY <1>2, <2>1, Constants DEF Before, Date
  <2>3. k = "invitations" => Direction(k) = "DESC"
    BY DEF Direction, UserKinds
  <2>4. CASE k = "invitations"
    BY <1>2, <2>1, <2>2, <2>3, <2>4, AheadIs, Constants DEF Before, Date
  <2>5. CASE k \in EdgeKinds
    BY <2>1, <2>2, <2>5, AheadIs
  <2>6. CASE k \in {"feeds", "feedsAscending", "ownFeeds"}
    BY <2>2, <2>6, AheadIs DEF EdgeKinds
  <2> QED
    BY <1>5, <2>4, <2>5, <2>6
<1> QED
  BY <1>3, <1>4, <1>5 DEF Kind, UserKinds, GatheringKinds, FeedKinds, EdgeKinds

\* Rows a walk begins with are well formed.
LEMMA InitiallyWellFormed ==
    ASSUME NEW k \in Kind, NEW w \in Initially(k)
    PROVE  /\ w \in RowOf(k) /\ WellFormed(k, w)
           /\ k \in GatheringKinds => w.state \in {"open", "ended"}
<1>1. PICK s \in Sample(k) :
        /\ w \in RowOf(k) /\ WellFormed(k, w)
        /\ \A f \in DOMAIN w \ {"at", "latest"} : w[f] = s[f]
  BY DEF Initially
<1>2. ASSUME k \in GatheringKinds PROVE w.state \in {"open", "ended"}
  <2>1. "state" \in DOMAIN w
    <3>1. w \in Gathering(Date)
      BY <1>1, <1>2, RowOfKind
    <3> QED
      BY <3>1 DEF Gathering
  <2>2. s.state \in {"open", "ended"}
    BY <1>1, <1>2 DEF Sample, GatheringKinds
  <2> QED
    BY <1>1, <2>1, <2>2
<1> QED
  BY <1>1, <1>2
\* All a list shows is an entry of one of its rows.
LEMMA ListedRows ==
    ASSUME NEW k \in Kind, NEW rows \in Table(k)
    PROVE  /\ Listing(k, rows) \subseteq EntriesOf(k, rows)
           /\ Listing(k, rows) \subseteq Entries
           /\ IsFiniteSet(Listing(k, rows))
<1>1. Listing(k, rows) \in SUBSET EntriesOf(k, rows)
  BY ListingIs
<1> QED
  BY <1>1, EntriesFinite, FS_Subset

\* A walk begins with the invariant.
LEMMA InitInvariant == Init => IInv
<1> SUFFICES ASSUME Init PROVE IInv
  OBVIOUS
<1> USE DEF Init
<1>1. row \in Table(kind) /\ kind \in Kind
  BY InitiallyWellFormed DEF Table
<1>2. TypeOK
  <2>1. Smooth(kind, limit, row, Listing(kind, row)) \in BOOLEAN
    BY DEF Smooth
  <2>2. calm \in BOOLEAN
    BY <2>1
  <2>3. changes \in 0..MaxChanges
    BY Constants
  <2> QED
    BY <1>1, <2>2, <2>3, ListedRows DEF TypeOK, Table
<1>3. RowsWellFormed
  <2> SUFFICES ASSUME NEW i \in 1..N
               PROVE  /\ WellFormed(kind, row[i])
                      /\ kind \in GatheringKinds /\ row[i].state = "deleted"
                            => row[i].status = "NONE" /\ ~row[i].unanswered
    BY DEF RowsWellFormed
  <2>1. row[i] \in Initially(kind)
    OBVIOUS
  <2> QED
    BY <2>1, InitiallyWellFormed
<1>4. ListedNow /\ CursorShown
  BY DEF ListedNow, CursorShown
<1>5. StayedIsAhead
  <2> SUFFICES ASSUME NEW e \in stayed
               PROVE  Excused(e) \/ (~over /\ Ahead(kind, row, Cursor, e))
    BY DEF StayedIsAhead
  <2>1. e \in EntriesOf(kind, row)
    BY <1>1, ListedRows
  <2>2. Cursor = FirstCursor(kind)
    BY DEF Cursor
  <2> QED
    BY <1>1, <2>1, <2>2, FirstAhead DEF Excused
<1>6. CalmKept
  <2>1. calm => Smooth(kind, limit, row, listed)
    OBVIOUS
  <2> QED
    BY <2>1 DEF CalmKept
<1> QED
  BY <1>2, <1>3, <1>4, <1>5, <1>6 DEF IInv

\* What a change leaves of a row.
LEMMA ChangedIs ==
    ASSUME NEW k \in Kind, NEW w \in RowOf(k), NEW v \in Changed(k, w),
           k \in GatheringKinds /\ w.state = "deleted" => w.status = "NONE" /\ ~w.unanswered
    PROVE  /\ v \in RowOf(k) /\ WellFormed(k, v)
           /\ v.at # w.at => k \in {"gatherings", "allGatherings"}
           /\ k \in FeedKinds /\ w.writer = "withdrawn" => v.writer = "withdrawn"
           /\ k \in GatheringKinds /\ v.state = "deleted" => v.status = "NONE" /\ ~v.unanswered
<1>1. /\ v \in RowOf(k) /\ WellFormed(k, v)
      /\ v.at # w.at => k \in {"gatherings", "allGatherings"}
      /\ k \in FeedKinds /\ w.writer = "withdrawn" => v.writer = "withdrawn"
      /\ k \in GatheringKinds => w.state # "deleted"
  BY DEF Changed
<1>2. ASSUME k \in GatheringKinds, v.state = "deleted"
      PROVE  v.status = "NONE" /\ ~v.unanswered
  <2>1. w \in Gathering(Date)
    BY <1>2, RowOfKind
  <2>2. \/ \E f \in DOMAIN w \ {"state"} : \E x : v = [w EXCEPT ![f] = x]
        \/ v = [w EXCEPT !.state = "ended"]
        \/ v = [w EXCEPT !.state = "deleted", !.status = "NONE", !.unanswered = FALSE]
    BY DEF Changed
  <2>3. "state" \in DOMAIN w /\ "status" \in DOMAIN w /\ "unanswered" \in DOMAIN w
    BY <2>1 DEF Gathering
  <2>4. CASE \E f \in DOMAIN w \ {"state"} : \E x : v = [w EXCEPT ![f] = x]
    BY <1>1, <1>2, <2>1, <2>4 DEF Gathering
  <2>5. CASE v = [w EXCEPT !.state = "ended"]
    BY <1>2, <2>1, <2>5 DEF Gathering
  <2>6. CASE v = [w EXCEPT !.state = "deleted", !.status = "NONE", !.unanswered = FALSE]
    BY <2>1, <2>6 DEF Gathering
  <2> QED
    BY <2>2, <2>4, <2>5, <2>6
<1> QED
  BY <1>1, <1>2
\* Others' changes keep the invariant: what they leave listed is still ahead of the
\* cursor, or excused as it was.
LEMMA ChangeKeepsInvariant == IInv /\ Change => IInv'
<1> SUFFICES ASSUME IInv, Change PROVE IInv'
  OBVIOUS
<1>1. /\ TypeOK /\ RowsWellFormed /\ ListedNow /\ CursorShown /\ StayedIsAhead /\ CalmKept
  BY DEF IInv
<1>2. /\ kind' = kind /\ limit' = limit /\ calm' = calm /\ cursor' = cursor /\ over' = over
      /\ shown' = shown /\ repeated' = repeated
      /\ listed' = Listing(kind, row') /\ stayed' = stayed \cap listed'
      /\ changes' = changes + 1 /\ changes < MaxChanges
      /\ calm => Smooth(kind, limit, row', listed')
  BY DEF Change, constant
<1>3a. PICK i \in 1..N : \E w \in Changed(kind, row[i]) : row' = [row EXCEPT ![i] = w]
  BY DEF Change
<1>3. PICK w \in Changed(kind, row[i]) : row' = [row EXCEPT ![i] = w]
  BY <1>3a
<1>4. kind \in Kind /\ row \in Table(kind) /\ row[i] \in RowOf(kind)
  BY <1>1 DEF TypeOK, Table
<1>5. /\ w \in RowOf(kind) /\ WellFormed(kind, w)
      /\ w.at # row[i].at => kind \in {"gatherings", "allGatherings"}
      /\ kind \in FeedKinds /\ row[i].writer = "withdrawn" => w.writer = "withdrawn"
      /\ kind \in GatheringKinds /\ w.state = "deleted" => w.status = "NONE" /\ ~w.unanswered
  <2>1. kind \in GatheringKinds /\ row[i].state = "deleted"
            => row[i].status = "NONE" /\ ~row[i].unanswered
    BY <1>1 DEF RowsWellFormed
  <2> QED
    BY <1>4, <2>1, ChangedIs
<1>6. row' \in Table(kind)
  BY <1>3, <1>4, <1>5 DEF Table
<1>7. \A j \in 1..N : row'[j] = IF j = i THEN w ELSE row[j]
  BY <1>3, <1>4 DEF Table
<1>8. /\ kind \notin {"gatherings", "allGatherings"} => \A j \in 1..N : row'[j].at = row[j].at
      /\ kind \in FeedKinds => \A j \in 1..N :
            row[j].writer = "withdrawn" => row'[j].writer = "withdrawn"
  BY <1>5, <1>7
<1>9. TypeOK'
  <2>1. listed' \subseteq Entries
    BY <1>2, <1>4, <1>6, ListedRows
  <2>2. changes' \in 0..MaxChanges
    BY <1>1, <1>2, Constants DEF TypeOK
  <2>3. row' \in [1..N -> RowOf(kind)]
    BY <1>6 DEF Table
  <2> QED
    BY <1>1, <1>2, <2>1, <2>2, <2>3 DEF TypeOK
<1>10. RowsWellFormed'
  <2> SUFFICES ASSUME NEW j \in 1..N
               PROVE  /\ WellFormed(kind, row'[j])
                      /\ kind \in GatheringKinds /\ row'[j].state = "deleted"
                            => row'[j].status = "NONE" /\ ~row'[j].unanswered
    BY <1>2 DEF RowsWellFormed
  <2> QED
    BY <1>1, <1>5, <1>7 DEF RowsWellFormed
<1>11. ListedNow' /\ CursorShown'
  BY <1>1, <1>2 DEF ListedNow, CursorShown
<1>12. StayedIsAhead'
  <2> SUFFICES ASSUME NEW e \in stayed
               PROVE  e \in shown \/ Excused(e)' \/ (~over /\ Ahead(kind, row', Cursor, e))
    BY <1>2 DEF StayedIsAhead, Cursor
  <2>1. e \in Entries /\ shown \subseteq Entries
    BY <1>1 DEF TypeOK
  <2>2. e \in shown \/ Excused(e) \/ (~over /\ Ahead(kind, row, Cursor, e))
    BY <1>1 DEF StayedIsAhead
  <2>3. Excused(e) => Excused(e)'
    <3>1. CASE kind \in FeedKinds
      <4>1. Cursor' = Cursor
        BY <1>2 DEF Cursor
      <4>2. CutShort(kind, row, Cursor, e) => CutShort(kind, row, Cursor, e)'
        <5> SUFFICES ASSUME CutShort(kind, row, Cursor, e) PROVE CutShort(kind, row, Cursor, e)'
          OBVIOUS
        <5>1. PICK j \in 1..N : LET d == RowAt(row[j].at, j)
                                IN  /\ row[j].writer = "withdrawn"
                                    /\ Before(Direction(kind), Cursor, d)
                                    /\ d = e \/ Before(Direction(kind), d, e)
          BY DEF CutShort
        <5>2. row'[j].writer = "withdrawn" /\ row'[j].at = row[j].at
          BY <1>8, <3>1, <5>1 DEF FeedKinds
        <5>3. kind \in {"feeds", "feedsAscending", "blockedFeeds"}
          BY DEF CutShort
        <5> QED
          BY <1>2, <4>1, <5>1, <5>2, <5>3 DEF CutShort
      <4> QED
        BY <1>2, <3>1, <4>2 DEF Excused, FeedKinds
    <3>2. CASE kind = "invitations"
      BY <1>2, <3>2 DEF Excused, CutShort
    <3>3. CASE kind = "groups"
      <4>1. \A d \in Entries : d.id \in 1..N
        BY DEF Entries
      <4>2. \A d \in shown : row'[d.id].at = row[d.id].at
        BY <1>8, <2>1, <3>3, <4>1
      <4>3. row'[e.id].at = row[e.id].at
        BY <1>8, <2>1, <3>3, <4>1
      <4> QED
        BY <1>2, <3>3, <4>2, <4>3 DEF Excused, CutShort
    <3> QED
      BY <3>1, <3>2, <3>3 DEF Excused, FeedKinds, CutShort
  <2>4. Ahead(kind, row, Cursor, e) => Ahead(kind, row', Cursor, e)
    <3>1. CASE kind = "groups"
      <4>1. row'[e.id].at = row[e.id].at
        BY <1>8, <2>1, <3>1 DEF Entries
      <4> QED
        BY <3>1, <4>1, AheadIs
    <3>2. CASE kind # "groups"
      BY <3>2, AheadIs
    <3> QED
      BY <3>1, <3>2
  <2> QED
    BY <2>2, <2>3, <2>4
<1>13. CalmKept'
  <2>1. calm' => Smooth(kind, limit, row, listed)'
    BY <1>2 DEF Smooth
  <2> QED
    BY <1>1, <1>2, <2>1 DEF CalmKept
<1> QED
  BY <1>9, <1>10, <1>11, <1>12, <1>13 DEF IInv
\* Entries of a list are told apart by their ids.
LEMMA EntryOfId ==
    ASSUME NEW k \in Kind, NEW rows \in Table(k),
           NEW d \in EntriesOf(k, rows), NEW e \in EntriesOf(k, rows)
    PROVE  /\ d.id = e.id => d = e
           /\ k = "groups" => d.at = rows[d.id].latest
<1>1. PICK i \in 1..N : d = Entry(k, rows, i)
  BY FoundRows DEF EntriesOf
<1>2. PICK j \in 1..N : e = Entry(k, rows, j)
  BY FoundRows DEF EntriesOf
<1>3. d.id = e.id => i = j
  BY <1>1, <1>2, EntryIndex, Constants
<1> QED
  BY <1>1, <1>2, <1>3, EntryIndex

\* The next page leaves what is not on it ahead of the new cursor, but for entries
\* the cursor does not tell from the last one.
LEMMA PageLeavesAhead ==
    ASSUME NEW k \in Kind, NEW rows \in Table(k), NEW c, NEW answer, NEW n,
           IsAnswer(k, rows, c, n, answer), answer.next # None,
           NEW e \in Rest(k, rows, c) \ answer.page,
           k = "groups" => \A i \in 1..N : WellFormed(k, rows[i])
    PROVE  \/ Ahead(k, rows, answer.next, e)
           \/ /\ k \in {"invitations", "groups"}
              /\ \E d \in answer.page : d.id # e.id /\ IF k = "groups"
                                                   THEN rows[d.id].at = rows[e.id].at
                                                   ELSE d.at = e.at
<1>1. PICK last \in answer.page : IsLast(k, answer.page, last, answer.next)
  BY DEF IsAnswer
<1>2. Earlier(k, rows, last, e)
  BY DEF IsAnswer
<1>3. last \in EntriesOf(k, rows) /\ e \in EntriesOf(k, rows) /\ last.id # e.id
  <2>1. last \in Rest(k, rows, c)
    BY DEF IsAnswer
  <2> QED
    BY <2>1, EntryOfId DEF Rest
<1>4. last \in Entries /\ e \in Entries
  BY <1>3, EntriesFinite
<1>5. CASE k = "groups"
  <2>1. answer.next.at = last.at /\ last.at = rows[last.id].latest
    BY <1>1, <1>3, <1>5, EntryOfId DEF IsLast
  <2>2. rows[last.id].at >= rows[e.id].at
    BY <1>2, <1>5 DEF Earlier
  <2>3. /\ rows[last.id].latest >= rows[last.id].at
        /\ rows[last.id].at \in Date /\ rows[last.id].latest \in Date /\ rows[e.id].at \in Date
    BY <1>4, <1>5, RowDates DEF WellFormed, Entries
  <2>4. rows[e.id].at < answer.next.at \/ rows[last.id].at = rows[e.id].at
    BY <2>1, <2>2, <2>3, Constants DEF Date
  <2> QED
    BY <1>3, <1>5, <2>4, AheadIs
<1>6. CASE k # "groups"
  <2>1. answer.next = last /\ Before(Direction(k), last, e)
    BY <1>1, <1>2, <1>6 DEF IsLast, Earlier
  <2>2. CASE k = "invitations"
    <3>1. e.at < last.at \/ last.at = e.at
      BY <2>1, <2>2 DEF Before, Direction, UserKinds
    <3> QED
      BY <1>3, <2>1, <2>2, <3>1, AheadIs
  <2>3. CASE k # "invitations"
    BY <1>6, <2>1, <2>3, AheadIs
  <2> QED
    BY <2>2, <2>3
<1> QED
  BY <1>5, <1>6

\* A page is what the list shows now.
LEMMA PageIsListed ==
    ASSUME NEW k \in Kind, NEW rows \in Table(k), NEW c, NEW answer, NEW n,
           IsAnswer(k, rows, c, n, answer)
    PROVE  answer.page \subseteq Listing(k, rows)
  BY ListingIs DEF IsAnswer, Rest

\* The last entry of a full page in a calm list is not at the edge of the range: the
\* rows there are fewer than a page.
LEMMA LastNotAtEdge ==
    ASSUME NEW k \in EdgeKinds \cup {"invitations"}, NEW rows \in Table(k), NEW c, NEW answer,
           NEW n \in Nat, IsAnswer(k, rows, c, n, answer), answer.next # None,
           Cardinality({e \in Listing(k, rows) : e.at = Edge(k)}) < n
    PROVE  answer.next.at # Edge(k)
<1> DEFINE atEdge == {e \in Listing(k, rows) : e.at = Edge(k)}
<1>1. k \in Kind /\ k # "groups"
  BY DEF Kind, EdgeKinds, GatheringKinds
<1>2. PICK last \in answer.page : IsLast(k, answer.page, last, answer.next)
  BY DEF IsAnswer
<1>3. answer.next = last
  BY <1>1, <1>2 DEF IsLast
<1>4. answer.page \subseteq Listing(k, rows) /\ Listing(k, rows) \subseteq Entries
  BY <1>1, PageIsListed, ListedRows
<1>5. IsFiniteSet(atEdge)
  <2>1. atEdge \in SUBSET Listing(k, rows)
    OBVIOUS
  <2> QED
    BY <1>1, <2>1, ListedRows, FS_Subset
<1>6. SUFFICES ASSUME last.at = Edge(k) PROVE FALSE
  BY <1>3
<1>7. ASSUME NEW e \in answer.page PROVE e.at = Edge(k)
  <2>1. e.at \in Date /\ last.at \in Date
    BY <1>2, <1>4 DEF Entries
  <2>2. e = last \/ Before(Direction(k), e, last) \/ e.at = last.at
    BY <1>2 DEF IsLast
  <2>3. Edge(k) = IF Direction(k) = "ASC" THEN 1 ELSE LastDate
    BY DEF Edge, Direction, UserKinds, EdgeKinds
  <2> QED
    BY <1>6, <2>1, <2>2, <2>3, Constants DEF Before, Date
<1>8. answer.page \in SUBSET atEdge
  BY <1>4, <1>7
<1>9. n <= Cardinality(answer.page)
  BY DEF IsAnswer
<1> HIDE DEF atEdge
<1>10. IsFiniteSet(answer.page) /\ Cardinality(answer.page) <= Cardinality(atEdge)
  BY <1>5, <1>8, FS_Subset
<1>11. Cardinality(answer.page) \in Nat /\ Cardinality(atEdge) \in Nat
  BY <1>5, <1>10, FS_CardinalityType
<1> QED
  BY <1>9, <1>10, <1>11 DEF atEdge
\* A page keeps the invariant.
LEMMA FetchKeepsInvariant == IInv /\ Fetch => IInv'
<1> SUFFICES ASSUME IInv, Fetch PROVE IInv'
  OBVIOUS
<1>1. TypeOK /\ RowsWellFormed /\ ListedNow /\ CursorShown /\ StayedIsAhead /\ CalmKept
  BY DEF IInv
<1>2. /\ ~over /\ kind' = kind /\ limit' = limit /\ calm' = calm /\ row' = row
      /\ changes' = changes /\ listed' = listed /\ stayed' = stayed
  BY DEF Fetch, constant
<1>3. PICK answer \in Answers(kind, row, Cursor, limit) :
        /\ shown' = shown \cup answer.page
        /\ repeated' = (repeated \/ answer.page \cap shown # {})
        /\ over' = (answer.next = None)
        /\ cursor' = IF answer.next = None THEN cursor ELSE answer.next
  BY DEF Fetch, Cursor
<1>4. kind \in Kind /\ row \in Table(kind) /\ limit \in Nat \ {0}
  BY <1>1, Constants DEF TypeOK, Table
<1>5. IsAnswer(kind, row, Cursor, limit, answer)
  BY <1>3, <1>4, AnswersArePages
<1>6. listed = Listing(kind, row)
  BY <1>1 DEF ListedNow
<1>7. /\ answer.page \subseteq listed /\ listed \subseteq EntriesOf(kind, row)
      /\ listed \subseteq Entries /\ stayed \subseteq listed /\ shown \subseteq Entries
  BY <1>1, <1>4, <1>5, <1>6, PageIsListed, ListedRows DEF TypeOK
<1>8. answer.next # None => \E last \in answer.page : IsLast(kind, answer.page, last, answer.next)
  BY <1>5 DEF IsAnswer
<1>9. TypeOK'
  <2>1. answer.next # None => answer.next \in [at : Date, id : 0..N]
    <3>1. ASSUME NEW last \in Entries
          PROVE  /\ last \in [at : Date, id : 0..N]
                 /\ [at |-> last.at, id |-> 0] \in [at : Date, id : 0..N]
      BY Constants DEF Entries
    <3> QED
      BY <1>7, <1>8, <3>1 DEF IsLast
  <2>2. cursor' \in {None} \cup [at : Date, id : 0..N]
    BY <1>1, <1>3, <2>1 DEF TypeOK
  <2>3. over' \in BOOLEAN /\ repeated' \in BOOLEAN /\ shown' \subseteq Entries
    BY <1>3, <1>7
  <2> QED
    BY <1>1, <1>2, <2>2, <2>3 DEF TypeOK
<1>10. RowsWellFormed' /\ ListedNow'
  BY <1>1, <1>2 DEF RowsWellFormed, ListedNow
<1>11. CursorShown'
  <2>1. CASE answer.next = None
    BY <1>1, <1>2, <1>3, <2>1 DEF CursorShown
  <2>2. CASE answer.next # None
    <3>0. kind # "comments"
      BY <1>3, <1>4, <2>2, CommentAnswersAre DEF Answer
    <3>1. PICK last \in answer.page : IsLast(kind, answer.page, last, answer.next)
      BY <1>8, <2>2
    <3>2. cursor' = answer.next /\ last \in shown'
      BY <1>3, <2>2
    <3> QED
      BY <1>2, <3>0, <3>1, <3>2 DEF CursorShown, IsLast
  <2> QED
    BY <2>1, <2>2
<1>12. StayedIsAhead'
  <2> SUFFICES ASSUME NEW e \in stayed
               PROVE  e \in shown' \/ Excused(e)' \/ (~over' /\ Ahead(kind, row, Cursor', e))
    BY <1>2 DEF StayedIsAhead
  <2>1. e \in shown \/ Excused(e) \/ Ahead(kind, row, Cursor, e)
    BY <1>1 DEF StayedIsAhead
  <2>2. Excused(e) => Excused(e)'
    BY <1>2, <1>3 DEF Excused
  <2>3. ASSUME e \notin answer.page, Ahead(kind, row, Cursor, e), ~Excused(e)
        PROVE  Excused(e)' \/ (~over' /\ Ahead(kind, row, Cursor', e))
    <3>1. e \in Rest(kind, row, Cursor) \ answer.page
      BY <1>7, <2>3 DEF Rest
    <3>2. CASE answer.next = None
      <4>1. CutShort(kind, row, Cursor, e)
        BY <1>5, <3>1, <3>2 DEF IsAnswer
      <4>2. over' /\ Cursor' = Cursor
        BY <1>2, <1>3, <3>2 DEF Cursor
      <4> QED
        BY <1>2, <4>1, <4>2 DEF Excused, CutShort
    <3>3. CASE answer.next # None
      <4>1. ~over' /\ Cursor' = answer.next
        BY <1>2, <1>3, <3>3 DEF Cursor
      <4>2. kind = "groups" => \A i \in 1..N : WellFormed(kind, row[i])
        BY <1>1 DEF RowsWellFormed
      <4>3. \/ Ahead(kind, row, answer.next, e)
            \/ /\ kind \in {"invitations", "groups"}
               /\ \E d \in answer.page : d.id # e.id /\ IF kind = "groups"
                                                    THEN row[d.id].at = row[e.id].at
                                                    ELSE d.at = e.at
        BY <1>4, <1>5, <3>1, <3>3, <4>2, PageLeavesAhead
      <4> QED
        BY <1>2, <1>3, <4>1, <4>3 DEF Excused
    <3> QED
      BY <3>2, <3>3
  <2> QED
    BY <1>3, <2>1, <2>2, <2>3
<1>13. CalmKept'
  <2> SUFFICES ASSUME calm
               PROVE  /\ Smooth(kind, limit, row, listed)'
                      /\ cursor' # None /\ kind \in EdgeKinds \cup {"invitations"}
                            => cursor'.at # Edge(kind)
                      /\ kind = "invitations" => \A e \in shown' : N + 1 - e.id <= e.id
    BY <1>2 DEF CalmKept
  <2>1. /\ Smooth(kind, limit, row, listed)
        /\ cursor # None /\ kind \in EdgeKinds \cup {"invitations"} => cursor.at # Edge(kind)
        /\ kind = "invitations" => \A e \in shown : N + 1 - e.id <= e.id
    BY <1>1 DEF CalmKept
  <2>2. Smooth(kind, limit, row, listed)'
    <3>1. listed \cup shown' = listed \cup shown
      BY <1>3, <1>7
    <3> QED
      BY <1>2, <2>1, <3>1 DEF Smooth
  <2>3. ASSUME cursor' # None, kind \in EdgeKinds \cup {"invitations"}
        PROVE  cursor'.at # Edge(kind)
    <3>1. CASE answer.next = None
      BY <1>3, <2>1, <2>3, <3>1
    <3>2. CASE answer.next # None
      <4>1. Cardinality({e \in listed : e.at = Edge(kind)}) < limit
        BY <2>1, <2>3 DEF Smooth, EdgeKinds
      <4>2. answer.next.at # Edge(kind)
        BY <1>4, <1>5, <1>6, <2>3, <3>2, <4>1, LastNotAtEdge
      <4> QED
        BY <1>3, <3>2, <4>2
    <3> QED
      BY <3>1, <3>2
  <2>4. ASSUME kind = "invitations", NEW e \in shown' PROVE N + 1 - e.id <= e.id
    <3>1. \A d \in listed : ParticipationId(row, d.id) <= d.id
      BY <2>1, <2>4 DEF Smooth
    <3>2. \A j : ParticipationId(row, j) = N + 1 - j
      <4>1. DOMAIN row = 1..N /\ Cardinality(1..N) = N
        BY <1>4, FS_Interval, Constants DEF Table
      <4> QED
        BY <4>1 DEF ParticipationId
    <3> QED
      BY <1>3, <1>7, <2>1, <2>4, <3>1, <3>2
  <2> QED
    BY <2>2, <2>3, <2>4
<1> QED
  BY <1>9, <1>10, <1>11, <1>12, <1>13 DEF IInv

\* The invariant says where the client is among the entries, whatever the number of
\* rows, of changes and the size of the pages.
THEOREM Invariance == Spec => []IInv
<1>1. Init => IInv
  BY InitInvariant
<1>2. IInv /\ [Next]_vars => IInv'
  <2> SUFFICES ASSUME IInv, [Next]_vars PROVE IInv'
    OBVIOUS
  <2>1. CASE Change
    BY <2>1, ChangeKeepsInvariant
  <2>2. CASE Fetch
    BY <2>2, FetchKeepsInvariant
  <2>3. CASE UNCHANGED vars
    BY <2>3 DEF vars, constant, IInv, TypeOK, RowsWellFormed, ListedNow, CursorShown,
                StayedIsAhead, Excused, CutShort, Cursor, CalmKept, Smooth
  <2> QED
    BY <2>1, <2>2, <2>3 DEF Next
<1> QED
  BY <1>1, <1>2, PTL DEF Spec

\* Rows, pages and cursors keep their types.
THEOREM TypesHold == Spec => []TypeOK
<1>1. IInv => TypeOK
  BY DEF IInv
<1> QED
  BY <1>1, Invariance, PTL

\* Who follows the cursors to the end of any list is shown all that was listed all the
\* time, but the excused.
THEOREM NothingIsMissed == Spec => []NothingMissed
<1>1. IInv => NothingMissed
  BY DEF IInv, StayedIsAhead, NothingMissed
<1> QED
  BY <1>1, Invariance, PTL
-----------------------------------------------------------------------------
(* The counts *)

\* But for the feeds of others, a list shows all the rows its query finds.
LEMMA SizeIs ==
    ASSUME NEW k \in Kind \ (FeedKinds \ {"ownFeeds"}), NEW rows \in Table(k)
    PROVE  /\ Listing(k, rows) = EntriesOf(k, rows)
           /\ Cardinality(Listing(k, rows)) = Cardinality(Found(k, rows))
<1>1. ASSUME NEW e \in EntriesOf(k, rows) PROVE Kept(k, rows, e)
  <2>1. PICK i \in Found(k, rows) : e = Entry(k, rows, i)
    BY DEF EntriesOf
  <2>2. i \in 1..N
    BY FoundRows
  <2>3. CASE k = "ownFeeds"
    <3>1. e.id = i
      BY <2>1, <2>2, <2>3, EntryIndex
    <3>2. rows[i].writer = "me"
      BY <2>3 DEF Found, Own
    <3> QED
      BY <3>1, <3>2 DEF Kept
  <2>4. CASE k # "ownFeeds"
    BY <2>4 DEF Kept
  <2> QED
    BY <2>3, <2>4
<1>2. Listing(k, rows) = EntriesOf(k, rows)
  BY <1>1, ListingIs
<1> QED
  BY <1>2, EntriesFinite

\* The ids shown are those of the rows found.
LEMMA IdsAre ==
    ASSUME NEW k \in Kind \ (FeedKinds \cup {"invitations"}), NEW rows \in Table(k)
    PROVE  {e.id : e \in Listing(k, rows)} = Found(k, rows)
<1>1. Listing(k, rows) = EntriesOf(k, rows)
  BY SizeIs
<1>2. \A i \in Found(k, rows) : Entry(k, rows, i).id = i
  BY FoundRows, EntryIndex
<1> QED
  BY <1>1, <1>2 DEF EntriesOf

\* Rows in a set of rows that satisfies a condition can be counted.
LEMMA SomeRows == ASSUME NEW S \in SUBSET (1..N)
                  PROVE IsFiniteSet(S) /\ Cardinality(S) \in Nat /\ Cardinality(S) <= N
<1>1. IsFiniteSet(1..N) /\ Cardinality(1..N) = N
  BY FS_Interval, Constants
<1> QED
  BY <1>1, FS_Subset, FS_CardinalityType

\* The counts of friends and requests.
LEMMA UserCountsAgree ==
    ASSUME NEW rows \in [1..N -> Peer(Date)]
    PROVE  LET Size(k) == Cardinality(Listing(k, rows))
               Ids(k) == {e.id : e \in Listing(k, rows)}
               twice == {u \in 1..N : rows[u].mine = "ACCEPTED" /\ rows[u].theirs = "ACCEPTED"}
           IN  /\ twice = {} => FriendCount(rows) = Size("friends")
               /\ FriendCount(rows) <= Size("friends") + Cardinality(twice)
               /\ CountRequest(rows) = Size("receivedRequests") + Size("sentRequests")
               /\ Ids("search") \cap Ids("friends") = {}
<1> DEFINE twice == {u \in 1..N : rows[u].mine = "ACCEPTED" /\ rows[u].theirs = "ACCEPTED"}
           asked == {u \in 1..N : rows[u].active /\ rows[u].mine = "ACCEPTED"}
           was == {u \in 1..N : rows[u].active /\ rows[u].theirs = "ACCEPTED"}
           friends == Found("friends", rows)
<1>1. \A k \in UserKinds : rows \in Table(k) /\ k \in Kind \ FeedKinds /\ k # "invitations"
  BY RowOfKind DEF Table, Kind, UserKinds, FeedKinds
<1>2. DOMAIN rows = 1..N
  OBVIOUS
<1>3. \A k \in UserKinds : /\ Cardinality(Listing(k, rows)) = Cardinality(Found(k, rows))
                           /\ {e.id : e \in Listing(k, rows)} = Found(k, rows)
  <2> SUFFICES ASSUME NEW k \in UserKinds
               PROVE  /\ Cardinality(Listing(k, rows)) = Cardinality(Found(k, rows))
                      /\ {e.id : e \in Listing(k, rows)} = Found(k, rows)
    OBVIOUS
  <2>1. rows \in Table(k) /\ k \in Kind \ (FeedKinds \ {"ownFeeds"})
            /\ k \in Kind \ (FeedKinds \cup {"invitations"})
    BY <1>1
  <2> QED
    BY <2>1, SizeIs, IdsAre
<1>4. FriendCount(rows) = Cardinality(asked) + Cardinality(was)
  BY <1>2 DEF FriendCount
<1>5. friends = asked \cup was
  BY DEF Found, IsFriend
<1>6. /\ asked \in SUBSET (1..N) /\ was \in SUBSET (1..N) /\ twice \in SUBSET (1..N)
      /\ asked \cap was \in SUBSET twice /\ asked \cap was \in SUBSET (1..N)
      /\ asked \cup was \in SUBSET (1..N)
  OBVIOUS
<1>7. CountRequest(rows) = Cardinality(Found("sentRequests", rows))
                            + Cardinality(Found("receivedRequests", rows))
  BY <1>2 DEF CountRequest, Found
<1>8. Found("search", rows) \cap friends = {}
  BY DEF Found
<1>9. "friends" \in UserKinds /\ "receivedRequests" \in UserKinds
            /\ "sentRequests" \in UserKinds /\ "search" \in UserKinds
  BY DEF UserKinds
<1>10. Cardinality(Found("sentRequests", rows)) \in Nat
            /\ Cardinality(Found("receivedRequests", rows)) \in Nat
  <2>1. Found("sentRequests", rows) \in SUBSET (1..N)
            /\ Found("receivedRequests", rows) \in SUBSET (1..N)
    BY DEF Found
  <2> QED
    BY <2>1, SomeRows
<1> HIDE DEF twice, asked, was, friends
<1>11. /\ Cardinality(friends) = Cardinality(asked) + Cardinality(was) - Cardinality(asked \cap was)
       /\ Cardinality(asked \cap was) <= Cardinality(twice)
       /\ Cardinality(asked) \in Nat /\ Cardinality(was) \in Nat /\ Cardinality(twice) \in Nat
       /\ Cardinality(asked \cap was) \in Nat
  BY <1>5, <1>6, SomeRows, FS_Union, FS_Subset
<1>12. twice = {} => Cardinality(twice) = 0
  BY FS_EmptySet
<1>13. /\ twice = {} => FriendCount(rows) = Cardinality(friends)
       /\ FriendCount(rows) <= Cardinality(friends) + Cardinality(twice)
  BY <1>4, <1>11, <1>12
<1>14. /\ Cardinality(Listing("friends", rows)) = Cardinality(friends)
       /\ {e.id : e \in Listing("search", rows)} = Found("search", rows)
       /\ {e.id : e \in Listing("friends", rows)} = friends
  BY Zenon, <1>3, <1>9 DEF friends
<1>15. /\ Cardinality(Listing("receivedRequests", rows))
                = Cardinality(Found("receivedRequests", rows))
       /\ Cardinality(Listing("sentRequests", rows)) = Cardinality(Found("sentRequests", rows))
  BY Zenon, <1>3, <1>9
<1>16. CountRequest(rows) = Cardinality(Listing("receivedRequests", rows))
                            + Cardinality(Listing("sentRequests", rows))
  BY <1>7, <1>10, <1>15
<1>17. {e.id : e \in Listing("search", rows)} \cap {e.id : e \in Listing("friends", rows)} = {}
  BY <1>8, <1>14
<1> QED
  BY <1>13, <1>14, <1>16, <1>17 DEF twice
\* The counts of groups, feeds and comments, and of what the user wrote about.
LEMMA OtherCountsAgree ==
    ASSUME NEW k \in Kind, NEW rows \in Table(k)
    PROVE  LET Size(j) == Cardinality(Listing(j, rows))
               Ids(j) == {e.id : e \in Listing(j, rows)}
           IN  /\ k = "groups" => GroupCount(rows) = Size("groups")
               /\ k = "ownFeeds" =>
                    FeedCount(rows) = Size("ownFeeds")
                                        + Cardinality({f \in Own(rows) : rows[f].hidden})
               /\ k = "ownFeeds" /\ Size("ownFeeds") > 0 => HasFeed(rows)
               /\ k = "comments" =>
                    /\ CommentCountOfDetail(rows) >= CommentCount(rows)
                    /\ CommentCount(rows) >= Size("comments")
               /\ k \in GatheringKinds =>
                    Ids("unwritten") = Ids("ended") \ IsFeedPosted(rows)
<1>1. DOMAIN rows = 1..N
  BY DEF Table
<1>2. k \in {"groups", "ownFeeds", "comments"} =>
            /\ Cardinality(Listing(k, rows)) = Cardinality(Found(k, rows))
            /\ Cardinality(Found(k, rows)) \in Nat
  BY SizeIs, EntriesFinite DEF FeedKinds
<1>3. k = "groups" => GroupCount(rows) = Cardinality(Listing("groups", rows))
  BY <1>2 DEF GroupCount, Found
<1>4. ASSUME k = "ownFeeds"
      PROVE  /\ FeedCount(rows) = Cardinality(Listing("ownFeeds", rows))
                                    + Cardinality({f \in Own(rows) : rows[f].hidden})
             /\ Cardinality(Listing("ownFeeds", rows)) > 0 => HasFeed(rows)
  <2> DEFINE hidden == {f \in Own(rows) : rows[f].hidden}
             found == Found(k, rows)
  <2>1. /\ Own(rows) \in SUBSET (1..N) /\ hidden \in SUBSET (1..N) /\ found \in SUBSET (1..N)
        /\ found \in SUBSET Own(rows)
    BY <1>1, <1>4 DEF Own, Found
  <2>2. Own(rows) = found \cup hidden /\ found \cap hidden = {}
    BY <1>4 DEF Found
  <2> HIDE DEF found, hidden
  <2>3. Cardinality(Own(rows)) = Cardinality(found) + Cardinality(hidden)
    <3>1. /\ IsFiniteSet(found) /\ IsFiniteSet(hidden) /\ Cardinality(found) \in Nat
          /\ Cardinality(hidden) \in Nat
      BY <2>1, SomeRows
    <3>2. Cardinality(found \cup hidden)
            = Cardinality(found) + Cardinality(hidden) - Cardinality(found \cap hidden)
      BY <3>1, FS_Union
    <3>3. Cardinality(found \cap hidden) = 0
      BY <2>2, FS_EmptySet
    <3> QED
      BY <2>2, <3>1, <3>2, <3>3
  <2>4. Cardinality(found) > 0 => Own(rows) # {}
    <3>1. found = {} => Cardinality(found) = 0
      BY FS_EmptySet
    <3> QED
      BY <2>1, <3>1
  <2> QED
    BY <1>2, <1>4, <2>3, <2>4 DEF found, hidden, FeedCount, HasFeed
<1>5. ASSUME k = "comments"
      PROVE  /\ CommentCountOfDetail(rows) >= CommentCount(rows)
             /\ CommentCount(rows) >= Cardinality(Listing("comments", rows))
  <2> DEFINE kept == {c \in 1..N : ~rows[c].deleted}
             found == Found(k, rows)
  <2>1. CommentCount(rows) = Cardinality(kept) /\ CommentCountOfDetail(rows) = N
    BY <1>1, FS_Interval, Constants DEF CommentCount, CommentCountOfDetail
  <2>2. kept \in SUBSET (1..N) /\ found \in SUBSET kept
    BY <1>5 DEF Found
  <2> HIDE DEF kept, found
  <2>3. Cardinality(found) <= Cardinality(kept) /\ Cardinality(kept) <= N
        /\ Cardinality(kept) \in Nat
    BY <2>2, SomeRows, FS_Subset
  <2> QED
    BY <1>2, <1>5, <2>1, <2>3, Constants DEF found
<1>6. ASSUME k \in GatheringKinds
      PROVE  {e.id : e \in Listing("unwritten", rows)}
                = {e.id : e \in Listing("ended", rows)} \ IsFeedPosted(rows)
  <2>1. /\ "unwritten" \in GatheringKinds /\ "ended" \in GatheringKinds
        /\ "unwritten" \in Kind \ (FeedKinds \cup {"invitations"})
        /\ "ended" \in Kind \ (FeedKinds \cup {"invitations"})
    BY DEF GatheringKinds, FeedKinds, Kind
  <2>2. rows \in Table("unwritten") /\ rows \in Table("ended")
    BY <1>6, <2>1, RowOfKind DEF Table
  <2>3. /\ {e.id : e \in Listing("unwritten", rows)} = Found("unwritten", rows)
        /\ {e.id : e \in Listing("ended", rows)} = Found("ended", rows)
    BY Zenon, <2>1, <2>2, IdsAre
  <2>4. Found("unwritten", rows) = Found("ended", rows) \ IsFeedPosted(rows)
    BY <1>1 DEF Found, IsFeedPosted, Joined
  <2> QED
    BY <2>3, <2>4
<1> QED
  BY <1>3, <1>4, <1>5, <1>6

\* New invitations are listed, but for those of hosts who have withdrawn.
LEMMA InvitationsAgree ==
    ASSUME NEW rows \in Table("invitations"),
           \A i \in 1..N : rows[i].state = "deleted" => rows[i].status = "NONE"
    PROVE  NewInvitationCount(rows) <= Cardinality(Listing("invitations", rows))
                + Cardinality({g \in 1..N : rows[g].host = "withdrawn"})
<1> DEFINE fresh == {g \in 1..N : rows[g].status = "PENDING" /\ ~rows[g].read}
           left == {g \in 1..N : rows[g].host = "withdrawn"}
           found == Found("invitations", rows)
<1>1. "invitations" \in Kind \ (FeedKinds \ {"ownFeeds"}) /\ "invitations" \in GatheringKinds
  BY DEF Kind, FeedKinds, GatheringKinds
<1>2. Cardinality(Listing("invitations", rows)) = Cardinality(found)
  BY Zenon, <1>1, SizeIs
<1>3. NewInvitationCount(rows) = Cardinality(fresh)
  BY DEF NewInvitationCount, Table
<1>4. found = {g \in 1..N : rows[g].status = "PENDING" /\ rows[g].state # "deleted"
                                /\ rows[g].host = "active"}
  BY DEF Found
<1>5. \A g \in 1..N : rows[g].host \in {"active", "withdrawn"}
  <2>1. \A g \in 1..N : rows[g] \in Gathering(Date)
    BY <1>1, RowOfKind DEF Table
  <2> QED
    BY <2>1 DEF Gathering
<1>6. fresh \in SUBSET (found \cup left) /\ found \in SUBSET (1..N) /\ left \in SUBSET (1..N)
  BY <1>4, <1>5
<1> HIDE DEF fresh, left, found
<1>7. /\ IsFiniteSet(found \cup left)
      /\ Cardinality(found \cup left)
            = Cardinality(found) + Cardinality(left) - Cardinality(found \cap left)
      /\ Cardinality(fresh) <= Cardinality(found \cup left)
  BY <1>6, SomeRows, FS_Union, FS_Subset
<1>8. found \cap left \in SUBSET (1..N) /\ fresh \in SUBSET (1..N)
  BY <1>6
<1>9. /\ Cardinality(found \cap left) \in Nat /\ Cardinality(fresh) \in Nat
      /\ Cardinality(found) \in Nat /\ Cardinality(left) \in Nat
  BY <1>6, <1>8, SomeRows
<1> QED
  BY <1>2, <1>3, <1>7, <1>9 DEF left

\* The counts shown beside the lists are those of the lists.
THEOREM ListsAlwaysAgree == Spec => []ListsAgree
<1>1. IInv => ListsAgree
  <2> SUFFICES ASSUME IInv PROVE ListsAgree
    OBVIOUS
  <2>1. kind \in Kind /\ row \in Table(kind)
    BY DEF IInv, TypeOK, Table
  <2>2. kind \in UserKinds => row \in [1..N -> Peer(Date)]
    BY <2>1, RowOfKind DEF Table
  <2>3. kind = "invitations" =>
            NewInvitationCount(row) <= Cardinality(Listing("invitations", row))
                + Cardinality({g \in 1..N : row[g].host = "withdrawn"})
    <3> SUFFICES ASSUME kind = "invitations"
                 PROVE  NewInvitationCount(row) <= Cardinality(Listing("invitations", row))
                            + Cardinality({g \in 1..N : row[g].host = "withdrawn"})
      OBVIOUS
    <3>1. \A i \in 1..N : row[i].state = "deleted" => row[i].status = "NONE"
      BY DEF IInv, RowsWellFormed, GatheringKinds
    <3> QED
      BY <2>1, <3>1, InvitationsAgree
  <2> QED
    BY <2>1, <2>2, <2>3, UserCountsAgree, OtherCountsAgree DEF ListsAgree
<1> QED
  BY <1>1, Invariance, PTL
-----------------------------------------------------------------------------
(* The abstract walk *)

\* Places are ordered as the list is, and tell entries apart.
LEMMA PlaceIs ==
    ASSUME NEW d \in Entries, NEW e \in Entries
    PROVE  /\ Place(d) \in Spots /\ Place(d) # <<0, 0>>
           /\ Place(d) = Place(e) => d = e
           /\ <<Place(d), Place(e)>> \in SpotOrder <=> Before(Direction(kind), d, e)
<1>1. d.at \in Date /\ e.at \in Date /\ d.id \in 1..N /\ e.id \in 1..N
  BY DEF Entries
<1>2. \A a \in Date : LastDate + 1 - a \in Date
  BY Constants DEF Date
<1>3. Place(d) \in Spots /\ Place(e) \in Spots
  BY <1>1, <1>2 DEF Place, Spots
<1>4. Place(d)[2] = d.id /\ Place(e)[2] = e.id
      /\ Place(d)[1] = (IF Direction(kind) = "ASC" THEN d.at ELSE LastDate + 1 - d.at)
      /\ Place(e)[1] = (IF Direction(kind) = "ASC" THEN e.at ELSE LastDate + 1 - e.at)
  BY DEF Place, Direction
<1>5. Place(d) # <<0, 0>>
  BY <1>1, <1>4, Constants
<1>6. Place(d) = Place(e) => d = e
  <2>1. Place(d) = Place(e) => d.at = e.at /\ d.id = e.id
    BY <1>1, <1>4, Constants DEF Date
  <2> QED
    BY <2>1, EntriesAreRows, RowsEqual
<1>7. <<Place(d), Place(e)>> \in SpotOrder <=>
        \/ Place(d)[1] < Place(e)[1]
        \/ Place(d)[1] = Place(e)[1] /\ Place(d)[2] < Place(e)[2]
  BY <1>3 DEF SpotOrder
<1>8. <<Place(d), Place(e)>> \in SpotOrder <=> Before(Direction(kind), d, e)
  BY <1>1, <1>4, <1>7, Constants DEF Before, Date
<1> QED
  BY <1>3, <1>5, <1>6, <1>8

\* The places of a list, and the one before all, are what the abstract walk asks for.
LEMMA SpotsAreOrdered == Walk!IsOrder
<1>1. <<0, 0>> \notin Spots
  BY DEF Spots, Date
<1>2. \A p, q \in Spots : <<p, q>> \in SpotOrder <=>
            p[1] < q[1] \/ (p[1] = q[1] /\ p[2] < q[2])
  BY DEF SpotOrder
<1>3. \A p \in Spots : p[1] \in Nat /\ p[2] \in Nat /\ p = <<p[1], p[2]>>
  BY Constants DEF Spots, Date
<1> QED
  BY <1>1, <1>2, <1>3 DEF Walk!IsOrder, SpotOrder

\* Of a calm list the walk shows the places.
LEMMA SpottedIs ==
    ASSUME calm, NEW S \in SUBSET Entries
    PROVE  /\ Spotted(S) \subseteq Spots
           /\ \A e \in Entries : Place(e) \in Spotted(S) <=> e \in S
           /\ \A p \in Spotted(S) : \E e \in S : p = Place(e)
  BY PlaceIs DEF Spotted

\* A cursor belongs to one entry, if no two groups shown have one date.
LEMMA CursorEntry ==
    ASSUME NEW k, NEW S \in SUBSET Entries, NEW c, NEW e \in S,
           e.at = c.at, c.id = (IF k = "groups" THEN 0 ELSE e.id),
           k = "groups" => \A a, b \in S : a.at = b.at => a = b
    PROVE  (CHOOSE d \in S : d.at = c.at /\ c.id \in {d.id, 0}) = e
<1>1. ASSUME NEW d \in S, d.at = c.at, c.id \in {d.id, 0} PROVE d = e
  <2>1. CASE k = "groups"
    BY <1>1, <2>1
  <2>2. CASE k # "groups"
    <3>1. e.id # 0 /\ c.id = e.id
      BY <2>2 DEF Entries
    <3> QED
      BY <1>1, <3>1, EntriesAreRows, RowsEqual
  <2> QED
    BY <2>1, <2>2
<1> QED
  BY <1>1

\* In a calm list the cursor tells which entry it is the cursor of.
LEMMA ReachedIs ==
    ASSUME IInv, calm, cursor # None
    PROVE  \E e \in shown :
            /\ e.at = cursor.at /\ cursor.id = (IF kind = "groups" THEN 0 ELSE e.id)
            /\ Reached = Place(e)
<1>1. TypeOK /\ CursorShown /\ CalmKept
  BY DEF IInv
<1>2. PICK e \in shown : e.at = cursor.at /\ cursor.id = (IF kind = "groups" THEN 0 ELSE e.id)
  BY <1>1 DEF CursorShown
<1>3. shown \in SUBSET Entries
  BY <1>1 DEF TypeOK
<1>4. kind = "groups" => \A a, b \in shown : a.at = b.at => a = b
  BY <1>1 DEF CalmKept, Smooth
<1>5. (CHOOSE d \in shown : d.at = cursor.at /\ cursor.id \in {d.id, 0}) = e
  BY <1>2, <1>3, <1>4, CursorEntry
<1> QED
  BY <1>2, <1>5 DEF Reached

\* In a calm list the query selects what the abstract walk has before it.
LEMMA AheadIsAfterReached ==
    ASSUME IInv, calm, NEW e \in listed
    PROVE  Ahead(kind, row, Cursor, e) <=> Walk!Precedes(Reached, Place(e))
<1>1. TypeOK /\ ListedNow /\ CursorShown /\ CalmKept
  BY DEF IInv
<1>2. kind \in Kind /\ row \in Table(kind) /\ shown \subseteq Entries /\ e \in Entries
  BY <1>1 DEF TypeOK, Table
<1>3. e \in EntriesOf(kind, row)
  BY <1>1, <1>2, ListedRows DEF ListedNow
<1>4. Smooth(kind, limit, row, listed)
  BY <1>1 DEF CalmKept
<1>5. CASE cursor = None
  <2>1. Walk!Precedes(Reached, Place(e))
    BY <1>5 DEF Walk!Precedes, Reached
  <2>2. ~(kind \in {"feeds", "feedsAscending", "ownFeeds"} /\ e.at = Edge(kind))
    BY <1>4 DEF Smooth
  <2>3. Ahead(kind, row, Cursor, e)
    BY <1>2, <1>3, <1>5, <2>2, FirstAhead DEF Cursor
  <2> QED
    BY <2>1, <2>3
<1>6. CASE cursor # None
  <2>1. PICK last \in shown :
            /\ last.at = cursor.at /\ cursor.id = (IF kind = "groups" THEN 0 ELSE last.id)
            /\ Reached = Place(last)
    BY <1>6, ReachedIs
  <2>2. Walk!Precedes(Reached, Place(e)) <=> Before(Direction(kind), last, e)
    BY <1>2, <2>1, PlaceIs DEF Walk!Precedes
  <2>3. Cursor = cursor /\ last \in Entries /\ kind # "comments"
    BY <1>1, <1>2, <1>6 DEF Cursor, CursorShown
  <2>4. kind \in {"invitations", "groups"} => (e.at = last.at => e = last)
    BY <1>4, <2>1 DEF Smooth
  <2>5. kind \in {"invitations", "groups"} => Direction(kind) = "DESC"
    BY DEF Direction, UserKinds
  <2>6. e.at \in Date /\ last.at \in Date /\ e.id \in 1..N /\ last.id \in 1..N
    BY <1>2, <2>3 DEF Entries
  <2>7. CASE kind = "groups"
    <3>1. e.at = row[e.id].latest /\ e.id \in MyGroups(row)
      <4>1. Found(kind, row) = MyGroups(row)
        BY <2>7 DEF Found
      <4>2. PICK i \in Found(kind, row) : e = Entry(kind, row, i)
        BY <1>3 DEF EntriesOf
      <4>3. i \in 1..N
        BY <1>2, FoundRows
      <4> QED
        BY <1>2, <2>7, <4>1, <4>2, <4>3, EntryIndex
    <3>2. row[e.id].at = e.at
      BY <1>4, <2>7, <3>1 DEF Smooth
    <3>3. Ahead(kind, row, Cursor, e) <=> e.at < last.at
      BY <2>1, <2>3, <2>7, <3>2, AheadIs
    <3>4. Before(Direction(kind), last, e) <=> e.at < last.at
      BY <2>4, <2>5, <2>6, <2>7, Constants DEF Before, Date
    <3> QED
      BY <2>2, <3>3, <3>4
  <2>8. CASE kind # "groups"
    <3>1. cursor.at = last.at /\ cursor.id = last.id
      BY <2>1, <2>8
    <3>2. Before(Direction(kind), cursor, e) <=> Before(Direction(kind), last, e)
      BY <3>1 DEF Before
    <3>3. kind \in EdgeKinds \cup {"invitations"} => cursor.at # Edge(kind)
      BY <1>1, <1>6 DEF CalmKept
    <3>4. CASE kind = "invitations"
      <4>1. Index(kind, last) <= last.id
        BY <1>1, <2>1, <3>4 DEF CalmKept, Index
      <4>2. e = last => ~(Index(kind, e) > last.id)
        BY <2>6, <3>4, <4>1, Constants DEF Index
      <4>3. Ahead(kind, row, Cursor, e) <=> e.at < last.at
        BY <2>3, <2>4, <3>1, <3>3, <3>4, <4>2, AheadIs
      <4>4. Before(Direction(kind), last, e) <=> e.at < last.at
        BY <2>4, <2>5, <2>6, <3>4, Constants DEF Before, Date
      <4> QED
        BY <2>2, <4>3, <4>4
    <3>5. CASE kind \in EdgeKinds
      BY <2>2, <2>3, <3>2, <3>3, <3>5, AheadIs
    <3>6. CASE kind \notin EdgeKinds \cup {"invitations"}
      BY <2>2, <2>3, <2>8, <3>2, <3>6, AheadIs
    <3> QED
      BY <3>4, <3>5, <3>6
  <2> QED
    BY <2>7, <2>8
<1> QED
  BY <1>5, <1>6
\* A walk begins where the abstract one does.
LEMMA InitRefines == IInv /\ Init => Walk!Init
<1> SUFFICES ASSUME IInv, Init PROVE Walk!Init
  OBVIOUS
<1>1. /\ stayed = listed /\ shown = {} /\ repeated = FALSE /\ cursor = None /\ over = FALSE
      /\ listed \in SUBSET Entries
  BY DEF Init, IInv, TypeOK
<1>2. Spotted(listed) \subseteq Spots
  BY <1>1, PlaceIs DEF Spotted
<1>3. Spotted(stayed) = Spotted(listed) /\ Spotted(shown) = {} /\ Reached = <<0, 0>>
  BY <1>1 DEF Spotted, Reached
<1> QED
  BY <1>1, <1>2, <1>3 DEF Walk!Init

\* What the abstract walk shows of the steps of a list.
LEMMA SpottedNext ==
    ASSUME calm' = calm, kind' = kind
    PROVE  /\ Spotted(listed)' = Spotted(listed') /\ Spotted(stayed)' = Spotted(stayed')
           /\ Spotted(shown)' = Spotted(shown')
           /\ (calm /\ repeated)' = (calm /\ repeated')
           /\ (calm /\ over)' = (calm /\ over')
  BY DEF Spotted, Place

\* Others' changes are changes of the list.
LEMMA ChangeRefines == IInv /\ IInv' /\ Change => [Walk!Next]_Walk!vars
<1> SUFFICES ASSUME IInv, IInv', Change PROVE [Walk!Next]_Walk!vars
  OBVIOUS
<1>1. /\ kind' = kind /\ calm' = calm /\ cursor' = cursor /\ over' = over
      /\ shown' = shown /\ repeated' = repeated /\ stayed' = stayed \cap listed'
  BY DEF Change, constant
<1>2. Reached' = Reached
  BY <1>1 DEF Reached, Place
<1>3. CASE ~calm
  <2>1. /\ Spotted(listed)' = Spotted(listed) /\ Spotted(stayed)' = Spotted(stayed)
        /\ Spotted(shown)' = Spotted(shown)
    BY <1>1, <1>3 DEF Spotted
  <2> QED
    BY <1>1, <1>2, <2>1 DEF Walk!vars
<1>4. CASE calm
  <2>1. listed' \in SUBSET Entries /\ stayed \in SUBSET Entries
    BY <1>1 DEF IInv, TypeOK
  <2>2. Spotted(stayed \cap listed') = Spotted(stayed) \cap Spotted(listed')
    BY <1>4, <2>1, PlaceIs DEF Spotted
  <2>3. Spotted(listed') \subseteq Spots
    BY <1>4, <2>1, SpottedIs
  <2>4. Walk!Churn
    BY <1>1, <1>2, <2>2, <2>3, SpottedNext DEF Walk!Churn
  <2> QED
    BY <2>4 DEF Walk!Next
<1> QED
  BY <1>3, <1>4
\* A page of a calm list is one of the abstract walk: it skips no entry, and is all
\* that is left if no cursor comes with it.
LEMMA PageRefines ==
    ASSUME IInv, calm, NEW answer, IsAnswer(kind, row, Cursor, limit, answer)
    PROVE  /\ Walk!IsPage(Spotted(answer.page))
           /\ answer.next = None => Spotted(answer.page) = Walk!Rest
<1>1. TypeOK /\ ListedNow /\ CalmKept
  BY DEF IInv
<1>2. kind \in Kind /\ row \in Table(kind) /\ listed \in SUBSET Entries
  BY <1>1 DEF TypeOK, Table
<1>3. /\ answer.page \in SUBSET listed /\ answer.page \in SUBSET Entries
      /\ listed \subseteq EntriesOf(kind, row)
  BY <1>1, <1>2, PageIsListed, ListedRows DEF ListedNow
<1>4. Smooth(kind, limit, row, listed)
  BY <1>1 DEF CalmKept
<1>5. \A e : ~CutShort(kind, row, Cursor, e)
  BY <1>4 DEF Smooth, CutShort
<1>6. \A e \in listed : Place(e) \in Walk!Rest <=> e \in Rest(kind, row, Cursor)
  <2> SUFFICES ASSUME NEW e \in listed
               PROVE  Place(e) \in Walk!Rest <=> e \in Rest(kind, row, Cursor)
    OBVIOUS
  <2>1. Place(e) \in Spotted(listed)
    BY DEF Spotted
  <2> QED
    BY <1>3, <2>1, AheadIsAfterReached DEF Walk!Rest, Rest
<1>7. \A p \in Walk!Rest : \E e \in listed : p = Place(e)
  BY DEF Walk!Rest, Spotted
<1>8. \A e \in answer.page : e \in Rest(kind, row, Cursor)
  BY DEF IsAnswer
<1>9. Spotted(answer.page) \subseteq Walk!Rest
  BY <1>3, <1>6, <1>8 DEF Spotted
<1>10. ASSUME NEW d \in answer.page, NEW e \in listed, e \in Rest(kind, row, Cursor),
              Before(Direction(kind), e, d)
       PROVE  e \in answer.page
  <2> SUFFICES ASSUME e \notin answer.page PROVE FALSE
    OBVIOUS
  <2>1. Earlier(kind, row, d, e)
    BY <1>5, <1>10 DEF IsAnswer
  <2>2. d \in Entries /\ e \in Entries /\ d \in listed
    BY <1>2, <1>3
  <2>3. CASE kind = "groups"
    <3>1. row[d.id].at = d.at /\ row[e.id].at = e.at
      <4> SUFFICES ASSUME NEW a \in listed PROVE row[a.id].at = a.at
        BY <2>2
      <4>1. Found(kind, row) = MyGroups(row)
        BY <2>3 DEF Found
      <4>2. PICK i \in Found(kind, row) : a = Entry(kind, row, i)
        BY <1>3 DEF EntriesOf
      <4>3. i \in 1..N
        BY <1>2, FoundRows
      <4>4. a.at = row[a.id].latest /\ a.id \in MyGroups(row)
        BY <1>2, <2>3, <4>1, <4>2, <4>3, EntryIndex
      <4> QED
        BY <1>4, <2>3, <4>4 DEF Smooth
    <3>2. d.at >= e.at
      BY <2>1, <2>3, <3>1 DEF Earlier
    <3>3. d.at = e.at => d = e
      BY <1>4, <2>2, <2>3 DEF Smooth
    <3>4. e.at > d.at \/ e.at = d.at
      BY <1>10, <2>3 DEF Before, Direction, UserKinds
    <3> QED
      BY <2>2, <3>2, <3>3, <3>4, Constants DEF Entries, Date
  <2>4. CASE kind # "groups"
    BY <1>10, <2>1, <2>2, <2>4, EntriesAreRows, BeforeIsOrder DEF Earlier
  <2> QED
    BY <2>3, <2>4
<1>11. ASSUME NEW p \in Spotted(answer.page), NEW q \in Walk!Rest, <<q, p>> \in SpotOrder
       PROVE  q \in Spotted(answer.page)
  <2>1. PICK d \in answer.page : p = Place(d)
    BY DEF Spotted
  <2>2. PICK e \in listed : q = Place(e)
    BY <1>7
  <2>3. e \in Rest(kind, row, Cursor) /\ Before(Direction(kind), e, d)
    BY <1>2, <1>3, <1>6, <1>11, <2>1, <2>2, PlaceIs
  <2>4. e \in answer.page
    BY <1>10, <2>3
  <2> QED
    BY <2>2, <2>4 DEF Spotted
<1>12. ASSUME answer.next = None PROVE Spotted(answer.page) = Walk!Rest
  <2>1. answer.page = Rest(kind, row, Cursor)
    BY <1>5, <1>12 DEF IsAnswer
  <2>2. \A q \in Walk!Rest : q \in Spotted(answer.page)
    BY <1>6, <1>7, <2>1 DEF Spotted
  <2> QED
    BY <1>9, <2>2
<1> QED
  BY <1>9, <1>11, <1>12 DEF Walk!IsPage

\* A page is a page of the abstract walk.
LEMMA FetchRefines == IInv /\ IInv' /\ Fetch => [Walk!Next]_Walk!vars
<1> SUFFICES ASSUME IInv, IInv', Fetch PROVE [Walk!Next]_Walk!vars
  OBVIOUS
<1>1. /\ ~over /\ kind' = kind /\ calm' = calm /\ row' = row /\ limit' = limit
      /\ listed' = listed /\ stayed' = stayed
  BY DEF Fetch, constant
<1>2. PICK answer \in Answers(kind, row, Cursor, limit) :
        /\ shown' = shown \cup answer.page
        /\ repeated' = (repeated \/ answer.page \cap shown # {})
        /\ over' = (answer.next = None)
        /\ cursor' = IF answer.next = None THEN cursor ELSE answer.next
  BY DEF Fetch, Cursor
<1>3. kind \in Kind /\ row \in Table(kind) /\ limit \in Nat \ {0} /\ shown \in SUBSET Entries
        /\ shown' \in SUBSET Entries /\ repeated \in BOOLEAN
  BY <1>1, Constants DEF IInv, TypeOK, Table
<1>4. IsAnswer(kind, row, Cursor, limit, answer)
  BY <1>2, <1>3, AnswersArePages
<1>5. CASE ~calm
  <2>1. /\ Spotted(listed)' = Spotted(listed) /\ Spotted(stayed)' = Spotted(stayed)
        /\ Spotted(shown)' = Spotted(shown)
    BY <1>1, <1>5 DEF Spotted
  <2>2. Reached' = Reached
    BY <1>1, <1>5 DEF Reached
  <2> QED
    BY <1>1, <1>5, <2>1, <2>2 DEF Walk!vars
<1>6. CASE calm
  <2> DEFINE page == Spotted(answer.page)
  <2>1. Walk!IsPage(page) /\ (answer.next = None => page = Walk!Rest)
    BY <1>4, <1>6, PageRefines
  <2>2. answer.page \subseteq Entries /\ answer.page \in SUBSET listed
    BY <1>3, <1>4, PageIsListed DEF IInv, ListedNow, TypeOK
  <2>3. Spotted(shown') = Spotted(shown) \cup page
    BY <1>2, <1>6 DEF Spotted
  <2>4. page \cap Spotted(shown) # {} <=> answer.page \cap shown # {}
    <3>1. \A e \in answer.page : Place(e) \in Spotted(shown) <=> e \in shown
      BY <1>3, <1>6, <2>2, SpottedIs
    <3>2. \A e \in answer.page : Place(e) \in page
      BY <1>6 DEF Spotted
    <3>3. \A p \in page : \E e \in answer.page : p = Place(e)
      BY <1>6 DEF Spotted
    <3> HIDE DEF page
    <3> QED
      BY <3>1, <3>2, <3>3
  <2>5. page \in SUBSET Spotted(listed)
    BY <1>6, <2>2 DEF Spotted
  <2>6. ASSUME NEW e \in shown', cursor' # None, e.at = cursor'.at,
               cursor'.id = (IF kind = "groups" THEN 0 ELSE e.id)
        PROVE  Reached' = Place(e)
    <3>1. kind = "groups" => \A a, b \in shown' : a.at = b.at => a = b
      BY <1>1, <1>6 DEF IInv, CalmKept, Smooth
    <3>2. (CHOOSE d \in shown' : d.at = cursor'.at /\ cursor'.id \in {d.id, 0}) = e
      BY <1>3, <2>6, <3>1, CursorEntry
    <3> QED
      BY <1>1, <1>6, <2>6, <3>2 DEF Reached, Place
  <2>7. \/ (calm /\ over') = TRUE /\ page = Walk!Rest /\ Reached' = Reached
        \/ /\ (calm /\ over') = FALSE
           /\ Reached' \in page
           /\ \A p \in page : p # Reached' => <<p, Reached'>> \in SpotOrder
    <3>1. CASE answer.next = None
      <4>1. CASE cursor = None
        BY <1>1, <1>2, <1>6, <2>1, <3>1, <4>1 DEF Reached
      <4>2. CASE cursor # None
        <5>1. PICK e \in shown :
                /\ e.at = cursor.at /\ cursor.id = (IF kind = "groups" THEN 0 ELSE e.id)
                /\ Reached = Place(e)
          BY <1>6, <4>2, ReachedIs
        <5>2. Reached' = Place(e)
          BY <1>2, <3>1, <4>2, <5>1, <2>6
        <5> QED
          BY <1>2, <1>6, <2>1, <3>1, <5>1, <5>2
      <4> QED
        BY <4>1, <4>2
    <3>2. CASE answer.next # None
      <4>1. PICK last \in answer.page : IsLast(kind, answer.page, last, answer.next)
        BY <1>4, <3>2 DEF IsAnswer
      <4>2. cursor' = answer.next /\ cursor' # None /\ last \in shown'
        BY <1>2, <3>2
      <4>3. last.at = cursor'.at /\ cursor'.id = (IF kind = "groups" THEN 0 ELSE last.id)
        BY <4>1, <4>2 DEF IsLast
      <4>4. Reached' = Place(last)
        BY <2>6, <4>2, <4>3
      <4>5. ASSUME NEW e \in answer.page, e # last PROVE <<Place(e), Place(last)>> \in SpotOrder
        <5>1. kind = "sentInvitations" => e.at # last.at
          <6>1. Smooth(kind, limit, row, listed)
            BY <1>6 DEF IInv, CalmKept
          <6> QED
            BY <2>2, <4>5, <6>1 DEF Smooth
        <5>2. Before(Direction(kind), e, last)
          BY <4>1, <4>5, <5>1 DEF IsLast
        <5> QED
          BY <2>2, <5>2, PlaceIs
      <4>6. \A p \in page : \E e \in answer.page : p = Place(e)
        BY <1>6 DEF Spotted
      <4>7. Place(last) \in page
        BY <1>6 DEF Spotted
      <4>8. (calm /\ over') = FALSE
        BY <1>2, <3>2
      <4> HIDE DEF page
      <4> QED
        BY <4>4, <4>5, <4>6, <4>7, <4>8
    <3> QED
      BY <3>1, <3>2
  <2>8. Walk!Fetch(page)
    <3> HIDE DEF page
    <3>1. ~(calm /\ over)
      BY <1>1
    <3>2. Spotted(listed)' = Spotted(listed) /\ Spotted(stayed)' = Spotted(stayed)
            /\ Spotted(shown)' = Spotted(shown) \cup page
      BY <1>1, <2>3, SpottedNext
    <3>3. (calm /\ repeated)' = ((calm /\ repeated) \/ page \cap Spotted(shown) # {})
      BY <1>1, <1>2, <1>3, <1>6, <2>4
    <3>4. (calm /\ over)' = (calm /\ over')
      BY <1>1
    <3> QED
      BY <2>1, <2>7, <3>1, <3>2, <3>3, <3>4 DEF Walk!Fetch
  <2> QED
    BY <2>5, <2>8 DEF Walk!Next
<1> QED
  BY <1>5, <1>6
\* In a calm list every walk is one of the abstract walks: its pages follow each other
\* in the order of the list, none skips an entry, none comes twice.
THEOREM ListsKeepOrder == Spec => KeepsOrder
<1>1. Init => Walk!Init
  BY InitInvariant, InitRefines
<1>2. IInv /\ IInv' /\ [Next]_vars => [Walk!Next]_Walk!vars
  <2> SUFFICES ASSUME IInv, IInv', [Next]_vars PROVE [Walk!Next]_Walk!vars
    OBVIOUS
  <2>1. CASE Change
    BY <2>1, ChangeRefines
  <2>2. CASE Fetch
    BY <2>2, FetchRefines
  <2>3. CASE UNCHANGED vars
    <3>1. /\ kind' = kind /\ calm' = calm /\ cursor' = cursor /\ over' = over
          /\ shown' = shown /\ repeated' = repeated /\ listed' = listed /\ stayed' = stayed
      BY <2>3 DEF vars, constant
    <3>2. /\ Spotted(listed)' = Spotted(listed) /\ Spotted(stayed)' = Spotted(stayed)
          /\ Spotted(shown)' = Spotted(shown) /\ Reached' = Reached
      BY <3>1 DEF Spotted, Reached, Place
    <3> QED
      BY <3>1, <3>2 DEF Walk!vars
  <2> QED
    BY <2>1, <2>2, <2>3 DEF Next
<1> QED
  BY <1>1, <1>2, Invariance, PTL DEF Spec, KeepsOrder, Walk!Spec
-----------------------------------------------------------------------------
(* Progress *)

\* A page that is not the last moves the cursor on.
LEMMA FetchAdvances ==
    ASSUME IInv, Fetch, ~over', MovesOn
    PROVE  Before(Direction(kind), Cursor, cursor')
<1>1. PICK answer \in Answers(kind, row, Cursor, limit) :
        /\ over' = (answer.next = None)
        /\ cursor' = IF answer.next = None THEN cursor ELSE answer.next
  BY DEF Fetch
<1>2. kind \in Kind /\ row \in Table(kind) /\ limit \in Nat \ {0}
  BY Constants DEF IInv, TypeOK, Table
<1>3. IsAnswer(kind, row, Cursor, limit, answer)
  BY <1>1, <1>2, AnswersArePages
<1>4. answer.next # None /\ cursor' = answer.next
  BY <1>1
<1>5. PICK last \in answer.page : IsLast(kind, answer.page, last, answer.next)
  BY <1>3, <1>4 DEF IsAnswer
<1>6. /\ last \in listed /\ last \in EntriesOf(kind, row) /\ last \in Entries
      /\ Ahead(kind, row, Cursor, last)
  <2>1. last \in Rest(kind, row, Cursor)
    BY <1>3 DEF IsAnswer
  <2> QED
    BY <1>2, <1>3, <2>1, PageIsListed, EntriesFinite DEF IInv, ListedNow, Rest
<1>7. kind # "groups" => cursor' = last
  BY <1>4, <1>5 DEF IsLast
<1>8. calm => Smooth(kind, limit, row, listed) /\ listed = Listing(kind, row)
  BY DEF IInv, CalmKept, ListedNow
<1>9. calm /\ kind \in EdgeKinds \cup {"invitations"} => last.at # Edge(kind)
  <2> SUFFICES ASSUME calm, kind \in EdgeKinds \cup {"invitations"} PROVE last.at # Edge(kind)
    OBVIOUS
  <2>1. Cardinality({e \in Listing(kind, row) : e.at = Edge(kind)}) < limit
    BY <1>8 DEF Smooth, EdgeKinds
  <2>2. kind # "groups"
    BY DEF EdgeKinds
  <2> QED
    BY <1>2, <1>3, <1>4, <1>7, <2>1, <2>2, LastNotAtEdge
<1>10. CASE kind \in EdgeKinds
  <2>1. calm /\ kind # "groups"
    BY <1>10 DEF MovesOn, EdgeKinds
  <2> QED
    BY <1>6, <1>7, <1>9, <1>10, <2>1, AheadIs
<1>11. CASE kind = "invitations"
  <2>1. calm /\ Direction(kind) = "DESC"
    BY <1>11 DEF MovesOn, Direction, UserKinds
  <2>2. Cursor.at # Edge(kind) /\ last.at = Cursor.at => cursor # None
    BY <1>11 DEF Cursor, FirstCursor, RowAt, UserKinds
  <2>3. ASSUME last.at = Cursor.at PROVE FALSE
    <3>1. cursor # None /\ Cursor = cursor /\ Index(kind, last) > cursor.id
      <4>1. last.at \in Date /\ Cursor.at # Edge(kind)
        BY <1>6, <1>9, <1>11, <2>1, <2>3 DEF Entries
      <4>2. ~(last.at < Cursor.at)
        BY <2>3, <4>1, Constants DEF Date
      <4>3. cursor # None /\ Cursor = cursor
        BY <2>2, <2>3, <4>1 DEF Cursor
      <4>4. Index(kind, last) > Cursor.id
        BY <1>6, <1>11, <4>1, <4>2, AheadIs
      <4> QED
        BY <4>3, <4>4
    <3>2. PICK e \in shown : e.at = cursor.at /\ cursor.id = e.id
      BY <1>11, <3>1 DEF IInv, CursorShown
    <3>3. e = last
      BY <1>6, <1>8, <1>11, <2>1, <2>3, <3>1, <3>2 DEF Smooth
    <3>4. Index(kind, last) <= last.id
      BY <1>11, <2>1, <3>2, <3>3 DEF IInv, CalmKept, Index
    <3> QED
      BY <1>6, <3>1, <3>2, <3>3, <3>4, <1>11, Constants DEF Index, Entries
  <2>4. last.at < Cursor.at
    BY <1>6, <1>11, <2>3, AheadIs
  <2> QED
    BY <1>7, <1>11, <2>1, <2>4 DEF Before
<1>12. CASE kind = "groups"
  <2>1. calm /\ Direction(kind) = "DESC"
    BY <1>12 DEF MovesOn, Direction, UserKinds
  <2>2. Found(kind, row) = MyGroups(row)
    BY <1>12 DEF Found
  <2>3. PICK i \in Found(kind, row) : last = Entry(kind, row, i)
    BY <1>6 DEF EntriesOf
  <2>4. last.id \in MyGroups(row) /\ last.at = row[last.id].latest
    <3>1. i \in 1..N
      BY <1>2, FoundRows
    <3> QED
      BY <1>2, <1>12, <2>2, <2>3, <3>1, EntryIndex
  <2>5. last.at = row[last.id].at
    BY <1>8, <1>12, <2>1, <2>4 DEF Smooth
  <2>6. last.at < Cursor.at
    BY <1>6, <1>12, <2>5, AheadIs
  <2>7. cursor'.at = last.at
    BY <1>4, <1>5, <1>12 DEF IsLast
  <2> QED
    BY <2>1, <2>6, <2>7 DEF Before
<1>13. kind # "comments"
  BY <1>1, <1>2, <1>4, CommentAnswersAre DEF Answer
<1>14. CASE kind \notin EdgeKinds \cup {"invitations", "groups"}
  BY <1>6, <1>7, <1>13, <1>14, AheadIs
<1> QED
  BY <1>10, <1>11, <1>12, <1>14

\* Where the cursor moves on, no walk asks twice with one cursor, whatever changes under way.
THEOREM CursorsAdvance == Spec => CursorAdvances
<1>1. IInv /\ [Next]_vars =>
        [Fetch /\ ~over' /\ MovesOn => Before(Direction(kind), Cursor, cursor')]_vars
  BY FetchAdvances
<1> QED
  BY <1>1, Invariance, PTL DEF Spec, CursorAdvances
\* The theorems about the abstract walk, of the walk that a list implements.
Abstract == INSTANCE PagedWalkProofs WITH
    Item <- Spots, Order <- SpotOrder, Start <- <<0, 0>>,
    listed <- Spotted(listed), stayed <- Spotted(stayed), shown <- Spotted(shown),
    repeated <- calm /\ repeated, cursor <- Reached, over <- calm /\ over

\* In a calm list nothing is shown twice and nothing missed, without exception.
THEOREM CalmWalksHold == Spec => []CalmWalks
<1>1. Abstract!IsOrder
  BY SpotsAreOrdered DEF Abstract!IsOrder, Walk!IsOrder
<1>2. Spec => Abstract!Spec
  BY ListsKeepOrder, PTL DEF KeepsOrder, Walk!Spec, Abstract!Spec, Walk!Init, Abstract!Init,
     Walk!Next, Abstract!Next, Walk!vars, Abstract!vars, Walk!Churn, Abstract!Churn, Walk!Fetch,
     Abstract!Fetch, Walk!IsPage, Abstract!IsPage, Walk!Rest, Abstract!Rest, Walk!Precedes,
     Abstract!Precedes
<1>3. Abstract!Spec => []Abstract!NothingTwice /\ []Abstract!NothingMissed
  BY <1>1, Abstract!NothingTwiceHolds, Abstract!NothingMissedHolds, PTL
<1>4. IInv /\ Abstract!NothingTwice /\ Abstract!NothingMissed => CalmWalks
  <2> SUFFICES ASSUME IInv, Abstract!NothingTwice, Abstract!NothingMissed, calm
               PROVE  ~repeated /\ (over => stayed \subseteq shown)
    BY DEF CalmWalks
  <2>1. ~repeated
    BY DEF Abstract!NothingTwice
  <2>2. over => Spotted(stayed) \subseteq Spotted(shown)
    BY DEF Abstract!NothingMissed
  <2>3. shown \in SUBSET Entries /\ stayed \in SUBSET Entries
    BY DEF IInv, TypeOK
  <2>4. \A e \in stayed : Place(e) \in Spotted(stayed)
    BY DEF Spotted
  <2>5. \A e \in stayed : Place(e) \in Spotted(shown) => e \in shown
    BY <2>3, SpottedIs
  <2> QED
    BY <2>1, <2>2, <2>4, <2>5
<1> QED
  BY <1>2, <1>3, <1>4, Invariance, PTL

=============================================================================
