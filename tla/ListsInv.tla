------------------------------- MODULE ListsInv -------------------------------
(***************************************************************************)
(* What a page of each list is, said once for all lists, and the inductive *)
(* invariant of Lists: where the client is among the entries.              *)
(***************************************************************************)
EXTENDS Lists

\* The rows a list's query selects, apart from its cursor.
Found(k, rows) ==
    CASE k = "friends" -> {u \in 1..N : rows[u].active /\ IsFriend(rows[u])}
      [] k = "receivedRequests" -> {u \in 1..N : rows[u].active /\ rows[u].theirs = "PENDING"}
      [] k = "sentRequests" -> {u \in 1..N : rows[u].active /\ rows[u].mine = "PENDING"}
      [] k = "search" ->
            {u \in 1..N : rows[u].active /\ ~rows[u].blocked /\ ~IsFriend(rows[u])}
      [] k = "gatherings" -> Joined(rows, {"open"})
      [] k = "allGatherings" -> Joined(rows, {"open", "ended"})
      [] k = "ended" -> Joined(rows, {"ended"})
      [] k = "unwritten" -> {g \in Joined(rows, {"ended"}) : ~rows[g].posted}
      [] k = "invitations" ->
            {g \in 1..N : rows[g].status = "PENDING" /\ rows[g].state # "deleted"
                            /\ rows[g].host = "active"}
      [] k = "sentInvitations" -> {g \in 1..N : rows[g].unanswered /\ rows[g].state # "deleted"}
      [] k = "groups" -> MyGroups(rows)
      [] k \in {"feeds", "feedsAscending"} -> Seen(rows)
      [] k = "ownFeeds" -> {f \in Own(rows) : ~rows[f].hidden}
      [] k = "blockedFeeds" -> {f \in 1..N : rows[f].hidden /\ ~rows[f].deleted}
      [] k = "comments" ->
            {c \in 1..N : ~rows[c].deleted /\ rows[c].writer = "active" /\ ~rows[c].hidden}
      [] k = "notifications" -> {n \in 1..N : rows[n].stored}

\* How a row is shown, and which row an entry shows.
Entry(k, rows, i) ==
    CASE k = "invitations" -> RowAt(rows[i].at, N + 1 - i)
      [] k = "groups" -> RowAt(rows[i].latest, i)
      [] OTHER -> RowAt(rows[i].at, i)
Index(k, e) == IF k = "invitations" THEN N + 1 - e.id ELSE e.id

EntriesOf(k, rows) == {Entry(k, rows, i) : i \in Found(k, rows)}

\* findFeeds drops the feeds of writers who have withdrawn.
Kept(k, rows, e) == k \in FeedKinds => rows[e.id].writer # "withdrawn"

\* The lists whose query takes all rows at the edge of the range for unseen.
EdgeKinds == {"gatherings", "allGatherings", "ended", "sentInvitations"}

\* Whether the query with cursor c selects entry e.
Ahead(k, rows, c, e) ==
    CASE k \in EdgeKinds ->
            Before(Direction(k), c, e) \/ (c.at = Edge(k) /\ e.at = Edge(k))
      [] k = "invitations" ->
            e.at < c.at \/ (e.at = c.at /\ (c.at = Edge(k) \/ Index(k, e) > c.id))
      [] k = "groups" -> rows[e.id].at < c.at
      [] k = "comments" -> TRUE
      [] OTHER -> Before(Direction(k), c, e)

Rest(k, rows, c) == {e \in EntriesOf(k, rows) : Ahead(k, rows, c, e)}

\* Where a page stops: its last entry, and what the cursor keeps of it.
IsLast(k, page, last, next) ==
    /\ last \in page
    /\ next = IF k = "groups" THEN [at |-> last.at, id |-> 0] ELSE last
    /\ \A e \in page : \/ e = last \/ Before(Direction(k), e, last)
                       \/ k = "sentInvitations" /\ e.at = last.at

\* The order in which the query counts the entries to the limit.
Earlier(k, rows, d, e) ==
    IF k = "groups" THEN rows[d.id].at >= rows[e.id].at ELSE Before(Direction(k), d, e)

\* What every answer of every list is.
IsAnswer(k, rows, c, n, answer) ==
    /\ \A e \in answer.page : e \in Rest(k, rows, c) /\ Kept(k, rows, e)
    /\ answer.next # None => \E last \in answer.page : IsLast(k, answer.page, last, answer.next)
    /\ answer.next = None => \A e \in Rest(k, rows, c) \ answer.page : CutShort(k, rows, c, e)
    /\ answer.next # None =>
        \A d \in answer.page, e \in Rest(k, rows, c) \ answer.page : Earlier(k, rows, d, e)
    /\ answer.next # None /\ k \in EdgeKinds \cup {"invitations"} => n <= Cardinality(answer.page)

-----------------------------------------------------------------------------

RowsWellFormed ==
    \A i \in 1..N :
        /\ WellFormed(kind, row[i])
        /\ kind \in GatheringKinds /\ row[i].state = "deleted"
                => row[i].status = "NONE" /\ ~row[i].unanswered

ListedNow == listed = Listing(kind, row)

\* The cursor is that of an entry shown; comments have none.
CursorShown ==
    /\ cursor # None => \E e \in shown :
        e.at = cursor.at /\ cursor.id = (IF kind = "groups" THEN 0 ELSE e.id)
    /\ kind = "comments" => cursor = None

\* What has stayed is shown, excused, or ahead of the cursor.
StayedIsAhead ==
    \A e \in stayed :
        e \in shown \/ Excused(e) \/ (~over /\ Ahead(kind, row, Cursor, e))

\* In a calm list the cursor tells what is behind it.
CalmKept ==
    calm =>
        /\ Smooth(kind, limit, row, listed)
        /\ cursor # None /\ kind \in EdgeKinds \cup {"invitations"} => cursor.at # Edge(kind)
        /\ kind = "invitations" => \A e \in shown : N + 1 - e.id <= e.id

IInv == TypeOK /\ RowsWellFormed /\ ListedNow /\ CursorShown /\ StayedIsAhead /\ CalmKept

\* What the abstract walk promises of a calm list: nothing is shown by two pages, and at
\* the end all that has stayed was shown, with no exceptions.
CalmWalks == calm => ~repeated /\ (over => stayed \subseteq shown)

=============================================================================
